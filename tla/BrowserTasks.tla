---------------------------- MODULE BrowserTasks ----------------------------
(***************************************************************************)
(* The browser-automation service: one Chromium, one lane of widget tasks. *)
(* A call waits in the lane (queue.ts) under a wait deadline, runs under   *)
(* an execution deadline that aborts it, acquires a page from the          *)
(* executor (chromium-executor.ts), runs its handler on it and releases    *)
(* it.  A page on which a human is needed is retained for the widget until *)
(* the widget's next task.  An action ends at an operation the code awaits *)
(* on the browser; deadlines, crashes and shutdown fall in between.  The   *)
(* lane is first in, first out: SerialLane shows that of serial-lane.ts.   *)
(***************************************************************************)
EXTENDS Naturals, Sequences

CONSTANTS
    Tasks,   \* calls of POST /tasks, each made at most once
    Widgets, \* the widgets they are made for
    widget,  \* widget[t]: the widget of task t
    NoTask

ASSUME TasksAssumption ==
    /\ NoTask \notin Tasks
    /\ widget \in [Tasks -> Widgets]

VARIABLES
    service,  \* "starting", "ready", "draining", and "stopped" once shut down
    chromium, \* the persistent context: "none" or "open"
    lane,     \* the calls in the lane, the running one first
    hung,     \* the tasks whose handler never settles
    stage,    \* stage[t]: what the call awaits
    answer,   \* answer[t]: what the caller was told
    aborted,  \* the tasks whose abort signal fired
    page,     \* page[t]: the page opened for task t: "none", "open", "closed",
              \* or "left" when it was to be closed and that failed
    retained  \* retained[w]: the task whose page is kept for widget w

vars == <<service, chromium, lane, hung, stage, answer, aborted, page, retained>>

Answers == {"none", "result", "input_needed", "error", "unavailable",
            "queue_timeout", "execution_timeout"}

Started == {"launching", "closing", "opening", "handler", "releasing"}

Init ==
    /\ service = "starting"
    /\ chromium = "none"
    /\ lane = <<>>
    /\ hung \in SUBSET Tasks
    /\ stage = [t \in Tasks |-> "idle"]
    /\ answer = [t \in Tasks |-> "none"]
    /\ aborted = {}
    /\ page = [t \in Tasks |-> "none"]
    /\ retained = [w \in Widgets |-> NoTask]

\* settle(): the first answer counts, later ones are dropped.
Settle(t, a) == answer' = [answer EXCEPT ![t] = IF @ = "none" THEN a ELSE @]

Goto(t, s) == stage' = [stage EXCEPT ![t] = s]

\* The lane's task settled: the next call may start.
LeaveLane(t) == Goto(t, "done") /\ lane' = Tail(lane)

\* page.close() on some pages.  That one fails is logged and no more: the page
\* stays open, and the executor has let go of it.
Close(ts) ==
    \E failed \in SUBSET (ts \cap Tasks) :
        page' = [t \in Tasks |-> IF t \notin ts \/ page[t] # "open" THEN page[t]
                                ELSE IF t \in failed THEN "left" ELSE "closed"]

ContextClosed ==
    /\ chromium' = "none"
    /\ page' = [t \in Tasks |-> IF page[t] = "none" THEN "none" ELSE "closed"]
    /\ retained' = [w \in Widgets |-> NoTask]

-----------------------------------------------------------------------------

MarkReady ==
    /\ service = "starting"
    /\ service' = "ready"
    /\ UNCHANGED <<chromium, lane, hung, stage, answer, aborted, page, retained>>

Invoke(t) ==
    /\ stage[t] = "idle"
    /\ \/ /\ service = "ready"
          /\ Goto(t, "queued")
          /\ lane' = Append(lane, t)
          /\ UNCHANGED answer
       \/ /\ service # "ready"
          /\ Goto(t, "done")
          /\ Settle(t, "unavailable")
          /\ UNCHANGED lane
    /\ UNCHANGED <<service, chromium, hung, aborted, page, retained>>

\* The wait deadline: the caller is answered, the call stays in the lane.
QueueTimeout(t) ==
    /\ stage[t] = "queued"
    /\ answer[t] = "none"
    /\ Settle(t, "queue_timeout")
    /\ UNCHANGED <<service, chromium, lane, hung, stage, aborted, page, retained>>

\* Mutant: a call that was answered while it waited never gives up its turn.
Skip_KeepsTurn(t) ==
    /\ stage[t] = "queued" /\ t = Head(lane)
    /\ answer[t] = "none" /\ service # "ready"
    /\ Settle(t, "unavailable")
    /\ LeaveLane(t)
    /\ UNCHANGED <<service, chromium, hung, aborted, page, retained>>

\* A call whose turn comes too late, or after the queue was closed.
Skip(t) ==
    /\ stage[t] = "queued" /\ t = Head(lane)
    /\ answer[t] # "none" \/ service # "ready"
    /\ Settle(t, "unavailable")
    /\ LeaveLane(t)
    /\ UNCHANGED <<service, chromium, hung, aborted, page, retained>>

\* dispatch refuses an unknown task or an invalid payload.
Refuse(t) ==
    /\ stage[t] = "queued" /\ t = Head(lane)
    /\ answer[t] = "none" /\ service = "ready"
    /\ Settle(t, "error")
    /\ LeaveLane(t)
    /\ UNCHANGED <<service, chromium, hung, aborted, page, retained>>

\* Mutant: letting go of every widget's retained page.
TakeContext_ClosesAll(t) ==
    /\ Goto(t, IF retained[widget[t]] = NoTask THEN "opening" ELSE "closing")
    /\ Close({retained[w] : w \in Widgets})
    /\ retained' = [w \in Widgets |-> NoTask]

\* acquire with the context open: the widget's retained page is let go.
TakeContext(t) ==
    /\ Goto(t, IF retained[widget[t]] = NoTask THEN "opening" ELSE "closing")
    /\ Close({retained[widget[t]]})
    /\ retained' = [retained EXCEPT ![widget[t]] = NoTask]

MayStart(t) == stage[t] = "queued" /\ t = Head(lane) /\ answer[t] = "none" /\ service = "ready"

\* Mutant: a call that was answered while it waited is run all the same.
Start_EvenAnswered(t) ==
    /\ stage[t] = "queued" /\ t = Head(lane) /\ service = "ready"
    /\ \/ chromium = "open" /\ TakeContext(t)
       \/ chromium = "none" /\ Goto(t, "launching") /\ UNCHANGED <<page, retained>>
    /\ UNCHANGED <<service, chromium, lane, hung, answer, aborted>>

Start(t) ==
    /\ MayStart(t)
    /\ \/ chromium = "open" /\ TakeContext(t)
       \/ chromium = "none" /\ Goto(t, "launching") /\ UNCHANGED <<page, retained>>
    /\ UNCHANGED <<service, chromium, lane, hung, answer, aborted>>

Launched(t) ==
    /\ stage[t] = "launching" /\ t \notin aborted
    /\ chromium' = "open"
    /\ TakeContext(t)
    /\ UNCHANGED <<service, lane, hung, answer, aborted>>

\* The launch failed, or its call was aborted meanwhile: the context nobody
\* claims is closed, or left to the next call when closing it fails.
LaunchLost(t) ==
    /\ stage[t] = "launching"
    /\ \/ ContextClosed
       \/ t \in aborted /\ chromium' = "open" /\ UNCHANGED <<page, retained>>
    /\ Settle(t, "error")
    /\ LeaveLane(t)
    /\ UNCHANGED <<service, hung, aborted>>

ClosedRetained(t) ==
    /\ stage[t] = "closing"
    /\ \/ /\ t \notin aborted
          /\ Goto(t, "opening")
          /\ UNCHANGED <<answer, lane>>
       \/ /\ t \in aborted
          /\ Settle(t, "error")
          /\ LeaveLane(t)
    /\ UNCHANGED <<service, chromium, hung, aborted, page, retained>>

\* Mutant: the signal is not looked at again after newPage().
OpenPage_NoRecheck(t) ==
    /\ stage[t] = "opening" /\ chromium = "open"
    /\ page' = [page EXCEPT ![t] = "open"]
    /\ Goto(t, "handler")
    /\ UNCHANGED <<service, chromium, lane, hung, answer, aborted, retained>>

OpenPage(t) ==
    /\ stage[t] = "opening" /\ chromium = "open"
    /\ \/ /\ t \notin aborted
          /\ page' = [page EXCEPT ![t] = "open"]
          /\ Goto(t, "handler")
          /\ UNCHANGED <<answer, lane>>
       \/ /\ t \in aborted
          /\ \E closed \in {"closed", "left"} : page' = [page EXCEPT ![t] = closed]
          /\ Settle(t, "error")
          /\ LeaveLane(t)
    /\ UNCHANGED <<service, chromium, hung, aborted, retained>>

OpenPageFailed(t) ==
    /\ stage[t] = "opening"
    /\ Settle(t, "error")
    /\ LeaveLane(t)
    /\ UNCHANGED <<service, chromium, hung, aborted, page, retained>>

\* The handler settled; release closes the page and awaits that ...
Release(t) ==
    /\ stage[t] = "handler" /\ t \notin hung \cup aborted
    /\ Close({t})
    /\ Goto(t, "releasing")
    /\ UNCHANGED <<service, chromium, lane, hung, answer, aborted, retained>>

Released(t) ==
    /\ stage[t] = "releasing"
    /\ \E a \in {"result", "error"} : Settle(t, a)
    /\ LeaveLane(t)
    /\ UNCHANGED <<service, chromium, hung, aborted, page, retained>>

\* ... or, when the handler asked for a human, keeps it for the widget.
Retain(t) ==
    /\ stage[t] = "handler" /\ t \notin hung \cup aborted
    /\ Close({retained[widget[t]]})
    /\ retained' = [retained EXCEPT ![widget[t]] = t]
    /\ Settle(t, "input_needed")
    /\ LeaveLane(t)
    /\ UNCHANGED <<service, chromium, hung, aborted>>

\* The handler of an aborted task settled: its page was released before.
AbortedHandlerEnds(t) ==
    /\ stage[t] = "handler" /\ t \in aborted \ hung
    /\ LeaveLane(t)
    /\ UNCHANGED <<service, chromium, hung, answer, aborted, page, retained>>

\* Mutant: the deadline aborts the task and leaves its caller waiting.
ExecutionTimeout_NoSettle(t) ==
    /\ stage[t] \in Started /\ answer[t] = "none" /\ t \notin aborted
    /\ aborted' = aborted \cup {t}
    /\ Close(IF stage[t] = "handler" THEN {t} ELSE {})
    /\ UNCHANGED <<service, chromium, lane, hung, stage, answer, retained>>

\* The execution deadline: abort closes the page, the caller is answered.
ExecutionTimeout(t) ==
    /\ stage[t] \in Started /\ answer[t] = "none" /\ t \notin aborted
    /\ aborted' = aborted \cup {t}
    /\ Close(IF stage[t] = "handler" THEN {t} ELSE {})
    /\ Settle(t, "execution_timeout")
    /\ UNCHANGED <<service, chromium, lane, hung, stage, retained>>

-----------------------------------------------------------------------------

\* Chromium is gone: the context's close event resets the executor.
Crash ==
    /\ chromium = "open"
    /\ ContextClosed
    /\ UNCHANGED <<service, lane, hung, stage, answer, aborted>>

\* Somebody closes the retained page, which its entry does not notice.
PageGone(w) ==
    /\ retained[w] # NoTask /\ page[retained[w]] = "open"
    /\ page' = [page EXCEPT ![retained[w]] = "closed"]
    /\ UNCHANGED <<service, chromium, lane, hung, stage, answer, aborted, retained>>

HasRetainedPage(w) == \E t \in Tasks : retained[w] = t /\ page[t] = "open"

\* GET /recovery/:widgetId drops the entry of a page that is closed.
RecoveryState(w) ==
    /\ service = "ready"
    /\ retained' = [retained EXCEPT ![w] = IF HasRetainedPage(w) THEN @ ELSE NoTask]
    /\ UNCHANGED <<service, chromium, lane, hung, stage, answer, aborted, page>>

Shutdown ==
    /\ service \in {"starting", "ready"}
    /\ service' = "draining"
    /\ UNCHANGED <<chromium, lane, hung, stage, answer, aborted, page, retained>>

\* The lane is idle: the executor closes the context.
ShutdownExecutor ==
    /\ service = "draining" /\ lane = <<>>
    /\ service' = "stopped"
    /\ ContextClosed
    /\ UNCHANGED <<lane, hung, stage, answer, aborted>>

InLane(t) ==
    \/ Skip(t) \/ Refuse(t) \/ Start(t) \/ Launched(t) \/ LaunchLost(t) \/ ClosedRetained(t)
    \/ OpenPage(t) \/ OpenPageFailed(t) \/ Release(t) \/ Released(t) \/ Retain(t)
    \/ AbortedHandlerEnds(t)

Next ==
    \/ \E t \in Tasks : Invoke(t) \/ QueueTimeout(t) \/ ExecutionTimeout(t) \/ InLane(t)
    \/ \E w \in Widgets : PageGone(w) \/ RecoveryState(w)
    \/ MarkReady \/ Crash \/ Shutdown \/ ShutdownExecutor

Spec == Init /\ [][Next]_vars

\* Timers fire, the browser answers, handlers settle unless they hang; nobody
\* has to call, to crash or to send SIGTERM.
FairSpec ==
    /\ Spec
    /\ \A t \in Tasks :
           /\ WF_vars(QueueTimeout(t)) /\ WF_vars(ExecutionTimeout(t)) /\ WF_vars(InLane(t))
    /\ WF_vars(ShutdownExecutor)

-----------------------------------------------------------------------------

TypeOK ==
    /\ service \in {"starting", "ready", "draining", "stopped"}
    /\ chromium \in {"none", "open"}
    /\ lane \in Seq(Tasks)
    /\ hung \subseteq Tasks
    /\ stage \in [Tasks -> {"idle", "queued", "done"} \cup Started]
    /\ answer \in [Tasks -> Answers]
    /\ aborted \subseteq Tasks
    /\ page \in [Tasks -> {"none", "open", "closed", "left"}]
    /\ retained \in [Widgets -> Tasks \cup {NoTask}]

\* No page leaks: an open page belongs to the one running task, unless it was
\* aborted, or is retained for its widget.  The abort may fall before, during
\* or after newPage() (chromium-executor.ts:191-243).  A page that was left by
\* a close that failed is no longer the executor's to account for.
PagesAccounted ==
    /\ TypeOK
    /\ \A t \in Tasks : page[t] = "open" =>
           /\ chromium = "open"
           /\ \/ stage[t] = "handler" /\ t = Head(lane) /\ t \notin aborted
              \/ stage[t] = "done" /\ retained[widget[t]] = t

\* A caller that was told its call did not run can rely on that: neither a
\* queue timeout nor "unavailable" is answered to a call that opens a page.
NotRunMeansNotRun ==
    \A t \in Tasks :
        answer[t] \in {"queue_timeout", "unavailable"} =>
            page[t] = "none" /\ stage[t] \notin Started

\* A page kept for an operator outlives the tasks of other widgets: it goes
\* only with the context, by hand, or for a task of its own widget.
RetainedOutlivesOthers ==
    [][\A w \in Widgets : \A t \in Tasks :
          retained[w] = t /\ page[t] = "open" /\ page'[t] # "open" =>
              \/ chromium' = "none"
              \/ retained'[w] = t
              \/ \E q \in Tasks : widget[q] = w /\ stage[q] # stage'[q]]_vars

\* Every call is answered, whatever hangs before it or in its own handler.
EveryCallAnswered == \A t \in Tasks : stage[t] = "queued" ~> answer[t] # "none"

\* Shutdown completes unless a handler that was already started hangs.
ShutdownCompletes ==
    service = "draining" /\ (\A t \in hung : stage[t] \notin Started) ~> service = "stopped"
=============================================================================
