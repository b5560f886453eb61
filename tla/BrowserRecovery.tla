-------------------------- MODULE BrowserRecovery --------------------------
(***************************************************************************)
(* The recovery stack of the server composed with the browser service it   *)
(* asks and sends tasks to.  What travels over HTTP between the two is in  *)
(* flight for a while: a task between revoke() and its arrival, the answer *)
(* to recoveryState between the service's look and the token.              *)
(***************************************************************************)
EXTENDS Recovery

CONSTANTS
    Tasks,  \* the tasks the server sends
    widget, \* widget[t]: the widget of task t
    NoTask

ASSUME ComposedAssumption == NoTask \notin Tasks /\ widget \in [Tasks -> Widgets]

VARIABLES
    service, chromium, lane, hung, stage, answer, aborted, page, retained,
    sent,   \* the tasks on their way to the service
    report  \* report[i]: the service's answer to request i, on its way back

Browser == INSTANCE BrowserTasks

browserVars ==
    <<service, chromium, lane, hung, stage, answer, aborted, page, retained>>
vars == <<accessVars, browserVars, sent, report>>

Init ==
    /\ AccessInit
    /\ Browser!Init
    /\ sent = {}
    /\ report = [i \in Requests |-> "none"]

\* invoke: "Revoking here -- before the task travels".
Send(t) ==
    /\ stage[t] = "idle" /\ t \notin sent
    /\ Revoke(widget[t])
    /\ sent' = sent \cup {t}
    /\ UNCHANGED <<browserVars, report>>

Arrive(t) ==
    /\ t \in sent
    /\ Browser!Invoke(t)
    /\ sent' = sent \ {t}
    /\ UNCHANGED <<accessVars, report>>

\* GET /recovery/:widgetId is served while the lane is busy.
Inspect(i) ==
    /\ issuing[i] = "asked" /\ report[i] = "none"
    /\ Browser!RecoveryState(wants[i])
    /\ report' = [report EXCEPT ![i] = IF Browser!HasRetainedPage(wants[i]) THEN "yes" ELSE "no"]
    /\ UNCHANGED <<accessVars, sent>>

\* The answer reaches the handler; no answer ends as a refusal as well.
Answered(i) ==
    /\ \/ report[i] = "yes" /\ Issue(i)
       \/ NoPage(i)
    /\ UNCHANGED <<browserVars, sent, report>>

ServerStep ==
    /\ \/ \E i \in Requests : Ask(i) \/ Expire(i)
       \/ \E k \in Sockets :
              Upgrade(k) \/ Accept(k) \/ Refuse(k) \/ Connect(k) \/ Teardown(k) \/ CloseEvent(k)
       \/ RevokeAll
    /\ UNCHANGED <<browserVars, sent, report>>

BrowserStep ==
    /\ \/ \E t \in Tasks :
              Browser!QueueTimeout(t) \/ Browser!ExecutionTimeout(t) \/ Browser!InLane(t)
       \/ \E w \in Widgets : Browser!PageGone(w)
       \/ Browser!MarkReady \/ Browser!Crash \/ Browser!Shutdown \/ Browser!ShutdownExecutor
    /\ UNCHANGED <<accessVars, sent, report>>

Next ==
    \/ \E t \in Tasks : Send(t) \/ Arrive(t)
    \/ \E i \in Requests : Inspect(i) \/ Answered(i)
    \/ ServerStep \/ BrowserStep

Spec == Init /\ [][Next]_vars
=============================================================================
