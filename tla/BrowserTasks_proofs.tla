------------------------- MODULE BrowserTasks_proofs -------------------------
(***************************************************************************)
(* The browser service, for any number of calls and widgets: pages have an *)
(* owner, what a caller is told about its call is so, and a page kept for  *)
(* an operator is not lost to other widgets.  The invariant has two        *)
(* layers: the order of the lane, and what calls, answers and pages have   *)
(* to do with one another.                                                 *)
(***************************************************************************)
EXTENDS BrowserTasks, TLAPS

\* The lane holds each call that is under way once; only the first was started.
LaneOrdered ==
  /\ \A t \in Tasks : stage[t] \notin {"idle", "done"} <=> \E i \in 1..Len(lane) : lane[i] = t
  /\ \A i, j \in 1..Len(lane) : lane[i] = lane[j] => i = j
  /\ \A i \in 1..Len(lane) : i # 1 => stage[lane[i]] = "queued"

NotRun == {"queue_timeout", "unavailable"}
Pageless == {"idle", "queued", "launching", "closing", "opening"}

\* One call: pages are opened late, an answer that denies the run ends the
\* call, and an open page is the running handler's or is kept for its widget.
CallSound(t) ==
  /\ stage[t] \in Pageless => page[t] = "none"
  /\ stage[t] = "idle" => answer[t] = "none"
  /\ answer[t] \in NotRun => page[t] = "none" /\ stage[t] \notin Started
  /\ page[t] = "open" =>
       /\ chromium = "open"
       /\ \/ stage[t] = "handler" /\ t \notin aborted
          \/ stage[t] = "done" /\ retained[widget[t]] = t

\* What is kept for a widget is the page of a finished call of that widget.
KeptSound(w) == retained[w] # NoTask => stage[retained[w]] = "done" /\ widget[retained[w]] = w

Sound == TypeOK /\ (\A t \in Tasks : CallSound(t)) /\ \A w \in Widgets : KeptSound(w)

TasksInv == LaneOrdered /\ Sound

LEMMA TasksInitial == Init => TasksInv
<1> SUFFICES ASSUME Init PROVE TasksInv
  OBVIOUS
<1>1. TypeOK
  BY DEF Init, TypeOK, Started, Answers
<1>2. LaneOrdered
  BY DEF Init, LaneOrdered
<1>3. \A t \in Tasks : CallSound(t)
  BY DEF Init, CallSound, Started, NotRun
<1>4. \A w \in Widgets : KeptSound(w)
  BY DEF Init, KeptSound
<1> QED BY <1>1, <1>2, <1>3, <1>4 DEF TasksInv, Sound

-----------------------------------------------------------------------------
(* The lane.                                                               *)

\* A call that joins the lane is its last, and the others stay as they are.
LEMMA JoinLane ==
  ASSUME NEW s \in Seq(Tasks), NEW t \in Tasks
  PROVE  /\ Append(s, t) \in Seq(Tasks)
         /\ Len(Append(s, t)) = Len(s) + 1
         /\ \A i \in 1..Len(s) : Append(s, t)[i] = s[i]
         /\ Append(s, t)[Len(s) + 1] = t
  OBVIOUS

\* When the first call leaves the lane, the others move up by one.
LEMMA MoveUp ==
  ASSUME NEW s \in Seq(Tasks), s # <<>>
  PROVE  /\ Tail(s) \in Seq(Tasks)
         /\ Len(Tail(s)) = Len(s) - 1 /\ Len(s) \in Nat \ {0}
         /\ \A i \in 1..Len(Tail(s)) : Tail(s)[i] = s[i + 1]
         /\ Head(s) = s[1] /\ Head(s) \in Tasks
  OBVIOUS

\* What the lane looks like to the call that is first in it.
LEMMA FirstInLane ==
  ASSUME TypeOK, LaneOrdered, NEW t \in Tasks,
         stage[t] \in Started \/ (stage[t] = "queued" /\ t = Head(lane))
  PROVE  lane # <<>> /\ t = Head(lane)
<1>1. PICK i \in 1..Len(lane) : lane[i] = t
  BY DEF LaneOrdered, Started
<1>2. lane # <<>>
  BY <1>1 DEF TypeOK
<1>3. CASE stage[t] \in Started
  <2>1. i = 1
    BY <1>1, <1>3 DEF LaneOrdered, Started
  <2> QED BY <1>1, <1>2, <2>1, MoveUp DEF TypeOK
<1> QED BY <1>2, <1>3

Joins(t)  == stage[t] = "idle" /\ Goto(t, "queued") /\ lane' = Append(lane, t)
Refused(t) == stage[t] = "idle" /\ Goto(t, "done") /\ UNCHANGED lane
Leaves(t) == lane # <<>> /\ t = Head(lane) /\ LeaveLane(t)
Advances(t) == /\ lane # <<>> /\ t = Head(lane)
               /\ \E s \in Started : Goto(t, s)
               /\ UNCHANGED lane

\* What a step may do to the order of the lane.
LEMMA LaneFootprint ==
  ASSUME TypeOK, LaneOrdered, [Next]_vars
  PROVE  \/ UNCHANGED <<lane, stage>>
         \/ \E t \in Tasks : Joins(t) \/ Refused(t) \/ Leaves(t) \/ Advances(t)
<1> DEFINE Done == \/ UNCHANGED <<lane, stage>>
                   \/ \E t \in Tasks : Joins(t) \/ Refused(t) \/ Leaves(t) \/ Advances(t)
<1> SUFFICES Done
  OBVIOUS
<1>1. ASSUME NEW t \in Tasks, Invoke(t) PROVE Done
  BY <1>1 DEF Invoke, Joins, Refused
<1>2. ASSUME NEW t \in Tasks, QueueTimeout(t) \/ ExecutionTimeout(t) PROVE Done
  BY <1>2 DEF QueueTimeout, ExecutionTimeout
<1>3. ASSUME NEW t \in Tasks, Skip(t) \/ Refuse(t) PROVE Done
  BY <1>3, FirstInLane DEF Skip, Refuse, Leaves
<1>4. ASSUME NEW t \in Tasks, Start(t) PROVE Done
  BY <1>4, FirstInLane DEF Start, MayStart, TakeContext, Started, Advances
<1>5. ASSUME NEW t \in Tasks,
             Launched(t) \/ ClosedRetained(t) \/ OpenPage(t) \/ Release(t)
      PROVE  Done
  <2>1. lane # <<>> /\ t = Head(lane)
    BY <1>5, FirstInLane DEF Launched, ClosedRetained, OpenPage, Release, Started
  <2> QED BY <1>5, <2>1 DEF Launched, TakeContext, ClosedRetained, OpenPage, Release,
                          Started, Leaves, Advances
<1>6. ASSUME NEW t \in Tasks,
             LaunchLost(t) \/ OpenPageFailed(t) \/ Released(t) \/ Retain(t)
               \/ AbortedHandlerEnds(t)
      PROVE  Done
  <2>1. lane # <<>> /\ t = Head(lane)
    BY <1>6, FirstInLane DEF LaunchLost, OpenPageFailed, Released, Retain, AbortedHandlerEnds,
                             Started
  <2> QED BY <1>6, <2>1 DEF LaunchLost, OpenPageFailed, Released, Retain, AbortedHandlerEnds,
                          Leaves
<1>7. ASSUME NEW w \in Widgets, PageGone(w) \/ RecoveryState(w) PROVE Done
  BY <1>7 DEF PageGone, RecoveryState
<1>8. CASE MarkReady \/ Crash \/ Shutdown \/ ShutdownExecutor
  BY <1>8 DEF MarkReady, Crash, Shutdown, ShutdownExecutor
<1>9. CASE UNCHANGED vars
  BY <1>9 DEF vars
<1> HIDE DEF Done
<1> QED BY <1>1, <1>2, <1>3, <1>4, <1>5, <1>6, <1>7, <1>8, <1>9 DEF Next, InLane

LEMMA LaneStep ==
  ASSUME TypeOK, LaneOrdered, [Next]_vars
  PROVE  LaneOrdered' /\ lane' \in Seq(Tasks)
<1> USE DEF TypeOK
<1>1. CASE UNCHANGED <<lane, stage>>
  BY <1>1 DEF LaneOrdered
<1>2. ASSUME NEW t \in Tasks, Joins(t)
      PROVE  LaneOrdered' /\ lane' \in Seq(Tasks)
  <2>1. \A i \in 1..Len(lane) : lane[i] # t /\ lane[i] \in Tasks
    BY <1>2 DEF Joins, LaneOrdered
  <2>2. /\ lane' \in Seq(Tasks) /\ Len(lane') = Len(lane) + 1 /\ Len(lane) \in Nat
        /\ \A i \in 1..Len(lane) : lane'[i] = lane[i]
        /\ lane'[Len(lane) + 1] = t
    BY <1>2, JoinLane DEF Joins
  <2>3. \A q \in Tasks : stage'[q] = IF q = t THEN "queued" ELSE stage[q]
    BY <1>2 DEF Joins, Goto
  <2>4. ASSUME NEW q \in Tasks
        PROVE  stage'[q] \notin {"idle", "done"} <=> \E i \in 1..Len(lane') : lane'[i] = q
    <3>1. CASE q = t
      BY <2>2, <2>3, <3>1
    <3>2. CASE q # t
      <4>1. \A i \in 1..Len(lane') : i \in 1..Len(lane) \/ i = Len(lane) + 1
        BY <2>2
      <4>2. (\E i \in 1..Len(lane') : lane'[i] = q) <=> \E i \in 1..Len(lane) : lane[i] = q
        BY <2>2, <3>2, <4>1
      <4> QED BY <2>3, <3>2, <4>2 DEF LaneOrdered
    <3> QED BY <3>1, <3>2
  <2>5. \A i, j \in 1..Len(lane') : lane'[i] = lane'[j] => i = j
    BY <2>1, <2>2 DEF LaneOrdered
  <2>6. \A i \in 1..Len(lane') : i # 1 => stage'[lane'[i]] = "queued"
    BY <2>1, <2>2, <2>3 DEF LaneOrdered
  <2> QED BY <2>2, <2>4, <2>5, <2>6 DEF LaneOrdered
<1>3. ASSUME NEW t \in Tasks, Refused(t)
      PROVE  LaneOrdered' /\ lane' \in Seq(Tasks)
  <2>1. \A i \in 1..Len(lane) : lane[i] # t /\ lane[i] \in Tasks
    BY <1>3 DEF Refused, LaneOrdered
  <2> QED BY <1>3, <2>1 DEF Refused, Goto, LaneOrdered
<1>4. ASSUME NEW t \in Tasks, Leaves(t)
      PROVE  LaneOrdered' /\ lane' \in Seq(Tasks)
  <2>1. /\ lane' \in Seq(Tasks) /\ Len(lane') = Len(lane) - 1 /\ Len(lane) \in Nat \ {0}
        /\ \A i \in 1..Len(lane') : lane'[i] = lane[i + 1]
        /\ t = lane[1]
    BY <1>4, MoveUp DEF Leaves, LeaveLane
  <2>2. \A q \in Tasks : stage'[q] = IF q = t THEN "done" ELSE stage[q]
    BY <1>4 DEF Leaves, LeaveLane, Goto
  <2>3. \A i \in 1..Len(lane) : i # 1 => lane[i] # t /\ lane[i] \in Tasks
    BY <2>1 DEF LaneOrdered
  <2>4. ASSUME NEW q \in Tasks
        PROVE  stage'[q] \notin {"idle", "done"} <=> \E i \in 1..Len(lane') : lane'[i] = q
    <3>1. CASE q = t
      <4>1. stage'[q] = "done"
        BY <2>2, <3>1
      <4>2. ASSUME NEW i \in 1..Len(lane') PROVE lane'[i] # q
        <5>1. i + 1 \in 1..Len(lane) /\ i + 1 # 1 /\ lane'[i] = lane[i + 1]
          BY <2>1
        <5> QED BY <2>3, <3>1, <5>1
      <4> QED BY <4>1, <4>2
    <3>2. CASE q # t
      <4>1. ASSUME NEW i \in 1..Len(lane), lane[i] = q PROVE i - 1 \in 1..Len(lane')
        BY <2>1, <3>2, <4>1
      <4>2. \A i \in 1..Len(lane) : lane[i] = q => lane'[i - 1] = q
        BY <2>1, <4>1
      <4>3. \A i \in 1..Len(lane') : i + 1 \in 1..Len(lane)
        BY <2>1
      <4>4. (\E i \in 1..Len(lane') : lane'[i] = q) <=> \E i \in 1..Len(lane) : lane[i] = q
        BY <2>1, <4>1, <4>2, <4>3
      <4> QED BY <2>2, <3>2, <4>4 DEF LaneOrdered
    <3> QED BY <3>1, <3>2
  <2>5. \A i, j \in 1..Len(lane') : lane'[i] = lane'[j] => i = j
    BY <2>1 DEF LaneOrdered
  <2>6. \A i \in 1..Len(lane') : stage'[lane'[i]] = "queued"
    BY <2>1, <2>2, <2>3 DEF LaneOrdered
  <2> QED BY <2>1, <2>4, <2>5, <2>6 DEF LaneOrdered
<1>5. ASSUME NEW t \in Tasks, Advances(t)
      PROVE  LaneOrdered' /\ lane' \in Seq(Tasks)
  <2>1. /\ t = lane[1] /\ Len(lane) \in Nat \ {0} /\ lane' = lane
    BY <1>5, MoveUp DEF Advances
  <2>2. PICK s \in Started : \A q \in Tasks : stage'[q] = IF q = t THEN s ELSE stage[q]
    BY <1>5 DEF Advances, Goto
  <2>3. \A i \in 1..Len(lane) : i # 1 => lane[i] # t /\ lane[i] \in Tasks
    BY <2>1 DEF LaneOrdered
  <2>4. \A i \in 1..Len(lane') : i # 1 => stage'[lane'[i]] = "queued"
    BY <2>1, <2>2, <2>3 DEF LaneOrdered
  <2>5. \A q \in Tasks : stage'[q] \notin {"idle", "done"}
                           <=> \E i \in 1..Len(lane') : lane'[i] = q
    BY <2>1, <2>2 DEF LaneOrdered, Started
  <2> QED BY <2>1, <2>4, <2>5 DEF LaneOrdered
<1> QED BY <1>1, <1>2, <1>3, <1>4, <1>5, LaneFootprint

-----------------------------------------------------------------------------
(* Calls, answers and pages.                                               *)

\* A call answered before keeps its answer; otherwise it is told a.
LEMMA SettleFacts ==
  ASSUME TypeOK, NEW t \in Tasks, NEW a \in Answers, Settle(t, a)
  PROVE  /\ answer' \in [Tasks -> Answers]
         /\ \A q \in Tasks : answer'[q] = IF q = t /\ answer[t] = "none" THEN a ELSE answer[q]
  BY DEF Settle, TypeOK

LEMMA GotoFacts ==
  ASSUME TypeOK, NEW t \in Tasks, NEW s \in {"idle", "queued", "done"} \cup Started, Goto(t, s)
  PROVE  /\ stage' \in [Tasks -> {"idle", "queued", "done"} \cup Started]
         /\ \A q \in Tasks : stage'[q] = IF q = t THEN s ELSE stage[q]
  BY DEF Goto, TypeOK

LEMMA CloseFacts ==
  ASSUME TypeOK, NEW ts, Close(ts)
  PROVE  /\ page' \in [Tasks -> {"none", "open", "closed", "left"}]
         /\ \A q \in Tasks : /\ page'[q] = "open" <=> page[q] = "open" /\ q \notin ts
                             /\ page'[q] = "none" <=> page[q] = "none"
  BY DEF Close, TypeOK

\* What acquiring a page with the context open lets go.
LEMMA TakeContextKeeps ==
  ASSUME Sound, NEW t \in Tasks, stage[t] \in {"queued", "launching"}, TakeContext(t),
         chromium' = "open", answer[t] \notin NotRun, UNCHANGED <<service, lane, hung, answer, aborted>>
  PROVE  Sound'
<1> USE TasksAssumption DEF Sound, TypeOK
<1> DEFINE s == IF retained[widget[t]] = NoTask THEN "opening" ELSE "closing"
           ts == {retained[widget[t]]}
<1>1. Goto(t, s) /\ Close(ts) /\ s \in Started /\ s \in {"opening", "closing"}
  BY DEF TakeContext, Started
<1> HIDE DEF s, ts
<1>2. /\ stage' \in [Tasks -> {"idle", "queued", "done"} \cup Started]
      /\ \A q \in Tasks : stage'[q] = IF q = t THEN s ELSE stage[q]
  BY <1>1, GotoFacts
<1>3. /\ page' \in [Tasks -> {"none", "open", "closed", "left"}]
      /\ \A q \in Tasks : /\ page'[q] = "open" <=> page[q] = "open" /\ q # retained[widget[t]]
                          /\ page'[q] = "none" <=> page[q] = "none"
  BY <1>1, CloseFacts DEF ts
<1>4. /\ retained' \in [Widgets -> Tasks \cup {NoTask}]
      /\ \A w \in Widgets : retained'[w] = IF w = widget[t] THEN NoTask ELSE retained[w]
  BY DEF TakeContext
<1>5. ASSUME NEW q \in Tasks PROVE CallSound(q)'
  BY <1>1, <1>2, <1>3, <1>4 DEF CallSound, Pageless, Started
<1>6. ASSUME NEW w \in Widgets PROVE KeptSound(w)'
  BY <1>2, <1>4 DEF KeptSound
<1> QED BY <1>2, <1>3, <1>4, <1>5, <1>6

\* When the context closes, every page goes with it and nothing is kept.
LEMMA ContextClosedKeeps ==
  ASSUME Sound, ContextClosed
  PROVE  /\ chromium' = "none"
         /\ page' \in [Tasks -> {"none", "open", "closed", "left"}]
         /\ \A q \in Tasks : page'[q] # "open" /\ (page'[q] = "none" <=> page[q] = "none")
         /\ retained' \in [Widgets -> Tasks \cup {NoTask}]
         /\ \A w \in Widgets : retained'[w] = NoTask
<1>1. /\ page' \in [Tasks -> {"none", "open", "closed", "left"}]
      /\ \A q \in Tasks : page'[q] # "open" /\ (page'[q] = "none" <=> page[q] = "none")
  BY DEF Sound, TypeOK, ContextClosed
<1> QED BY <1>1 DEF ContextClosed

\* A step of one call that moves it on to s with at most an answer a, and
\* leaves context and kept pages alone.
LEMMA CallMoves ==
  ASSUME Sound, NEW t \in Tasks, NEW s \in {"queued", "done"} \cup Started, NEW a \in Answers,
         stage[t] # "done", Goto(t, s), UNCHANGED answer \/ Settle(t, a),
         page' \in [Tasks -> {"none", "open", "closed", "left"}],
         \A q \in Tasks : q # t => page'[q] = page[q],
         page'[t] = "open" => s = "handler" /\ t \notin aborted /\ chromium = "open",
         s \in Pageless => page'[t] = "none",
         s \in Started => answer[t] \notin NotRun /\ (UNCHANGED answer \/ a \notin NotRun),
         answer'[t] \in NotRun => page'[t] = "none",
         UNCHANGED <<service, chromium, hung, aborted, retained>>, lane' \in Seq(Tasks)
  PROVE  Sound'
<1> USE TasksAssumption DEF Sound, TypeOK
<1>1. /\ stage' \in [Tasks -> {"idle", "queued", "done"} \cup Started]
      /\ \A q \in Tasks : stage'[q] = IF q = t THEN s ELSE stage[q]
  BY GotoFacts
<1>2. /\ answer' \in [Tasks -> Answers]
      /\ \A q \in Tasks : q # t => answer'[q] = answer[q]
      /\ answer'[t] \in {answer[t], a}
      /\ answer' = answer \/ (answer'[t] = IF answer[t] = "none" THEN a ELSE answer[t])
  <2>1. CASE UNCHANGED answer
    BY <2>1
  <2>2. CASE Settle(t, a)
    BY <2>2, SettleFacts
  <2> QED BY <2>1, <2>2
<1>3. ASSUME NEW q \in Tasks PROVE CallSound(q)'
  <2>1. CASE q # t
    BY <1>1, <1>2, <2>1 DEF CallSound
  <2>2. CASE q = t
    BY <1>1, <1>2, <2>2 DEF CallSound, Pageless, Started
  <2> QED BY <2>1, <2>2
<1>4. ASSUME NEW w \in Widgets PROVE KeptSound(w)'
  BY <1>1 DEF KeptSound
<1> QED BY <1>1, <1>2, <1>3, <1>4

LEMMA TasksStep ==
  ASSUME TasksInv, [Next]_vars
  PROVE  TasksInv'
<1> USE TasksAssumption DEF TypeOK
<1>1. Sound /\ LaneOrdered' /\ lane' \in Seq(Tasks)
  BY LaneStep DEF TasksInv, Sound
<1>2. ASSUME NEW t \in Tasks, Invoke(t)
      PROVE  Sound'
  <2>1. stage[t] = "idle" /\ page[t] = "none" /\ answer[t] = "none"
    BY <1>1, <1>2 DEF Invoke, Sound, CallSound, Pageless
  <2>2. CASE service = "ready"
    BY <1>1, <1>2, <2>1, <2>2, CallMoves, "error" \in Answers
       DEF Invoke, Sound, Answers, Started, NotRun, Pageless
  <2>3. CASE service # "ready"
    BY <1>1, <1>2, <2>1, <2>3, CallMoves, "unavailable" \in Answers
       DEF Invoke, Sound, Answers, Started, NotRun, Pageless
  <2> QED BY <2>2, <2>3
<1>3. ASSUME NEW t \in Tasks, QueueTimeout(t)
      PROVE  Sound'
  <2>1. Settle(t, "queue_timeout") /\ "queue_timeout" \in Answers
    BY <1>3 DEF QueueTimeout, Answers
  <2>2. /\ answer' \in [Tasks -> Answers]
        /\ \A q \in Tasks : q # t => answer'[q] = answer[q]
    BY <1>1, <2>1, SettleFacts DEF Sound
  <2>3. stage[t] = "queued"
    BY <1>3 DEF QueueTimeout
  <2> QED BY <1>1, <1>3, <2>2, <2>3 DEF QueueTimeout, Sound, CallSound, KeptSound, Pageless, Started
<1>4. ASSUME NEW t \in Tasks, ExecutionTimeout(t)
      PROVE  Sound'
  <2> DEFINE ts == IF stage[t] = "handler" THEN {t} ELSE {}
  <2>1. /\ Settle(t, "execution_timeout") /\ "execution_timeout" \in Answers
        /\ Close(ts) /\ stage[t] \in Started /\ answer[t] = "none"
    BY <1>4 DEF ExecutionTimeout, Answers
  <2>2. /\ answer' \in [Tasks -> Answers]
        /\ \A q \in Tasks : answer'[q] = IF q = t THEN "execution_timeout" ELSE answer[q]
    BY <1>1, <2>1, SettleFacts DEF Sound
  <2> HIDE DEF ts
  <2>3. /\ page' \in [Tasks -> {"none", "open", "closed", "left"}]
        /\ \A q \in Tasks : /\ page'[q] = "open" <=> page[q] = "open" /\ q \notin ts
                            /\ page'[q] = "none" <=> page[q] = "none"
    BY <1>1, <2>1, CloseFacts DEF Sound
  <2>4. aborted' = aborted \cup {t} /\ UNCHANGED <<service, chromium, lane, hung, stage, retained>>
    BY <1>4 DEF ExecutionTimeout
  <2>5. ASSUME NEW q \in Tasks PROVE CallSound(q)'
    BY <1>1, <2>1, <2>2, <2>3, <2>4, <2>5 DEF ts, Sound, CallSound, Started, NotRun
  <2>6. \A w \in Widgets : KeptSound(w)'
    BY <1>1, <2>4 DEF Sound, KeptSound
  <2> QED BY <1>1, <2>2, <2>3, <2>4, <2>5, <2>6 DEF Sound
<1>5. ASSUME NEW t \in Tasks, Skip(t) \/ Refuse(t)
      PROVE  Sound'
  <2>1. stage[t] = "queued" /\ page[t] = "none"
    BY <1>1, <1>5 DEF Skip, Refuse, Sound, CallSound, Pageless
  <2>2. CASE Skip(t)
    BY <1>1, <2>1, <2>2, CallMoves, "unavailable" \in Answers
       DEF Skip, LeaveLane, Sound, Answers, Started, NotRun, Pageless
  <2>3. CASE Refuse(t)
    BY <1>1, <2>1, <2>3, CallMoves, "error" \in Answers
       DEF Refuse, LeaveLane, Sound, Answers, Started, NotRun, Pageless
  <2> QED BY <1>5, <2>2, <2>3
<1>6. ASSUME NEW t \in Tasks, Start(t)
      PROVE  Sound'
  <2>1. /\ stage[t] = "queued" /\ page[t] = "none" /\ answer[t] \notin NotRun
        /\ UNCHANGED <<service, chromium, lane, hung, answer, aborted>>
    BY <1>1, <1>6 DEF Start, MayStart, Sound, CallSound, Pageless, NotRun
  <2>2. CASE chromium = "open" /\ TakeContext(t)
    BY <1>1, <2>1, <2>2, TakeContextKeeps
  <2>3. CASE Goto(t, "launching") /\ UNCHANGED <<page, retained>>
    BY <1>1, <2>1, <2>3, CallMoves, "error" \in Answers DEF Sound, Answers, Started, NotRun, Pageless
  <2> QED BY <1>6, <2>2, <2>3 DEF Start
<1>7. ASSUME NEW t \in Tasks, Launched(t)
      PROVE  Sound'
  <2>1. answer[t] \notin NotRun
    BY <1>1, <1>7 DEF Launched, Sound, CallSound, Started
  <2> QED BY <1>1, <1>7, <2>1, TakeContextKeeps DEF Launched
<1>8. ASSUME NEW t \in Tasks, LaunchLost(t)
      PROVE  Sound'
  <2>1. /\ stage[t] = "launching" /\ page[t] = "none" /\ answer[t] \notin NotRun
        /\ Settle(t, "error") /\ Goto(t, "done") /\ "error" \in Answers
    BY <1>1, <1>8 DEF LaunchLost, LeaveLane, Sound, CallSound, Pageless, Started, Answers
  <2>2. /\ chromium' \in {"none", "open"}
        /\ page' \in [Tasks -> {"none", "open", "closed", "left"}]
        /\ \A q \in Tasks : page'[q] = "none" <=> page[q] = "none"
        /\ retained' \in [Widgets -> Tasks \cup {NoTask}]
        /\ \A w \in Widgets : retained'[w] \in {NoTask, retained[w]}
        /\ \/ \A q \in Tasks : page'[q] # "open"
           \/ chromium' = "open" /\ UNCHANGED <<page, retained>>
    <3>1. CASE ContextClosed
      BY <1>1, <3>1, ContextClosedKeeps
    <3>2. CASE chromium' = "open" /\ UNCHANGED <<page, retained>>
      BY <1>1, <3>2 DEF Sound
    <3> QED BY <1>8, <3>1, <3>2 DEF LaunchLost
  <2>3. /\ answer' \in [Tasks -> Answers]
        /\ \A q \in Tasks : answer'[q] = IF q = t /\ answer[t] = "none" THEN "error" ELSE answer[q]
    BY <1>1, <2>1, SettleFacts DEF Sound
  <2>4. /\ stage' \in [Tasks -> {"idle", "queued", "done"} \cup Started]
        /\ \A q \in Tasks : stage'[q] = IF q = t THEN "done" ELSE stage[q]
    BY <1>1, <2>1, GotoFacts DEF Sound
  <2>5. ASSUME NEW q \in Tasks PROVE CallSound(q)'
    <3>1. /\ stage'[q] \in Pageless => page'[q] = "none"
          /\ stage'[q] = "idle" => answer'[q] = "none"
          /\ answer'[q] \in NotRun => page'[q] = "none" /\ stage'[q] \notin Started
      BY <1>1, <2>1, <2>2, <2>3, <2>4 DEF Sound, CallSound, Pageless, Started, NotRun
    <3>2. ASSUME page'[q] = "open"
          PROVE  /\ chromium' = "open"
                 /\ \/ stage'[q] = "handler" /\ q \notin aborted'
                    \/ stage'[q] = "done" /\ retained'[widget[q]] = q
      <4>1. chromium' = "open" /\ page'[q] = page[q] /\ retained' = retained /\ q # t
        BY <2>1, <2>2, <3>2
      <4>2. stage'[q] = stage[q] /\ aborted' = aborted
        BY <1>8, <2>4, <4>1 DEF LaunchLost
      <4> QED BY <1>1, <3>2, <4>1, <4>2 DEF Sound, CallSound
    <3> QED BY <3>1, <3>2 DEF CallSound
  <2> QED BY <1>1, <1>8, <2>1, <2>2, <2>3, <2>4, <2>5 DEF LaunchLost, Sound, KeptSound
<1>9. ASSUME NEW t \in Tasks, ClosedRetained(t) \/ OpenPageFailed(t)
      PROVE  Sound'
  <2>1. stage[t] \in {"closing", "opening"} /\ page[t] = "none" /\ answer[t] \notin NotRun
    BY <1>1, <1>9 DEF ClosedRetained, OpenPageFailed, Sound, CallSound, Pageless, Started
  <2>2. CASE ClosedRetained(t) /\ t \notin aborted
    BY <1>1, <2>1, <2>2, CallMoves, "error" \in Answers
       DEF ClosedRetained, Sound, Answers, Started, NotRun, Pageless
  <2>3. CASE ClosedRetained(t) /\ t \in aborted
    BY <1>1, <2>1, <2>3, CallMoves, "error" \in Answers
       DEF ClosedRetained, LeaveLane, Sound, Answers, Started, NotRun, Pageless
  <2>4. CASE OpenPageFailed(t)
    BY <1>1, <2>1, <2>4, CallMoves, "error" \in Answers
       DEF OpenPageFailed, LeaveLane, Sound, Answers, Started, NotRun, Pageless
  <2> QED BY <1>9, <2>2, <2>3, <2>4
<1>10. ASSUME NEW t \in Tasks, OpenPage(t)
       PROVE  Sound'
  <2>1. stage[t] = "opening" /\ page[t] = "none" /\ answer[t] \notin NotRun /\ chromium = "open"
    BY <1>1, <1>10 DEF OpenPage, Sound, CallSound, Pageless, Started
  <2>2. CASE t \notin aborted
    <3>1. page' = [page EXCEPT ![t] = "open"] /\ Goto(t, "handler") /\ UNCHANGED answer
      BY <1>10, <2>2 DEF OpenPage
    <3>2. /\ page' \in [Tasks -> {"none", "open", "closed", "left"}]
          /\ \A q \in Tasks : q # t => page'[q] = page[q]
      BY <1>1, <3>1 DEF Sound
    <3>3. UNCHANGED <<service, chromium, hung, aborted, retained>>
      BY <1>10 DEF OpenPage
    <3> QED BY <1>1, <2>1, <2>2, <3>1, <3>2, <3>3, CallMoves, "error" \in Answers
            DEF Sound, Answers, Started, NotRun, Pageless
  <2>3. CASE t \in aborted
    <3>1. /\ \E closed \in {"closed", "left"} : page' = [page EXCEPT ![t] = closed]
          /\ Goto(t, "done") /\ Settle(t, "error")
      BY <1>10, <2>3 DEF OpenPage, LeaveLane
    <3>2. /\ page' \in [Tasks -> {"none", "open", "closed", "left"}]
          /\ page'[t] \in {"closed", "left"}
          /\ \A q \in Tasks : q # t => page'[q] = page[q]
      BY <1>1, <3>1 DEF Sound
    <3>3. answer'[t] \notin NotRun /\ "error" \in Answers
      BY <1>1, <2>1, <3>1 DEF Settle, Sound, NotRun, Answers
    <3>4. UNCHANGED <<service, chromium, hung, aborted, retained>>
      BY <1>10 DEF OpenPage
    <3> QED BY <1>1, <2>1, <3>1, <3>2, <3>3, <3>4, CallMoves DEF Started, Pageless
  <2> QED BY <2>2, <2>3
<1>11. ASSUME NEW t \in Tasks, Release(t)
       PROVE  Sound'
  <2>1. stage[t] = "handler" /\ answer[t] \notin NotRun /\ Close({t})
    BY <1>1, <1>11 DEF Release, Sound, CallSound, Started
  <2>2. /\ page' \in [Tasks -> {"none", "open", "closed", "left"}] /\ page'[t] # "open"
        /\ \A q \in Tasks : q # t => page'[q] = page[q]
    BY <1>1, <2>1 DEF Close, Sound
  <2> QED BY <1>1, <1>11, <2>1, <2>2, CallMoves, "error" \in Answers
          DEF Release, Sound, Answers, Started, NotRun, Pageless
<1>12. ASSUME NEW t \in Tasks, Released(t)
       PROVE  Sound'
  <2>1. PICK a \in {"result", "error"} : Settle(t, a)
    BY <1>12 DEF Released
  <2>2. stage[t] = "releasing" /\ answer[t] \notin NotRun /\ page[t] # "open"
    BY <1>1, <1>12 DEF Released, Sound, CallSound, Started
  <2>3. a \in Answers /\ a \notin NotRun /\ answer'[t] \notin NotRun
    BY <1>1, <2>1, <2>2 DEF Settle, Answers, NotRun, Sound
  <2> QED BY <1>1, <1>12, <2>1, <2>2, <2>3, CallMoves
          DEF Released, LeaveLane, Sound, Started, Pageless
<1>13. ASSUME NEW t \in Tasks, Retain(t)
       PROVE  Sound'
  <2> DEFINE ts == {retained[widget[t]]}
  <2>1. /\ stage[t] = "handler" /\ answer[t] \notin NotRun /\ t \notin aborted
        /\ Close(ts) /\ Settle(t, "input_needed") /\ Goto(t, "done") /\ "input_needed" \in Answers
    BY <1>1, <1>13 DEF Retain, LeaveLane, Sound, CallSound, Started, Answers
  <2>2. /\ page' \in [Tasks -> {"none", "open", "closed", "left"}]
        /\ \A q \in Tasks : /\ page'[q] = "open" <=> page[q] = "open" /\ q \notin ts
                            /\ page'[q] = "none" <=> page[q] = "none"
    BY <1>1, <2>1, CloseFacts DEF Sound
  <2>3. /\ answer' \in [Tasks -> Answers]
        /\ \A q \in Tasks : answer'[q] =
             IF q = t /\ answer[t] = "none" THEN "input_needed" ELSE answer[q]
    BY <1>1, <2>1, SettleFacts DEF Sound
  <2>4. /\ stage' \in [Tasks -> {"idle", "queued", "done"} \cup Started]
        /\ \A q \in Tasks : stage'[q] = IF q = t THEN "done" ELSE stage[q]
    BY <1>1, <2>1, GotoFacts DEF Sound
  <2>5. /\ retained' \in [Widgets -> Tasks \cup {NoTask}]
        /\ \A w \in Widgets : retained'[w] = IF w = widget[t] THEN t ELSE retained[w]
    BY <1>1, <1>13 DEF Retain, Sound
  <2>6. UNCHANGED <<service, chromium, hung, aborted>>
    BY <1>13 DEF Retain
  <2>7. ASSUME NEW q \in Tasks PROVE CallSound(q)'
    BY <1>1, <2>1, <2>2, <2>3, <2>4, <2>5, <2>6 DEF Sound, CallSound, Pageless, Started, NotRun
  <2>8. \A w \in Widgets : KeptSound(w)'
    BY <1>1, <2>4, <2>5 DEF Sound, KeptSound
  <2> QED BY <1>1, <2>2, <2>3, <2>4, <2>5, <2>6, <2>7, <2>8 DEF Sound
<1>14. ASSUME NEW t \in Tasks, AbortedHandlerEnds(t)
       PROVE  Sound'
  <2>1. stage[t] = "handler" /\ answer[t] \notin NotRun /\ page[t] # "open"
    BY <1>1, <1>14 DEF AbortedHandlerEnds, Sound, CallSound, Started
  <2> QED BY <1>1, <1>14, <2>1, CallMoves, "error" \in Answers
          DEF AbortedHandlerEnds, LeaveLane, Sound, Answers, Started, Pageless
<1>15. ASSUME NEW w \in Widgets, PageGone(w)
       PROVE  Sound'
  <2>1. /\ page' = [page EXCEPT ![retained[w]] = "closed"] /\ page[retained[w]] = "open"
        /\ UNCHANGED <<service, chromium, lane, hung, stage, answer, aborted, retained>>
    BY <1>15 DEF PageGone
  <2>2. /\ page' \in [Tasks -> {"none", "open", "closed", "left"}]
        /\ \A q \in Tasks : /\ page'[q] = "open" => page[q] = "open"
                            /\ page'[q] = "none" <=> page[q] = "none"
    BY <1>1, <2>1 DEF Sound
  <2> QED BY <1>1, <2>1, <2>2 DEF Sound, CallSound, KeptSound
<1>16. ASSUME NEW w \in Widgets, RecoveryState(w)
       PROVE  Sound'
  <2>1. UNCHANGED <<service, chromium, lane, hung, stage, answer, aborted, page>>
    BY <1>16 DEF RecoveryState
  <2>2. /\ retained' \in [Widgets -> Tasks \cup {NoTask}]
        /\ \A v \in Widgets : \/ retained'[v] = retained[v]
                              \/ v = w /\ ~HasRetainedPage(w) /\ retained'[v] = NoTask
    BY <1>1, <1>16 DEF RecoveryState, Sound
  <2>3. \A q \in Tasks : page[q] = "open" /\ retained[widget[q]] = q => retained'[widget[q]] = q
    BY <1>1, <2>2 DEF HasRetainedPage, Sound
  <2> QED BY <1>1, <2>1, <2>2, <2>3 DEF Sound, CallSound, KeptSound
<1>17. ASSUME Crash \/ ShutdownExecutor
       PROVE  Sound'
  <2>1. /\ chromium' = "none"
        /\ page' \in [Tasks -> {"none", "open", "closed", "left"}]
        /\ \A q \in Tasks : page'[q] # "open" /\ (page'[q] = "none" <=> page[q] = "none")
        /\ retained' \in [Widgets -> Tasks \cup {NoTask}]
        /\ \A w \in Widgets : retained'[w] = NoTask
    BY <1>1, <1>17, ContextClosedKeeps DEF Crash, ShutdownExecutor
  <2>2. UNCHANGED <<lane, hung, stage, answer, aborted>> /\ service' \in {service, "stopped"}
    BY <1>17 DEF Crash, ShutdownExecutor
  <2> QED BY <1>1, <2>1, <2>2 DEF Sound, CallSound, KeptSound
<1>18. ASSUME MarkReady \/ Shutdown \/ UNCHANGED vars
       PROVE  Sound'
  BY <1>1, <1>18 DEF MarkReady, Shutdown, vars, Sound, CallSound, KeptSound
<1> QED
  BY <1>1, <1>2, <1>3, <1>4, <1>5, <1>6, <1>7, <1>8, <1>9, <1>10, <1>11, <1>12, <1>13, <1>14,
     <1>15, <1>16, <1>17, <1>18 DEF Next, InLane, TasksInv

-----------------------------------------------------------------------------

\* The lane keeps its order, and calls, answers and pages stay in step.
THEOREM TasksInvariant == Spec => []TasksInv
  BY TasksInitial, TasksStep, PTL DEF Spec

\* No page leaks, whenever the abort or the crash falls
\* (chromium-executor.ts:191-243): an open page is the one of the first call in
\* the lane, or it is kept for its widget.
THEOREM PagesHaveOwners == Spec => []PagesAccounted
<1>1. ASSUME TasksInv PROVE PagesAccounted
  <2>1. \A t \in Tasks : stage[t] = "handler" => t = Head(lane)
    BY <1>1, FirstInLane DEF TasksInv, Sound, Started
  <2> QED BY <1>1, <2>1 DEF TasksInv, Sound, CallSound, PagesAccounted
<1> QED BY <1>1, TasksInvariant, PTL

\* A caller told that its call did not run can rely on it (queue.ts): nothing
\* of the call is started or was shown a page.
THEOREM DenialsAreTrue == Spec => []NotRunMeansNotRun
<1>1. TasksInv => NotRunMeansNotRun
  BY DEF TasksInv, Sound, CallSound, NotRun, NotRunMeansNotRun
<1> QED BY <1>1, TasksInvariant, PTL

\* What may happen to a page that is kept for a widget, in one step.
KeptMayGo ==
  \A w \in Widgets : \A t \in Tasks :
     retained[w] = t /\ page[t] = "open" /\ page'[t] # "open" =>
        \/ chromium' = "none"
        \/ retained'[w] = t
        \/ \E q \in Tasks : widget[q] = w /\ stage[q] # stage'[q]

\* A page kept for an operator outlives the tasks of other widgets
\* (chromium-executor.ts): only the widget's own task, the end of the context
\* or somebody's hand closes it.
THEOREM KeptForTheOperator == Spec => RetainedOutlivesOthers
<1>1. ASSUME TasksInv, [Next]_vars PROVE KeptMayGo
  <2> SUFFICES ASSUME NEW w \in Widgets, NEW t \in Tasks,
                      retained[w] = t, page[t] = "open", page'[t] # "open"
               PROVE  \/ chromium' = "none"
                      \/ retained'[w] = t
                      \/ \E q \in Tasks : widget[q] = w /\ stage[q] # stage'[q]
    BY DEF KeptMayGo
  <2> USE TasksAssumption
  <2>1. Sound /\ stage[t] = "done" /\ widget[t] = w /\ TypeOK
    BY <1>1 DEF TasksInv, Sound, KeptSound
  <2>2. ASSUME NEW q \in Tasks, TakeContext(q), stage[q] \in {"queued", "launching"}
        PROVE  widget[q] = w /\ stage[q] # stage'[q]
    <3>1. retained[widget[q]] = t
      BY <2>1, <2>2 DEF TakeContext, Close, TypeOK
    <3>2. widget[q] = w
      BY <2>1, <3>1 DEF Sound, KeptSound, TypeOK
    <3> QED BY <2>1, <2>2, <3>2 DEF TakeContext, Goto, TypeOK
  <2>3. ASSUME NEW q \in Tasks, Start(q) \/ Launched(q)
        PROVE  \E r \in Tasks : widget[r] = w /\ stage[r] # stage'[r]
    <3>1. stage[q] \in {"queued", "launching"} /\ TakeContext(q)
      BY <2>3 DEF Start, MayStart, Launched
    <3> QED BY <2>2, <3>1
  <2>4. ASSUME NEW q \in Tasks, Retain(q)
        PROVE  \E r \in Tasks : widget[r] = w /\ stage[r] # stage'[r]
    <3>1. retained[widget[q]] = t /\ stage[q] = "handler"
      BY <2>1, <2>4 DEF Retain, Close, TypeOK
    <3>2. widget[q] = w
      BY <2>1, <3>1 DEF Sound, KeptSound, TypeOK
    <3>3. stage'[q] = "done"
      BY <2>1, <2>4 DEF Retain, LeaveLane, Goto, TypeOK
    <3> QED BY <3>1, <3>2, <3>3
  <2>5. ASSUME NEW q \in Tasks, OpenPage(q) \/ Release(q) \/ ExecutionTimeout(q)
        PROVE  FALSE
    \* These close the page of the call that is under way, and t's call is over.
    <3>1. stage[q] # "done"
      BY <2>5 DEF OpenPage, Release, ExecutionTimeout, Started
    <3>2. page'[t] = page[t]
      BY <2>1, <2>5, <3>1 DEF OpenPage, Release, ExecutionTimeout, Close, TypeOK
    <3> QED BY <3>2
  <2>6. ASSUME NEW q \in Tasks, \/ Invoke(q) \/ QueueTimeout(q) \/ Skip(q) \/ Refuse(q)
                                \/ ClosedRetained(q) \/ OpenPageFailed(q) \/ Released(q)
                                \/ AbortedHandlerEnds(q)
        PROVE  FALSE
    BY <2>6 DEF Invoke, QueueTimeout, Skip, Refuse, ClosedRetained, OpenPageFailed, Released,
                AbortedHandlerEnds
  <2>7. ASSUME NEW q \in Tasks, LaunchLost(q) PROVE chromium' = "none"
    BY <2>7 DEF LaunchLost, ContextClosed
  <2>8. ASSUME NEW v \in Widgets, PageGone(v) \/ RecoveryState(v) PROVE retained'[w] = t
    BY <2>8 DEF PageGone, RecoveryState
  <2>9. ASSUME Crash \/ ShutdownExecutor PROVE chromium' = "none"
    BY <2>9 DEF Crash, ShutdownExecutor, ContextClosed
  <2>10. ASSUME MarkReady \/ Shutdown \/ UNCHANGED vars PROVE FALSE
    BY <2>10 DEF MarkReady, Shutdown, vars
  <2> QED BY <1>1, <2>3, <2>4, <2>5, <2>6, <2>7, <2>8, <2>9, <2>10 DEF Next, InLane
<1> QED BY <1>1, TasksInvariant, PTL DEF Spec, RetainedOutlivesOthers, KeptMayGo
=============================================================================
