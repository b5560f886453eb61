----------------------------- MODULE SerialLane -----------------------------
(***************************************************************************)
(* packages/shared/async/serial-lane.ts: the promise chains behind         *)
(* runExclusive (server/src/storage/key-lock.ts), the browser queue and    *)
(* the client's appends.  A lane keeps only the TAIL promise of each key;  *)
(* a new call hangs its task on that tail and becomes the tail.  A keyed   *)
(* lane drops the tail of a key once it settled, so that its map does not  *)
(* grow; makeSerialLane keeps its single tail and offers whenIdle.         *)
(* A tail is named by the call it belongs to.  Each promise reaction is an *)
(* action of its own, so any two of them may interleave.                   *)
(***************************************************************************)
CONSTANTS
    Calls,      \* the calls of run(), each made at most once
    Keys,       \* the keys; a lane without keys (makeSerialLane) is one key
    PlainLanes, \* the keys that stand for a makeSerialLane: no reclaiming
    Observers,  \* the calls of whenIdle()
    NoCall      \* the absent tail: Promise.resolve() or no map entry

ASSUME ConstantsAssumption ==
    /\ NoCall \notin Calls
    /\ PlainLanes \subseteq Keys

VARIABLES
    key,     \* key[c]: the key call c is made with
    hung,    \* the calls whose task never settles
    phase,   \* phase[c]: how far the promises of call c have got
    prev,    \* prev[c]: the tail call c chained its task on
    tails,   \* tails[k]: the call whose tail the lane holds for key k
    watch,   \* watch[w]: whenIdle call w: "no", "pending" or "resolved"
    watched, \* watched[w]: the tail whenIdle call w hangs on
    ahead,   \* history: the unfinished calls of the key when c was made
    owed     \* history: the unfinished calls when whenIdle call w was made

lane  == <<key, hung, phase, prev, tails, ahead>>
vars == <<key, hung, phase, prev, tails, watch, watched, ahead, owed>>

Phases == {"unmade", "waiting", "running", "fulfilled", "rejected",
           "settled", "reclaimed"}

TailSettled(c) == c \in {NoCall} \cup {d \in Calls : phase[d] \in {"settled", "reclaimed"}}

Finished == {"fulfilled", "rejected", "settled", "reclaimed"}

Unfinished(k) == {c \in Calls : key[c] = k /\ phase[c] \in {"waiting", "running"}}

Init ==
    /\ key \in [Calls -> Keys]
    /\ hung \in SUBSET Calls
    /\ phase = [c \in Calls |-> "unmade"]
    /\ prev = [c \in Calls |-> NoCall]
    /\ tails = [k \in Keys |-> NoCall]
    /\ watch = [w \in Observers |-> "no"]
    /\ watched = [w \in Observers |-> NoCall]
    /\ ahead = [c \in Calls |-> {}]
    /\ owed = [w \in Observers |-> {}]

\* run(key, task): previous.then(task), and the settled result is the new tail.
Run(c) ==
    /\ phase[c] = "unmade"
    /\ phase' = [phase EXCEPT ![c] = "waiting"]
    /\ prev' = [prev EXCEPT ![c] = tails[key[c]]]
    /\ tails' = [tails EXCEPT ![key[c]] = c]
    /\ ahead' = [ahead EXCEPT ![c] = Unfinished(key[c])]
    /\ UNCHANGED <<key, hung, watch, watched, owed>>

\* The reaction on the previous tail: the task is called.
Start(c) ==
    /\ phase[c] = "waiting"
    /\ TailSettled(prev[c])
    /\ phase' = [phase EXCEPT ![c] = "running"]
    /\ UNCHANGED <<key, hung, prev, tails, watch, watched, ahead, owed>>

\* The task's promise settles, and with it the promise run() returned.
Finish(c) ==
    /\ phase[c] = "running"
    /\ c \notin hung
    /\ \E outcome \in {"fulfilled", "rejected"} :
           phase' = [phase EXCEPT ![c] = outcome]
    /\ UNCHANGED <<key, hung, prev, tails, watch, watched, ahead, owed>>

\* Mutant: the tail is result.then(() => undefined), lost when the task rejects.
Settle_OnlyFulfilled(c) ==
    /\ phase[c] = "fulfilled"
    /\ phase' = [phase EXCEPT ![c] = "settled"]
    /\ UNCHANGED <<key, hung, prev, tails, watch, watched, ahead, owed>>

\* result.then(() => undefined, () => undefined): the tail fulfils either way.
Settle(c) ==
    /\ phase[c] \in {"fulfilled", "rejected"}
    /\ phase' = [phase EXCEPT ![c] = "settled"]
    /\ UNCHANGED <<key, hung, prev, tails, watch, watched, ahead, owed>>

\* Mutant: tails.delete(key) without asking whose tail the entry is.
Reclaim_Unchecked(c) ==
    /\ phase[c] = "settled"
    /\ key[c] \notin PlainLanes
    /\ phase' = [phase EXCEPT ![c] = "reclaimed"]
    /\ tails' = [tails EXCEPT ![key[c]] = NoCall]
    /\ UNCHANGED <<key, hung, prev, watch, watched, ahead, owed>>

\* The clean-up reaction: only the entry that is still this tail is deleted.
Reclaim(c) ==
    /\ phase[c] = "settled"
    /\ key[c] \notin PlainLanes
    /\ phase' = [phase EXCEPT ![c] = "reclaimed"]
    /\ tails' = [tails EXCEPT ![key[c]] = IF @ = c THEN NoCall ELSE @]
    /\ UNCHANGED <<key, hung, prev, watch, watched, ahead, owed>>

\* whenIdle() of a plain lane hangs on the tail of that moment.
WhenIdle(w, k) ==
    /\ watch[w] = "no"
    /\ watch' = [watch EXCEPT ![w] = "pending"]
    /\ watched' = [watched EXCEPT ![w] = tails[k]]
    /\ owed' = [owed EXCEPT ![w] = Unfinished(k)]
    /\ UNCHANGED lane

BecomeIdle(w) ==
    /\ watch[w] = "pending"
    /\ TailSettled(watched[w])
    /\ watch' = [watch EXCEPT ![w] = "resolved"]
    /\ UNCHANGED <<key, hung, phase, prev, tails, watched, ahead, owed>>

Next ==
    \/ \E c \in Calls : Run(c) \/ Start(c) \/ Finish(c) \/ Settle(c) \/ Reclaim(c)
    \/ \E w \in Observers, k \in PlainLanes : WhenIdle(w, k)
    \/ \E w \in Observers : BecomeIdle(w)

Spec == Init /\ [][Next]_vars

\* Promise reactions always run, and so does a task that is not hung.
FairSpec ==
    /\ Spec
    /\ \A c \in Calls : WF_vars(Start(c) \/ Finish(c) \/ Settle(c) \/ Reclaim(c))
    /\ \A w \in Observers : WF_vars(BecomeIdle(w))

-----------------------------------------------------------------------------

TypeOK ==
    /\ key \in [Calls -> Keys]
    /\ hung \in SUBSET Calls
    /\ phase \in [Calls -> Phases]
    /\ prev \in [Calls -> Calls \cup {NoCall}]
    /\ tails \in [Keys -> Calls \cup {NoCall}]
    /\ watch \in [Observers -> {"no", "pending", "resolved"}]
    /\ watched \in [Observers -> Calls \cup {NoCall}]
    /\ ahead \in [Calls -> SUBSET Calls]
    /\ owed \in [Observers -> SUBSET Calls]

\* The tail of a key covers the key: whoever is unfinished is the tail's own
\* call or a call the tail waits for, and the map keeps no reclaimed tail.
TailCoversKey ==
    \A k \in Keys :
        /\ tails[k] # NoCall => key[tails[k]] = k /\ phase[tails[k]] \notin {"unmade", "reclaimed"}
        /\ \A d \in Unfinished(k) :
               /\ tails[k] # NoCall
               /\ d = tails[k] \/ d \in ahead[tails[k]]

\* A waiting call is chained, directly or through the calls before it, on
\* every call of its key that was unfinished when it was made.
ChainCoversAhead ==
    \A c \in Calls : phase[c] = "waiting" =>
        /\ prev[c] # NoCall => phase[prev[c]] # "unmade"
        /\ \A d \in ahead[c] :
              \/ phase[d] \in Finished
              \/ prev[c] # NoCall /\ (d = prev[c] \/ d \in ahead[prev[c]])

\* Once a task was called, everything ahead of it had finished.
StartedInTurn ==
    \A c \in Calls : phase[c] \notin {"unmade", "waiting"} =>
        \A d \in ahead[c] : phase[d] \in Finished

\* The tail a whenIdle call hangs on covers all it has to wait for.
WatchCoversOwed ==
    \A w \in Observers :
        /\ watched[w] # NoCall => phase[watched[w]] # "unmade"
        /\ \A d \in owed[w] :
              \/ phase[d] \in Finished
              \/ /\ watch[w] = "pending"
                 /\ watched[w] # NoCall
                 /\ d = watched[w] \/ d \in ahead[watched[w]]

\* The inductive invariant of a lane, the type invariant included: the single
\* tail stored per key stands for all of the key's unfinished calls
\* (serial-lane.ts keeps no queue, only that tail).
LaneInv ==
    TypeOK /\ TailCoversKey /\ ChainCoversAhead /\ StartedInTurn /\ WatchCoversOwed

\* How far a caller of runExclusive sees its call.
CallerPhase ==
    [c \in Calls |->
        IF phase[c] = "unmade" THEN "idle"
        ELSE IF phase[c] = "waiting" THEN "waiting"
        ELSE IF phase[c] = "running" THEN "holding"
        ELSE "released"]

Mutex == INSTANCE KeyedMutex WITH phase <- CallerPhase

\* The promise chains implement the lock: calls of one key run one at a time
\* and in the order they were made, whether the tasks fulfil or reject and
\* although the map forgets a key whose tail has settled (serial-lane.ts:31-49).
ImplementsMutex == Mutex!Spec

\* whenIdle() resolves only after every call made before it has finished
\* (serial-lane.ts:18-23, which the browser service's shutdown waits for).
IdleMeansDrained ==
    \A w \in Observers : watch[w] = "resolved" =>
        \A d \in owed[w] : phase[d] \in Finished

\* "Different keys are independent" and a rejected task does not block the
\* next: a call settles unless a task of its own key never does (key-lock.ts:3).
EveryCallFinishes ==
    \A c \in Calls :
        phase[c] = "waiting" /\ (\A d \in hung : key[d] # key[c])
            ~> phase[c] \in Finished
=============================================================================
