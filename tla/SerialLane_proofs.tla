-------------------------- MODULE SerialLane_proofs --------------------------
(***************************************************************************)
(* The promise chains of serial-lane.ts keep their invariant and implement *)
(* the lock of KeyedMutex, for any sets of calls, keys and observers.      *)
(***************************************************************************)
EXTENDS SerialLane, TLAPS

\* Initially no promise exists and no key has a tail.
LEMMA LaneInit == Init => LaneInv
  BY DEF Init, LaneInv, TypeOK, Phases, TailCoversKey, ChainCoversAhead,
         StartedInTurn, WatchCoversOwed, Unfinished, Finished

\* Every promise reaction preserves the invariant of the lane.
LEMMA LaneStep == LaneInv /\ [Next]_vars => LaneInv'
<1> SUFFICES ASSUME LaneInv, [Next]_vars
             PROVE  LaneInv'
  OBVIOUS
<1> USE ConstantsAssumption DEF LaneInv, TypeOK, Phases, Finished
<1>1. ASSUME NEW c \in Calls, Run(c)
      PROVE  LaneInv'
  <2>1. TypeOK'
    BY <1>1 DEF Run, Unfinished
  <2>2. TailCoversKey'
    BY <1>1 DEF Run, Unfinished, TailCoversKey
  <2>3. ChainCoversAhead'
    BY <1>1 DEF Run, Unfinished, TailCoversKey, ChainCoversAhead
  <2>4. StartedInTurn'
    BY <1>1 DEF Run, Unfinished, StartedInTurn
  <2>5. WatchCoversOwed'
    BY <1>1 DEF Run, Unfinished, WatchCoversOwed
  <2> QED BY <2>1, <2>2, <2>3, <2>4, <2>5
<1>2. ASSUME NEW c \in Calls, Start(c)
      PROVE  LaneInv'
  <2>1. TypeOK'
    BY <1>2 DEF Start
  <2>2. TailCoversKey'
    BY <1>2 DEF Start, Unfinished, TailCoversKey
  <2>3. ChainCoversAhead'
    BY <1>2 DEF Start, ChainCoversAhead
  <2>4. \A d \in ahead[c] : phase[d] \in Finished
    BY <1>2 DEF Start, TailSettled, ChainCoversAhead, StartedInTurn
  <2>5. StartedInTurn'
    BY <1>2, <2>4 DEF Start, StartedInTurn
  <2>6. WatchCoversOwed'
    BY <1>2 DEF Start, WatchCoversOwed
  <2> QED BY <2>1, <2>2, <2>3, <2>5, <2>6
<1>3. ASSUME NEW c \in Calls, Finish(c)
      PROVE  LaneInv'
  <2>1. TypeOK'
    BY <1>3 DEF Finish
  <2>2. TailCoversKey'
    BY <1>3 DEF Finish, Unfinished, TailCoversKey
  <2>3. ChainCoversAhead' /\ StartedInTurn' /\ WatchCoversOwed'
    BY <1>3 DEF Finish, ChainCoversAhead, StartedInTurn, WatchCoversOwed
  <2> QED BY <2>1, <2>2, <2>3
<1>4. ASSUME NEW c \in Calls, Settle(c)
      PROVE  LaneInv'
  <2>1. TypeOK'
    BY <1>4 DEF Settle
  <2>2. TailCoversKey'
    BY <1>4 DEF Settle, Unfinished, TailCoversKey
  <2>3. ChainCoversAhead' /\ StartedInTurn' /\ WatchCoversOwed'
    BY <1>4 DEF Settle, ChainCoversAhead, StartedInTurn, WatchCoversOwed
  <2> QED BY <2>1, <2>2, <2>3
<1>5. ASSUME NEW c \in Calls, Reclaim(c)
      PROVE  LaneInv'
  <2>1. TypeOK'
    BY <1>5 DEF Reclaim
  <2>2. TailCoversKey'
    \* The reclaimed tail has settled, so nothing ahead of it is unfinished.
    BY <1>5 DEF Reclaim, Unfinished, TailCoversKey, StartedInTurn
  <2>3. ChainCoversAhead' /\ StartedInTurn' /\ WatchCoversOwed'
    BY <1>5 DEF Reclaim, ChainCoversAhead, StartedInTurn, WatchCoversOwed
  <2> QED BY <2>1, <2>2, <2>3
<1>6. ASSUME NEW w \in Observers, NEW k \in PlainLanes, WhenIdle(w, k)
      PROVE  LaneInv'
  <2>1. TypeOK' /\ ChainCoversAhead' /\ StartedInTurn'
    BY <1>6 DEF WhenIdle, lane, Unfinished, ChainCoversAhead, StartedInTurn
  <2>2. TailCoversKey'
    BY <1>6 DEF WhenIdle, lane, Unfinished, TailCoversKey
  <2>3. WatchCoversOwed'
    BY <1>6 DEF WhenIdle, lane, Unfinished, TailCoversKey, WatchCoversOwed
  <2> QED BY <2>1, <2>2, <2>3
<1>7. ASSUME NEW w \in Observers, BecomeIdle(w)
      PROVE  LaneInv'
  <2>1. TypeOK' /\ ChainCoversAhead' /\ StartedInTurn'
    BY <1>7 DEF BecomeIdle, ChainCoversAhead, StartedInTurn
  <2>2. TailCoversKey'
    BY <1>7 DEF BecomeIdle, Unfinished, TailCoversKey
  <2>3. WatchCoversOwed'
    BY <1>7 DEF BecomeIdle, TailSettled, StartedInTurn, WatchCoversOwed
  <2> QED BY <2>1, <2>2, <2>3
<1>8. CASE UNCHANGED vars
  BY <1>8 DEF vars, Unfinished, TailCoversKey, ChainCoversAhead, StartedInTurn,
              WatchCoversOwed
<1> QED BY <1>1, <1>2, <1>3, <1>4, <1>5, <1>6, <1>7, <1>8 DEF Next

\* The single tail kept per key stands for all of the key's unfinished calls.
THEOREM LaneInvariant == Spec => []LaneInv
  BY LaneInit, LaneStep, PTL DEF Spec

\* whenIdle() resolves only when every call made before it has finished.
THEOREM LaneDrained == Spec => []IdleMeansDrained
<1>1. LaneInv => IdleMeansDrained
  BY DEF LaneInv, WatchCoversOwed, IdleMeansDrained, TypeOK
<1> QED BY <1>1, LaneInvariant, PTL

-----------------------------------------------------------------------------

\* The unfinished calls of a key are the ones the lock has pending.
LEMMA PendingIsUnfinished ==
    ASSUME TypeOK
    PROVE  \A k \in Keys : Mutex!Pending(k) = Unfinished(k)
  BY DEF TypeOK, Phases, Mutex!Pending, CallerPhase, Unfinished

\* Each reaction is a step of the lock or leaves the callers' view alone.
LEMMA LaneSimulates ==
    LaneInv /\ LaneInv' /\ [Next]_vars => [Mutex!Next]_Mutex!vars
<1> SUFFICES ASSUME LaneInv, LaneInv', [Next]_vars
             PROVE  [Mutex!Next]_Mutex!vars
  OBVIOUS
<1>1. ASSUME NEW c \in Calls, Run(c)
      PROVE  Mutex!Request(c)
  <2>1. Mutex!Pending(key[c]) = Unfinished(key[c])
    BY PendingIsUnfinished DEF LaneInv, TypeOK
  <2> QED
    BY <1>1, <2>1 DEF Run, Mutex!Request, CallerPhase, LaneInv, TypeOK
<1>2. ASSUME NEW c \in Calls, Start(c)
      PROVE  Mutex!Enter(c)
  BY <1>2 DEF Start, Mutex!Enter, CallerPhase, LaneInv, TypeOK, Phases,
              Finished, StartedInTurn
<1>3. ASSUME NEW c \in Calls, Finish(c)
      PROVE  Mutex!Leave(c)
  <2>1. PICK outcome \in {"fulfilled", "rejected"} :
            phase' = [phase EXCEPT ![c] = outcome]
    BY <1>3 DEF Finish
  <2>2. CallerPhase[c] = "holding" /\ UNCHANGED <<key, ahead>>
    BY <1>3 DEF Finish, CallerPhase
  <2>3. CallerPhase' = [CallerPhase EXCEPT ![c] = "released"]
    <3>1. CASE outcome = "fulfilled"
      BY <1>3, <2>1, <3>1 DEF Finish, CallerPhase, LaneInv, TypeOK
    <3>2. CASE outcome = "rejected"
      BY <1>3, <2>1, <3>2 DEF Finish, CallerPhase, LaneInv, TypeOK
    <3> QED BY <3>1, <3>2
  <2> QED BY <2>2, <2>3 DEF Mutex!Leave
<1>4. ASSUME NEW c \in Calls, Settle(c) \/ Reclaim(c)
      PROVE  UNCHANGED Mutex!vars
  BY <1>4 DEF Settle, Reclaim, CallerPhase, LaneInv, TypeOK, Mutex!vars
<1>5. ASSUME NEW w \in Observers, NEW k \in PlainLanes, WhenIdle(w, k)
      PROVE  UNCHANGED Mutex!vars
  BY <1>5 DEF WhenIdle, lane, CallerPhase, Mutex!vars
<1>6. ASSUME NEW w \in Observers, BecomeIdle(w)
      PROVE  UNCHANGED Mutex!vars
  BY <1>6 DEF BecomeIdle, CallerPhase, Mutex!vars
<1>7. CASE UNCHANGED vars
  BY <1>7 DEF vars, CallerPhase, Mutex!vars
<1>8. CASE Next
  BY <1>1, <1>2, <1>3, <1>4, <1>5, <1>6, <1>8 DEF Next, Mutex!Next
<1> QED
  BY <1>7, <1>8

\* The promise chains implement the per-key lock.
THEOREM LaneImplementsMutex == Spec => ImplementsMutex
<1>1. Init => Mutex!Init
  BY DEF Init, Mutex!Init, CallerPhase
<1> QED
  BY <1>1, LaneSimulates, LaneInvariant, PTL DEF Spec, ImplementsMutex, Mutex!Spec
-----------------------------------------------------------------------------
(* What the lock promises, and so the chains: the lock's own invariant is    *)
(* inductive, whatever its variables stand for.                              *)

LEMMA MutexStart == Mutex!Init => Mutex!IInv
  BY DEF Mutex!Init, Mutex!IInv, Mutex!TypeOK, Mutex!Phases, Mutex!Ordered, Mutex!TurnTaken

LEMMA MutexStep == Mutex!IInv /\ [Mutex!Next]_Mutex!vars => Mutex!IInv'
<1> SUFFICES ASSUME Mutex!IInv, [Mutex!Next]_Mutex!vars
             PROVE  Mutex!IInv'
  OBVIOUS
<1> USE DEF Mutex!IInv, Mutex!TypeOK, Mutex!Phases
<1>1. ASSUME NEW c \in Calls, Mutex!Request(c)
      PROVE  Mutex!IInv'
  <2>1. Mutex!TypeOK'
    BY <1>1 DEF Mutex!Request, Mutex!Pending
  <2>2. Mutex!Ordered'
    BY <1>1 DEF Mutex!Request, Mutex!Pending, Mutex!Ordered
  <2>3. Mutex!TurnTaken'
    BY <1>1 DEF Mutex!Request, Mutex!Pending, Mutex!TurnTaken
  <2> QED BY <2>1, <2>2, <2>3
<1>2. ASSUME NEW c \in Calls, Mutex!Enter(c)
      PROVE  Mutex!IInv'
  BY <1>2 DEF Mutex!Enter, Mutex!Ordered, Mutex!TurnTaken
<1>3. ASSUME NEW c \in Calls, Mutex!Leave(c)
      PROVE  Mutex!IInv'
  BY <1>3 DEF Mutex!Leave, Mutex!Ordered, Mutex!TurnTaken
<1>4. CASE UNCHANGED Mutex!vars
  BY <1>4 DEF Mutex!vars, Mutex!Ordered, Mutex!TurnTaken
<1> QED BY <1>1, <1>2, <1>3, <1>4 DEF Mutex!Next

\* Mutual exclusion per key: no two calls of runExclusive with one key are
\* inside their task at once (serial-lane.ts:31-49), for any number of calls
\* and keys, because the chains implement the lock and the lock is exclusive.
THEOREM LaneIsExclusive == Spec => []Mutex!Exclusive
<1>1. Mutex!IInv => Mutex!Exclusive
  BY DEF Mutex!IInv, Mutex!TypeOK, Mutex!Phases, Mutex!Ordered, Mutex!TurnTaken, Mutex!Exclusive
<1>2. Mutex!Spec => []Mutex!IInv
  BY MutexStart, MutexStep, PTL DEF Mutex!Spec
<1> QED
  BY <1>1, <1>2, LaneImplementsMutex, PTL DEF ImplementsMutex
=============================================================================
