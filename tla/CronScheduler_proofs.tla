------------------------ MODULE CronScheduler_proofs ------------------------
(***************************************************************************)
(* One run at a time, a cursor that is earned and only moves forward: for  *)
(* any schedule, any number of passes and any number of faults.            *)
(***************************************************************************)
EXTENDS CronScheduler, TLAPS

\* The schedule names times, and no record is None.
LEMMA Constants ==
  /\ \A o \in Occurrences : o \in Nat
  /\ None \notin [cursor : Nat, failures : Nat]
  BY CronAssumption DEF CronAssumption

\* A record that is written back is a record.
LEMMA NewRecords ==
  \A c, f \in Nat :
      /\ NewRecord(c, f) \in [cursor : Nat, failures : Nat]
      /\ NewRecord(c, f).cursor = c /\ NewRecord(c, f) # None
  BY Constants DEF NewRecord

\* Initially no pass is under way and nothing is stored.
LEMMA CronInit == Init => CronInv
<1> SUFFICES ASSUME Init PROVE CronInv
  OBVIOUS
<1> USE DEF Init
<1>1. ProcessTypeOK
  BY DEF ProcessTypeOK
<1>2. PassTypeOK
  BY DEF PassTypeOK, Records
<1>3. HistoryTypeOK
  BY DEF HistoryTypeOK
<1>4. OneRunAtATime /\ CursorIsEarned /\ ChainServed /\ RunIsCurrent /\ WriteIsForward
  BY DEF OneRunAtATime, InJob, CursorIsEarned, Earned, ChainServed, RunIsCurrent,
         WriteIsForward
<1> QED BY <1>1, <1>2, <1>3, <1>4 DEF CronInv, TypeOK

\* A pass that is queued, skipped or let in changes nothing that is stored.
LEMMA StartKeepsInv ==
  ASSUME CronInv, NEW p \in Passes,
         TimerFires(p) \/ TickCalled(p) \/ Skip(p) \/ Enter(p)
  PROVE  CronInv'
<1> USE DEF CronInv, TypeOK, InJob, history
<1>1. HistoryTypeOK'
  BY DEF TimerFires, TickCalled, Skip, Enter, HistoryTypeOK
<1>2. PassTypeOK'
  BY DEF TimerFires, TickCalled, Skip, Leave, Enter, MayStart, PassTypeOK, Records
<1>3. ProcessTypeOK'
  <2>1. CASE TimerFires(p)
    BY <2>1 DEF TimerFires, ProcessTypeOK
  <2>2. CASE TickCalled(p) \/ Enter(p)
    BY <2>2 DEF TickCalled, Enter, timerVars, ProcessTypeOK
  <2>3. CASE Skip(p)
    <3>1. driver # "tests" => chain # <<>>
      BY <2>3 DEF Skip, MayStart
    <3>2. chain' \in Seq(Passes)
      BY <2>3, <3>1 DEF Skip, Leave, ProcessTypeOK
    <3> QED BY <2>3, <3>2 DEF Skip, Leave, ProcessTypeOK
  <2> QED BY <2>1, <2>2, <2>3
<1>4. OneRunAtATime'
  BY DEF TimerFires, TickCalled, Skip, Leave, Enter, MayStart, OneRunAtATime, PassTypeOK
<1>5. CursorIsEarned' /\ RunIsCurrent' /\ WriteIsForward'
  BY DEF TimerFires, TickCalled, Skip, Leave, Enter, MayStart, PassTypeOK, CursorIsEarned,
         Earned, RunIsCurrent, WriteIsForward
<1>6. ChainServed'
  <2>1. CASE TimerFires(p)
    BY <2>1 DEF TimerFires, PassTypeOK, ProcessTypeOK, ChainServed
  <2>2. CASE TickCalled(p)
    BY <2>2 DEF TickCalled, timerVars, PassTypeOK, ChainServed
  <2>3. CASE Skip(p)
    BY <2>3 DEF Skip, Leave, MayStart, PassTypeOK, ProcessTypeOK, ChainServed
  <2>4. CASE Enter(p)
    BY <2>4 DEF Enter, MayStart, timerVars, PassTypeOK, ChainServed
  <2> QED BY <2>1, <2>2, <2>3, <2>4
<1> QED BY <1>1, <1>2, <1>3, <1>4, <1>5, <1>6

\* A pass that leaves the job, having written or not, leaves no run behind.
LEMMA LeaveKeepsInv ==
  ASSUME CronInv, NEW p \in Passes,
         ReadFails(p) \/ NothingDue(p) \/ WriteLands(p) \/ WriteLost(p)
  PROVE  CronInv'
<1> USE DEF CronInv, TypeOK, InJob
<1>1. phase[p] \in InJob /\ LeaveFinally(p) /\ UNCHANGED <<now, seeded, done, abandoned>>
  BY DEF ReadFails, NothingDue, WriteLands, WriteLost, history
<1>2. record' \in Records /\ faults' \in Nat /\ failed' \in Nat
  BY DEF ReadFails, NothingDue, WriteLands, WriteLost, Fault, history, PassTypeOK,
         HistoryTypeOK
<1>3. \A q \in Passes : phase'[q] \notin InJob
  BY <1>1 DEF LeaveFinally, Leave, PassTypeOK, OneRunAtATime
<1>4. HistoryTypeOK'
  BY <1>1, <1>2 DEF HistoryTypeOK
<1>5. PassTypeOK'
  BY <1>1, <1>2 DEF LeaveFinally, Leave, PassTypeOK, Records
<1>6. ProcessTypeOK'
  BY <1>1 DEF LeaveFinally, Leave, ProcessTypeOK, ChainServed
<1>7. OneRunAtATime'
  BY <1>1, <1>3 DEF LeaveFinally, OneRunAtATime
<1>8. CursorIsEarned'
  BY <1>1 DEF ReadFails, NothingDue, WriteLands, WriteLost, CursorIsEarned, Earned,
              WriteIsForward
<1>9. ChainServed' /\ RunIsCurrent' /\ WriteIsForward'
  BY <1>3 DEF ChainServed, RunIsCurrent, WriteIsForward
<1> QED BY <1>4, <1>5, <1>6, <1>7, <1>8, <1>9

\* A pass inside the job takes an occurrence later than the cursor, and what it
\* will write is the outcome of its run.
LEMMA RunKeepsInv ==
  ASSUME CronInv, NEW p \in Passes,
         Seed(p) \/ StartRun(p) \/ JobSucceeds(p) \/ JobFails(p)
  PROVE  CronInv'
<1> USE DEF CronInv, TypeOK, InJob, RunEnds
<1>1. /\ UNCHANGED <<now, driver, life, chain, inFlight, record, running, faults>>
      /\ phase[p] \in InJob
      /\ \E label \in InJob : phase' = [phase EXCEPT ![p] = label]
  BY DEF Seed, StartRun, JobSucceeds, JobFails, timerVars, history
<1>2. ProcessTypeOK' /\ OneRunAtATime' /\ ChainServed'
  BY <1>1 DEF ProcessTypeOK, PassTypeOK, OneRunAtATime, ChainServed
<1>0. \A q \in Passes : q # p => phase'[q] \notin {"running", "writing"}
  BY <1>1 DEF OneRunAtATime, PassTypeOK
<1>3. CASE Seed(p)
  <2>1. HistoryTypeOK'
    BY <1>3 DEF Seed, HistoryTypeOK, ProcessTypeOK
  <2>2. PassTypeOK'
    BY <1>3 DEF Seed, NewRecord, PassTypeOK, ProcessTypeOK, Records
  <2>3. CursorIsEarned' /\ RunIsCurrent'
    BY <1>0, <1>3 DEF Seed, PassTypeOK, CursorIsEarned, Earned, RunIsCurrent
  <2>4. next'[p] # None /\ Earned(next[p])' /\ record' = None
    <3>1. next'[p] = NewRecord(now, 0) /\ seeded' = now /\ now \in Nat /\ record' = None
      BY <1>3 DEF Seed, PassTypeOK, ProcessTypeOK
    <3> QED BY <3>1, NewRecords DEF Earned
  <2>5. WriteIsForward'
    BY <1>0, <2>4 DEF WriteIsForward
  <2> QED BY <1>2, <2>1, <2>2, <2>3, <2>5
<1>4. CASE StartRun(p)
  <2>1. HistoryTypeOK'
    BY <1>4 DEF StartRun, history, HistoryTypeOK
  <2>2. PassTypeOK'
    BY <1>4 DEF StartRun, PassTypeOK
  <2>3. CursorIsEarned' /\ WriteIsForward'
    BY <1>4 DEF StartRun, history, PassTypeOK, CursorIsEarned, Earned, WriteIsForward
  <2>4. RunIsCurrent'
    BY <1>4 DEF StartRun, IsDue, Reached, PassTypeOK, Records, RunIsCurrent
  <2> QED BY <1>2, <2>1, <2>2, <2>3, <2>4
<1>5. CASE JobSucceeds(p) \/ JobFails(p)
  <2>1. /\ record # None /\ seen[p] = record
        /\ target[p] \in Occurrences /\ target[p] > record.cursor
    BY <1>5 DEF JobSucceeds, JobFails, RunIsCurrent
  <2>a. /\ target[p] \in Nat
        /\ record.cursor \in Nat /\ record.failures \in Nat
    BY <2>1, Constants DEF PassTypeOK, Records
  <2>b. UNCHANGED <<target, seen, seeded>>
    BY <1>5 DEF JobSucceeds, JobFails
  <2>2. HistoryTypeOK'
    <3>1. CASE JobSucceeds(p)
      BY <3>1, <2>1, <1>1 DEF JobSucceeds, HistoryTypeOK
    <3>2. CASE JobFails(p)
      BY <1>1, <3>2, <2>1 DEF JobFails, HistoryTypeOK
    <3> QED BY <1>5, <3>1, <3>2
  <2>3. PICK r \in [cursor : Nat, failures : Nat] :
            next' = [next EXCEPT ![p] = r] /\ Earned(r)' /\ r.cursor >= record.cursor
    <3>1. CASE JobSucceeds(p)
      <4>1. Earned(NewRecord(target[p], 0))'
        BY <3>1, <2>1, <2>a DEF JobSucceeds, NewRecord, Earned, HistoryTypeOK
      <4>2. target[p] >= record.cursor
        BY <2>1, <2>a
      <4> QED BY <3>1, <4>1, <4>2, <2>a, NewRecords DEF JobSucceeds
    <3>2. CASE JobFails(p)
      <4>1. CASE seen[p].failures + 1 >= MaxFailures
        <5>1. Earned(NewRecord(target[p], 0))'
          BY <3>2, <4>1, <2>1, <2>b DEF JobFails, NewRecord, Earned
        <5>2. target[p] >= record.cursor
          BY <2>1, <2>a
        <5> QED BY <3>2, <4>1, <5>1, <5>2, <2>a, NewRecords DEF JobFails
      <4>2. CASE ~(seen[p].failures + 1 >= MaxFailures)
        <5>1. Earned(NewRecord(record.cursor, record.failures + 1))'
          BY <3>2, <4>2, <2>1, <2>b DEF JobFails, NewRecord, CursorIsEarned, Earned
        <5>2. record.failures + 1 \in Nat /\ record.cursor >= record.cursor
          BY <2>a
        <5> QED BY <3>2, <4>2, <5>1, <5>2, <2>1, <2>a, NewRecords DEF JobFails
      <4> QED BY <4>1, <4>2
    <3> QED BY <1>5, <3>1, <3>2
  <2>4. r # None
    BY <2>3, Constants
  <2>5. PassTypeOK'
    BY <1>1, <2>b, <2>3 DEF PassTypeOK, Records
  <2>6. CursorIsEarned'
    BY <1>1, <1>5, <2>1 DEF JobSucceeds, JobFails, CursorIsEarned, Earned, HistoryTypeOK
  <2>8. phase'[p] = "writing"
    BY <1>5 DEF JobSucceeds, JobFails, PassTypeOK
  <2>9. RunIsCurrent' /\ WriteIsForward'
    BY <1>0, <1>1, <2>3, <2>4, <2>8 DEF RunIsCurrent, WriteIsForward, PassTypeOK
  <2> QED BY <1>2, <2>2, <2>5, <2>6, <2>9
<1> QED BY <1>3, <1>4, <1>5

\* Stopping, dying and starting again lose the passes and keep the record.
LEMMA ProcessKeepsInv ==
  ASSUME CronInv, Process \/ Advance
  PROVE  CronInv'
<1> USE DEF CronInv, TypeOK
<1>1. CASE Stop \/ StopReturns \/ Restart \/ Advance
  <2>1. /\ UNCHANGED <<driver, chain, inFlight, record, running, phase, seen, target, next>>
        /\ UNCHANGED <<faults, seeded, done, failed, abandoned>>
        /\ now' \in Nat /\ life' \in {"up", "stopping", "stopped", "down"}
    BY <1>1 DEF Stop, StopReturns, Restart, Advance, ProcessTypeOK, passVars, history, timerVars
  <2>2. HistoryTypeOK' /\ PassTypeOK' /\ ProcessTypeOK'
    BY <2>1 DEF HistoryTypeOK, PassTypeOK, ProcessTypeOK
  <2>3. OneRunAtATime' /\ CursorIsEarned' /\ ChainServed' /\ RunIsCurrent' /\ WriteIsForward'
    BY <2>1 DEF OneRunAtATime, InJob, CursorIsEarned, Earned, ChainServed, RunIsCurrent,
                WriteIsForward
  <2> QED BY <2>2, <2>3
<1>2. CASE Exit \/ Crash
  <2>1. /\ Forget /\ UNCHANGED <<now, driver, record, seeded, done, failed, abandoned>>
        /\ life' = "down" /\ faults' \in Nat
    BY <1>2 DEF Exit, Crash, Fault, history, HistoryTypeOK
  <2>2. HistoryTypeOK' /\ ProcessTypeOK'
    BY <2>1 DEF Forget, HistoryTypeOK, ProcessTypeOK
  <2>3. PassTypeOK'
    BY <2>1 DEF Forget, PassTypeOK, Records
  <2>4. OneRunAtATime' /\ CursorIsEarned' /\ ChainServed' /\ RunIsCurrent' /\ WriteIsForward'
    BY <2>1 DEF Forget, OneRunAtATime, InJob, CursorIsEarned, Earned, ChainServed,
                RunIsCurrent, WriteIsForward
  <2> QED BY <2>2, <2>3, <2>4
<1> QED BY <1>1, <1>2 DEF Process

\* CronInv is inductive.
LEMMA CronStep == CronInv /\ [Next]_vars => CronInv'
<1> SUFFICES ASSUME CronInv, [Next]_vars
             PROVE  CronInv'
  OBVIOUS
<1>1. CASE \E p \in Passes : TimerFires(p) \/ TickCalled(p) \/ RunJob(p)
  <2> PICK p \in Passes : TimerFires(p) \/ TickCalled(p) \/ RunJob(p)
    BY <1>1
  <2> QED BY StartKeepsInv, LeaveKeepsInv, RunKeepsInv DEF RunJob
<1>2. CASE Process \/ Advance
  BY <1>2, ProcessKeepsInv
<1>3. CASE UNCHANGED vars
  BY <1>3 DEF vars, CronInv, TypeOK, ProcessTypeOK, PassTypeOK, HistoryTypeOK, OneRunAtATime,
              InJob, CursorIsEarned, Earned, ChainServed, RunIsCurrent, WriteIsForward
<1> QED BY <1>1, <1>2, <1>3 DEF Next

\* The invariant of the scheduler: what a pass holds across its awaits is still
\* what Valkey holds (cron-scheduler.ts:72-152).
THEOREM CronInvariant == Spec => []CronInv
<1> QED BY CronInit, CronStep, PTL DEF Spec

\* No job is ever in two runs at once, however passes are started
\* (cron-scheduler.ts:74-75).
THEOREM JobsDoNotOverlap == Spec => []OneRunAtATime
<1>1. CronInv => OneRunAtATime
  BY DEF CronInv
<1> QED BY <1>1, CronInvariant, PTL

\* The stored cursor always stands for an occurrence that was dealt with, or
\* for the first sight (cron-scheduler.ts:83-147).
THEOREM CursorEarned == Spec => []CursorIsEarned
<1>1. CronInv => CursorIsEarned
  BY DEF CronInv
<1> QED BY <1>1, CronInvariant, PTL

\* The stored cursor never moves backward, so what it recorded is never due
\* again (cron-scheduler.ts:37-41).
THEOREM CursorNeverBack == Spec => CursorForward
<1> DEFINE Forward == record # None => record' # None /\ record'.cursor >= record.cursor
<1>1. CronInv /\ [Next]_vars => [Forward]_vars
  <2> SUFFICES ASSUME CronInv, Next
               PROVE  Forward
    BY DEF vars
  <2>1. CASE \E p \in Passes : WriteLands(p)
    BY <2>1 DEF WriteLands, CronInv, WriteIsForward
  <2>2. CASE record' = record
    <3>1. record # None => record.cursor \in Nat
      BY DEF CronInv, TypeOK, PassTypeOK, Records
    <3> QED BY <2>2, <3>1
  <2>3. (\E p \in Passes : WriteLands(p)) \/ record' = record
    BY DEF Next, RunJob, Process, TimerFires, TickCalled, Skip, Enter, ReadFails, Seed,
           NothingDue, StartRun, JobSucceeds, JobFails, RunEnds, WriteLost, Stop, StopReturns, Exit,
           Crash, Restart, Advance
  <2> QED BY <2>1, <2>2, <2>3
<1> QED BY <1>1, CronInvariant, PTL DEF Spec, CursorForward
-----------------------------------------------------------------------------
(* An occurrence is run again only after a fault, and the failures in the  *)
(* record are of runs since the cursor got where it is.                    *)

\* The record of a run that succeeded for o is about to be written.
Pending(o) == \E p \in Passes : phase[p] = "writing" /\ next[p] # None /\ next[p].cursor >= o

Open(o) == record = None \/ record.cursor < o

RunsCounted ==
  /\ \A o \in Occurrences : done[o] <= 1 + faults
  /\ \A o \in Occurrences : Open(o) /\ ~Pending(o) => done[o] <= faults

FailuresCounted ==
  /\ record # None => record.failures <= failed
  /\ \A p \in Passes : phase[p] = "writing" =>
       IF record # None /\ next[p].cursor = record.cursor THEN next[p].failures <= failed
       ELSE next[p].failures = 0

Counted == RunsCounted /\ FailuresCounted

LEMMA CountedInit == Init => Counted
  BY CronAssumption DEF Init, Counted, RunsCounted, FailuresCounted

\* Steps that neither run the job, nor write, nor are faults.
LEMMA CountedQuiet ==
  ASSUME CronInv, Counted, UNCHANGED <<record, done, failed>>,
         faults' \in Nat, faults' >= faults,
         \A q \in Passes : phase[q] = "writing" => phase'[q] = "writing" /\ next'[q] = next[q],
         \A q \in Passes : phase'[q] = "writing" /\ phase[q] # "writing" =>
            IF record # None /\ next'[q].cursor = record.cursor THEN next'[q].failures <= failed
            ELSE next'[q].failures = 0
  PROVE  Counted'
<1> USE DEF CronInv, TypeOK
<1>1. \A o \in Occurrences : done[o] \in Nat
  BY DEF HistoryTypeOK
<1>2. faults \in Nat
  BY DEF HistoryTypeOK
<1>3. \A o \in Occurrences : Pending(o) => Pending(o)'
  BY DEF Pending
<1>4. RunsCounted'
  <2>1. ASSUME NEW o \in Occurrences
        PROVE  done[o] <= 1 + faults' /\ (Open(o) /\ ~Pending(o)' => done[o] <= faults')
    BY <1>1, <1>2, <1>3, <2>1 DEF Counted, RunsCounted
  <2> QED BY <2>1 DEF RunsCounted, Open
<1>5. FailuresCounted'
  BY DEF Counted, FailuresCounted
<1> QED BY <1>4, <1>5 DEF Counted

\* A fault makes room for one more run of every occurrence.
LEMMA CountedFault ==
  ASSUME CronInv, Counted, UNCHANGED <<record, done, failed>>, faults' = faults + 1,
         \A q \in Passes : phase'[q] # "writing"
  PROVE  Counted'
<1>1. \A o \in Occurrences : done[o] \in Nat /\ faults \in Nat
  BY DEF CronInv, TypeOK, HistoryTypeOK
<1>2. RunsCounted'
  <2>1. ASSUME NEW o \in Occurrences PROVE done[o] <= 1 + faults' /\ done[o] <= faults'
    BY <1>1, <2>1 DEF Counted, RunsCounted
  <2> QED BY <2>1 DEF RunsCounted
<1>3. FailuresCounted'
  BY DEF Counted, FailuresCounted
<1> QED BY <1>2, <1>3 DEF Counted

\* While a pass is running, none is writing: the occurrence it runs is open.
LEMMA CountedRun ==
  ASSUME CronInv, Counted, NEW p \in Passes, JobSucceeds(p) \/ JobFails(p)
  PROVE  Counted'
<1> USE DEF CronInv, TypeOK
<1>1. /\ phase[p] = "running" /\ \A q \in Passes : phase[q] # "writing"
      /\ UNCHANGED <<record, faults>> /\ phase' = [phase EXCEPT ![p] = "writing"]
  BY DEF JobSucceeds, JobFails, RunEnds, OneRunAtATime, InJob
<1>2. /\ record # None /\ seen[p] = record /\ target[p] \in Occurrences
      /\ target[p] > record.cursor
  BY <1>1 DEF RunIsCurrent
<1>3. /\ target[p] \in Nat /\ record.cursor \in Nat /\ record.failures \in Nat
      /\ faults \in Nat /\ failed \in Nat
      /\ \A o \in Occurrences : done[o] \in Nat /\ o \in Nat
  BY <1>2, Constants DEF PassTypeOK, Records, HistoryTypeOK
<1>4. \A o \in Occurrences : ~Pending(o)
  BY <1>1 DEF Pending
<1>5. \A q \in Passes : phase'[q] = "writing" => q = p
  BY <1>1 DEF PassTypeOK
<1>6. CASE JobSucceeds(p)
  <2>1. /\ next'[p] = NewRecord(target[p], 0) /\ failed' = failed
        /\ done' = [done EXCEPT ![target[p]] = done[target[p]] + 1]
    BY <1>6 DEF JobSucceeds, RunEnds, PassTypeOK
  <2>2. next'[p] # None /\ next'[p].cursor = target[p] /\ next'[p].failures = 0
    BY <1>3, <2>1, NewRecords DEF NewRecord
  <2>3. done[target[p]] <= faults
    BY <1>2, <1>3, <1>4 DEF Counted, RunsCounted, Open
  <2>4. \A o \in Occurrences : done'[o] = IF o = target[p] THEN done[o] + 1 ELSE done[o]
    BY <2>1 DEF HistoryTypeOK
  <2>5. Pending(target[p])'
    <3>1. phase'[p] = "writing" /\ next'[p].cursor >= target[p]
      BY <1>1, <1>3, <2>2 DEF PassTypeOK
    <3>2. \E q \in Passes : phase'[q] = "writing" /\ next'[q] # None /\ next'[q].cursor >= target[p]
      BY <2>2, <3>1
    <3>3. target[p]' = target[p]
      BY <1>6 DEF JobSucceeds, RunEnds
    <3> QED BY <3>2, <3>3 DEF Pending
  <2>6. ASSUME NEW o \in Occurrences
        PROVE  /\ done'[o] <= 1 + faults
               /\ Open(o) /\ ~Pending(o)' => done'[o] <= faults
    <3>1. CASE o = target[p]
      <4>1. target[p]' = target[p]
        BY <1>6 DEF JobSucceeds, RunEnds
      <4>2. Pending(o)'
        BY <2>5, <3>1, <4>1 DEF Pending
      <4> QED BY <1>3, <2>3, <2>4, <3>1, <4>2
    <3>2. CASE o # target[p]
      BY <1>3, <1>4, <2>4, <3>2 DEF Counted, RunsCounted
    <3> QED BY <3>1, <3>2
  <2>7. RunsCounted'
    BY <1>1, <2>6 DEF RunsCounted, Open
  <2>8. FailuresCounted'
    BY <1>1, <1>2, <1>3, <1>5, <2>1, <2>2 DEF Counted, FailuresCounted
  <2> QED BY <2>7, <2>8 DEF Counted
<1>7. CASE JobFails(p)
  <2>1. /\ failed' = failed + 1 /\ done' = done
        /\ \/ next'[p] = NewRecord(target[p], 0)
           \/ next'[p] = NewRecord(record.cursor, record.failures + 1)
    BY <1>2, <1>7 DEF JobFails, RunEnds, PassTypeOK
  <2>2. \/ next'[p].cursor = target[p] /\ next'[p].failures = 0
        \/ next'[p].cursor = record.cursor /\ next'[p].failures = record.failures + 1
    BY <2>1 DEF NewRecord
  <2>3. record.failures <= failed
    BY <1>2 DEF Counted, FailuresCounted
  <2>4. FailuresCounted'
    BY <1>1, <1>2, <1>3, <1>5, <2>1, <2>2, <2>3 DEF FailuresCounted
  <2>5. RunsCounted'
    BY <1>1, <1>4, <2>1 DEF Counted, RunsCounted, Open
  <2> QED BY <2>4, <2>5 DEF Counted
<1> QED BY <1>6, <1>7

\* What is written settles its occurrence.
LEMMA CountedWrite ==
  ASSUME CronInv, Counted, NEW p \in Passes, WriteLands(p)
  PROVE  Counted'
<1> USE DEF CronInv, TypeOK
<1>1. /\ phase[p] = "writing" /\ record' = next[p] /\ UNCHANGED <<faults, done>>
      /\ failed' = IF record # None /\ next[p].cursor = record.cursor THEN failed ELSE 0
      /\ phase' = [phase EXCEPT ![p] = "idle"]
  BY DEF WriteLands, LeaveFinally, Leave
<1>2. \A q \in Passes : q # p => phase[q] # "writing"
  BY <1>1 DEF OneRunAtATime, InJob
<1>3. \A q \in Passes : phase'[q] # "writing"
  BY <1>1, <1>2 DEF PassTypeOK
<1>4. /\ next[p] # None /\ (record # None => next[p].cursor >= record.cursor)
      /\ next[p].cursor \in Nat /\ next[p].failures \in Nat
      /\ record # None => record.cursor \in Nat
  BY <1>1 DEF WriteIsForward, PassTypeOK, Records
<1>5. ASSUME NEW o \in Occurrences, Open(o)' PROVE Open(o) /\ ~Pending(o)
  <2>1. o \in Nat /\ next[p].cursor < o
    BY <1>1, <1>4, <1>5, Constants DEF Open
  <2> QED BY <1>2, <1>4, <2>1 DEF Open, Pending
<1>6. RunsCounted'
  BY <1>1, <1>5 DEF Counted, RunsCounted
<1>7. FailuresCounted'
  <2>1. next[p].failures <= failed'
    BY <1>1, <1>4 DEF Counted, FailuresCounted
  <2> QED BY <1>1, <1>3, <2>1 DEF FailuresCounted
<1> QED BY <1>6, <1>7 DEF Counted

LEMMA CountedStep == CronInv /\ Counted /\ [Next]_vars => Counted'
<1> SUFFICES ASSUME CronInv, Counted, [Next]_vars PROVE Counted'
  OBVIOUS
<1>1. faults \in Nat
  BY DEF CronInv, TypeOK, HistoryTypeOK
<1>2. CASE \E p \in Passes : TimerFires(p) \/ TickCalled(p) \/ Skip(p) \/ Enter(p)
                              \/ NothingDue(p) \/ StartRun(p)
  <2> PICK p \in Passes : TimerFires(p) \/ TickCalled(p) \/ Skip(p) \/ Enter(p)
                              \/ NothingDue(p) \/ StartRun(p)
    BY <1>2
  <2>1. UNCHANGED <<record, done, failed, faults>>
    BY DEF TimerFires, TickCalled, Skip, Enter, NothingDue, StartRun, history
  <2>2. /\ phase[p] # "writing"
        /\ \A q \in Passes : q # p => phase'[q] = phase[q] /\ next'[q] = next[q]
        /\ phase'[p] # "writing"
    BY DEF TimerFires, TickCalled, Skip, Enter, NothingDue, StartRun, MayStart, LeaveFinally,
           Leave, CronInv, TypeOK, PassTypeOK
  <2> QED BY <1>1, <2>1, <2>2, CountedQuiet
<1>3. ASSUME NEW p \in Passes, Seed(p) PROVE Counted'
  <2>1. /\ UNCHANGED <<record, done, failed, faults>> /\ record = None
        /\ phase[p] # "writing"
        /\ \A q \in Passes : q # p => phase'[q] = phase[q] /\ next'[q] = next[q]
        /\ next'[p].failures = 0
    BY <1>3 DEF Seed, NewRecord, CronInv, TypeOK, PassTypeOK
  <2> QED BY <1>1, <2>1, CountedQuiet
<1>4. ASSUME NEW p \in Passes, ReadFails(p) \/ WriteLost(p) PROVE Counted'
  <2>1. UNCHANGED <<record, done, failed>> /\ faults' = faults + 1
    BY <1>4 DEF ReadFails, WriteLost, Fault
  <2>2. \A q \in Passes : phase'[q] # "writing"
    BY <1>4 DEF ReadFails, WriteLost, LeaveFinally, Leave, CronInv, TypeOK, PassTypeOK,
                OneRunAtATime, InJob
  <2> QED BY <2>1, <2>2, CountedFault
<1>5. CASE Process \/ Advance
  <2>1. CASE Crash
    <3>1. UNCHANGED <<record, done, failed>> /\ faults' = faults + 1
      BY <2>1 DEF Crash, Fault
    <3>2. \A q \in Passes : phase'[q] # "writing"
      BY <2>1 DEF Crash, Forget
    <3> QED BY <3>1, <3>2, CountedFault
  <2>2. CASE Exit
    <3>1. UNCHANGED <<record, done, failed, faults>>
      BY <2>2 DEF Exit, history
    <3>2. \A q \in Passes : phase[q] = "idle" /\ phase'[q] = "idle"
      BY <2>2 DEF Exit, Forget
    <3> QED BY <1>1, <3>1, <3>2, CountedQuiet
  <2>3. CASE Stop \/ StopReturns \/ Restart \/ Advance
    <3>1. UNCHANGED <<record, done, failed, faults, phase, next>>
      BY <2>3 DEF Stop, StopReturns, Restart, Advance, history, passVars
    <3> QED BY <1>1, <3>1, CountedQuiet
  <2> QED BY <1>5, <2>1, <2>2, <2>3 DEF Process
<1>6. CASE UNCHANGED vars
  <2>1. UNCHANGED <<record, done, failed, faults, phase, next>>
    BY <1>6 DEF vars
  <2> QED BY <1>1, <2>1, CountedQuiet
<1> QED BY <1>2, <1>3, <1>4, <1>5, <1>6, CountedRun, CountedWrite DEF Next, RunJob

\* "catches a missed occurrence up exactly once": a second successful run of an
\* occurrence needs a fault that lost the first one's record, and a job is given
\* up for failures since the cursor got where it is alone.
THEOREM OnceUnlessLost == Spec => []OnceButForFaults
<1>1. Counted => OnceButForFaults
  BY DEF Counted, RunsCounted, FailuresCounted, OnceButForFaults
<1> QED BY <1>1, CountedInit, CountedStep, CronInvariant, PTL DEF Spec

-----------------------------------------------------------------------------
(* stop() and the chain of the interval's passes.                          *)

\* The chain is of the passes under way, and inFlight stands for its last.
ChainShape ==
  driver = "interval" =>
    /\ \A i \in 1..Len(chain) : phase[chain[i]] # "idle"
    /\ \A i, j \in 1..Len(chain) : chain[i] = chain[j] => i = j
    /\ \A p \in Passes : phase[p] # "idle" => \E i \in 1..Len(chain) : chain[i] = p
    /\ Len(chain) > 0 => inFlight = chain[Len(chain)]
    /\ life = "stopped" => Len(chain) = 0

LEMMA ChainInit == Init => ChainShape
  BY DEF Init, ChainShape

LEMMA ChainGrows ==
  ASSUME CronInv, ChainShape, NEW p \in Passes, TimerFires(p)
  PROVE  ChainShape'
<1> USE DEF CronInv, TypeOK
<1>1. /\ chain \in Seq(Passes) /\ phase \in [Passes -> {"idle", "queued", "reading", "running", "writing"}]
      /\ chain' = Append(chain, p) /\ phase' = [phase EXCEPT ![p] = "queued"] /\ inFlight' = p
      /\ life' # "stopped" /\ driver = "interval" /\ phase[p] = "idle"
  BY DEF TimerFires, ProcessTypeOK, PassTypeOK
<1>2. /\ Len(chain') = Len(chain) + 1 /\ chain'[Len(chain) + 1] = p /\ Len(chain) \in Nat
      /\ \A i \in 1..Len(chain) : chain'[i] = chain[i] /\ chain[i] \in Passes
  BY <1>1
<1>3. \A i \in 1..Len(chain) : chain[i] # p
  BY <1>1 DEF ChainShape
<1>4. \A i \in 1..Len(chain') : i \in 1..Len(chain) \/ i = Len(chain) + 1
  BY <1>2
<1>5. /\ \A i \in 1..Len(chain') : phase'[chain'[i]] # "idle"
      /\ \A i, j \in 1..Len(chain') : chain'[i] = chain'[j] => i = j
  BY <1>1, <1>2, <1>3, <1>4 DEF ChainShape
<1>6. \A q \in Passes : phase'[q] # "idle" => \E i \in 1..Len(chain') : chain'[i] = q
  <2>1. SUFFICES ASSUME NEW q \in Passes, phase'[q] # "idle"
                 PROVE  \E i \in 1..Len(chain') : chain'[i] = q
    OBVIOUS
  <2>2. CASE q = p
    BY <1>2, <2>2
  <2>3. CASE q # p
    <3>1. PICK i \in 1..Len(chain) : chain[i] = q
      BY <1>1, <2>1, <2>3 DEF ChainShape
    <3> QED BY <1>2, <3>1
  <2> QED BY <2>2, <2>3
<1> QED BY <1>1, <1>2, <1>5, <1>6 DEF ChainShape

\* The first of the chain leaves.
LEMMA ChainShrinks ==
  ASSUME CronInv, ChainShape, NEW p \in Passes, Leave(p), driver = "interval",
         chain # << >>, Head(chain) = p
  PROVE  ChainShape'
<1> USE DEF CronInv, TypeOK
<1>1. /\ chain \in Seq(Passes) /\ phase \in [Passes -> {"idle", "queued", "reading", "running", "writing"}]
      /\ chain' = Tail(chain) /\ phase' = [phase EXCEPT ![p] = "idle"]
      /\ UNCHANGED <<inFlight, life, driver>> /\ driver # "tests"
  BY DEF Leave, ProcessTypeOK, PassTypeOK
<1>2. /\ Len(chain) \in Nat /\ Len(chain) > 0 /\ Len(chain') = Len(chain) - 1 /\ chain[1] = p
      /\ \A i \in 1..Len(chain') : chain'[i] = chain[i + 1]
      /\ \A i \in 1..Len(chain) : chain[i] \in Passes
  BY <1>1
<1>3. \A i \in 1..Len(chain') : i + 1 \in 1..Len(chain) /\ chain[i + 1] # p /\ i # 0
  BY <1>2 DEF ChainShape
<1>4. /\ \A i \in 1..Len(chain') : phase'[chain'[i]] # "idle"
      /\ \A i, j \in 1..Len(chain') : chain'[i] = chain'[j] => i = j
  BY <1>1, <1>2, <1>3 DEF ChainShape
<1>5. \A q \in Passes : phase'[q] # "idle" => \E i \in 1..Len(chain') : chain'[i] = q
  <2>1. SUFFICES ASSUME NEW q \in Passes, phase'[q] # "idle"
                 PROVE  \E i \in 1..Len(chain') : chain'[i] = q
    OBVIOUS
  <2>2. q # p /\ phase[q] # "idle"
    BY <1>1, <2>1
  <2>3. PICK i \in 1..Len(chain) : chain[i] = q
    BY <2>2 DEF ChainShape
  <2>4. i - 1 \in 1..Len(chain') /\ (i - 1) + 1 = i
    BY <1>2, <2>2, <2>3
  <2> QED BY <1>2, <2>3, <2>4
<1>6. Len(chain') > 0 => inFlight' = chain'[Len(chain')]
  <2>1. Len(chain') > 0 => Len(chain') \in 1..Len(chain') /\ Len(chain') + 1 = Len(chain)
    BY <1>2
  <2> QED BY <1>1, <1>2, <2>1 DEF ChainShape
<1>7. life' # "stopped"
  BY <1>1, <1>2 DEF ChainShape
<1> QED BY <1>4, <1>5, <1>6, <1>7 DEF ChainShape

LEMMA ChainStep == CronInv /\ ChainShape /\ [Next]_vars => ChainShape'
<1> SUFFICES ASSUME CronInv, ChainShape, [Next]_vars, driver' = "interval" PROVE ChainShape'
  BY DEF ChainShape
<1>1. driver = "interval"
  BY DEF Next, vars, RunJob, Process, TimerFires, TickCalled, Skip, Enter, ReadFails, Seed,
         NothingDue, StartRun, JobSucceeds, JobFails, RunEnds, WriteLands, WriteLost, LeaveFinally,
         Leave, Stop, StopReturns, Exit, Crash, Restart, Advance, timerVars
<1>2. ASSUME NEW p \in Passes, Leave(p), Skip(p) \/ phase[p] \in InJob PROVE ChainShape'
  <2>1. chain # << >> /\ Head(chain) = p
    BY <1>1, <1>2 DEF Skip, MayStart, CronInv, ChainServed
  <2> QED BY <1>1, <1>2, <2>1, ChainShrinks
<1>3. ASSUME UNCHANGED <<chain, inFlight>>, life' = "stopped" => life = "stopped",
             \A q \in Passes : phase'[q] = "idle" <=> phase[q] = "idle"
      PROVE  ChainShape'
  <2>1. \A i \in 1..Len(chain) : chain[i] \in Passes
    BY DEF CronInv, TypeOK, ProcessTypeOK
  <2> QED BY <1>1, <1>3, <2>1 DEF ChainShape
<1>4. ASSUME NEW p \in Passes, RunJob(p) PROVE ChainShape'
  <2>1. CASE Skip(p) \/ ReadFails(p) \/ NothingDue(p) \/ WriteLands(p) \/ WriteLost(p)
    BY <1>2, <2>1 DEF Skip, ReadFails, NothingDue, WriteLands, WriteLost, LeaveFinally, InJob
  <2>2. CASE Enter(p) \/ Seed(p) \/ StartRun(p) \/ JobSucceeds(p) \/ JobFails(p)
    <3>1. UNCHANGED <<chain, inFlight, life>>
      BY <2>2 DEF Enter, Seed, StartRun, JobSucceeds, JobFails, RunEnds, timerVars
    <3>2. \A q \in Passes : phase'[q] = "idle" <=> phase[q] = "idle"
      BY <2>2 DEF Enter, MayStart, Seed, StartRun, JobSucceeds, JobFails, RunEnds, CronInv,
                  TypeOK, PassTypeOK
    <3> QED BY <1>3, <3>1, <3>2
  <2> QED BY <1>4, <2>1, <2>2 DEF RunJob
<1>5. CASE StopReturns
  <2>1. Len(chain) = 0
    <3>1. \A i \in 1..Len(chain) : chain[i] \in Passes
      BY DEF CronInv, TypeOK, ProcessTypeOK
    <3>2. Len(chain) \in Nat
      BY DEF CronInv, TypeOK, ProcessTypeOK
    <3> QED BY <1>1, <1>5, <3>1, <3>2 DEF StopReturns, ChainShape
  <2>2. UNCHANGED <<chain, inFlight, phase>>
    BY <1>5 DEF StopReturns, passVars
  <2> QED BY <1>1, <2>1, <2>2 DEF ChainShape
<1>6. CASE Exit \/ Crash
  <2>1. /\ chain' = << >> /\ \A q \in Passes : phase'[q] = "idle"
    BY <1>6 DEF Exit, Crash, Forget
  <2> QED BY <2>1 DEF ChainShape
<1>7. CASE Stop \/ Restart \/ Advance
  <2>1. UNCHANGED <<chain, inFlight, phase>> /\ (life' = "stopped" => life = "stopped")
    BY <1>7 DEF Stop, Restart, Advance, passVars, timerVars
  <2> QED BY <1>3, <2>1
<1>8. CASE UNCHANGED vars
  <2>1. UNCHANGED <<chain, inFlight, phase, life>>
    BY <1>8 DEF vars
  <2> QED BY <1>3, <2>1
<1>9. ASSUME NEW p \in Passes, TickCalled(p) PROVE FALSE
  BY <1>1, <1>9 DEF TickCalled
<1> QED BY <1>4, <1>5, <1>6, <1>7, <1>8, <1>9, ChainGrows DEF Next, Process

\* "stop() cannot return while an earlier tick is still running"
\* (cron-scheduler.ts:164-167): inFlight stands for the last pass of the chain,
\* and a pass leaves only after those before it.
THEOREM StopWaits == Spec => []StopLeavesNothing
<1>1. CronInv /\ ChainShape => StopLeavesNothing
  <2> SUFFICES ASSUME ChainShape, life = "stopped", driver = "interval", NEW p \in Passes
               PROVE  phase[p] = "idle"
    BY DEF StopLeavesNothing
  <2>1. Len(chain) = 0
    BY DEF ChainShape
  <2>2. 1..Len(chain) = {}
    BY <2>1
  <2> QED BY <2>2 DEF ChainShape
<1> QED BY <1>1, ChainInit, ChainStep, CronInvariant, PTL DEF Spec
=============================================================================
