--------------------------- MODULE CronScheduler ---------------------------
(***************************************************************************)
(* server/src/widgets/cron-scheduler.ts: one scheduled job, its cursor in  *)
(* Valkey, the passes ("ticks") that run it and the in-memory flag that    *)
(* keeps two passes apart.  The job itself may do anything it likes: it    *)
(* returns, or it fails.  A process that dies between two steps forgets    *)
(* everything but the stored record.  The jobs of a registry share nothing *)
(* but the pass, so one is enough.                                         *)
(***************************************************************************)
EXTENDS Naturals, FiniteSets, Sequences

CONSTANTS
    Occurrences, \* the times the schedule names
    MaxTime,     \* bound: the clock stops here
    MaxFailures, \* MAX_FAILURES
    MaxCatchup,  \* MAX_CATCHUP_STEPS
    MaxFaults,   \* bound: lost store operations and crashes
    Id,          \* the id of the job, typeId:name
    Passes,      \* bound: passes under way or queued at once
    None         \* no record, no occurrence, no pass

ASSUME CronAssumption ==
    /\ MaxTime \in Nat /\ Occurrences \subseteq 1 .. MaxTime
    /\ MaxFailures \in Nat \ {0} /\ MaxCatchup \in Nat /\ MaxFaults \in Nat
    /\ None \notin Passes \cup Nat \cup [cursor : Nat, failures : Nat]

VARIABLES
    now,       \* options.now()
    driver,    \* what starts passes: "interval", or "tests" (with testControls)
    life,      \* "up", "stopping", "stopped" (stop() returned), "down"
    record,    \* the stored [cursor, failures], or None
    running,   \* the ids of the jobs that are in runJob
    phase,     \* phase[p]: where pass p is in runJob
    chain,     \* the interval's passes, chained through inFlight
    inFlight,  \* the pass that inFlight stands for
    seen,      \* seen[p]: the record pass p has read
    target,    \* target[p]: scheduledFor
    next,      \* next[p]: the record pass p writes back
    faults,    \* history: faults so far
    seeded,    \* history: the cursor last written on first sight
    done,      \* history: done[o]: runs for occurrence o that succeeded
    failed,    \* history: runs that failed since the cursor got where it is
    abandoned  \* history: the occurrences the log says were given up

passVars == <<phase, seen, target, next>>
timerVars == <<driver, life, chain, inFlight>>
history == <<faults, seeded, done, failed, abandoned>>
vars == <<now, driver, life, record, running, phase, chain, inFlight, seen, target, next,
          faults, seeded, done, failed, abandoned>>

NewRecord(cursor, failures) == [cursor |-> cursor, failures |-> failures]

\* Mutant: nextRun is not exclusive.
Reached_Inclusive(c, t) == {o \in Occurrences : c <= o /\ o <= t}

\* The occurrences that are due at time t when the cursor is at c: those a walk
\* of at most MaxCatchup steps from the first one reaches.
Reached(c, t) ==
    {o \in Occurrences :
        /\ c < o /\ o <= t
        /\ Cardinality({q \in Occurrences : c < q /\ q <= o}) <= MaxCatchup + 1}

\* dueOccurrence(cron, c, t) = o: the latest of them, into which the occurrences
\* missed before it collapse.
IsDue(o, c, t) == o \in Reached(c, t) /\ \A q \in Reached(c, t) : q <= o

Init ==
    /\ now = 0 /\ driver \in {"interval", "tests"} /\ life = "up"
    /\ record = None /\ running = {}
    /\ phase = [p \in Passes |-> "idle"]
    /\ chain = <<>> /\ inFlight = None
    /\ seen = [p \in Passes |-> None]
    /\ target = [p \in Passes |-> None]
    /\ next = [p \in Passes |-> None]
    /\ faults = 0 /\ seeded = None
    /\ done = [o \in Occurrences |-> 0] /\ failed = 0
    /\ abandoned = {}

-----------------------------------------------------------------------------
(* How passes start and end.                                               *)

\* The interval fires: a pass is chained after those before it.
TimerFires(p) ==
    /\ life = "up" /\ driver = "interval" /\ phase[p] = "idle"
    /\ phase' = [phase EXCEPT ![p] = "queued"]
    /\ chain' = Append(chain, p)
    /\ inFlight' = p
    /\ UNCHANGED <<now, driver, life, record, running, seen, target, next, history>>

\* POST /api/test/cron/tick calls tick() directly, whatever else is running.
TickCalled(p) ==
    /\ life = "up" /\ driver = "tests" /\ phase[p] = "idle"
    /\ phase' = [phase EXCEPT ![p] = "queued"]
    /\ UNCHANGED <<now, timerVars, record, running, seen, target, next, history>>

\* Mutant: inFlight is replaced by each tick, not chained.
MayStart_AtOnce(p) == phase[p] = "queued"

\* A direct pass starts at once, a chained one after its predecessor.
MayStart(p) ==
    /\ phase[p] = "queued"
    /\ driver = "tests" \/ (chain # <<>> /\ p = Head(chain))

\* runJob has returned, and with it the pass.
Leave(p) ==
    /\ phase' = [phase EXCEPT ![p] = "idle"]
    /\ chain' = IF driver = "tests" THEN chain ELSE Tail(chain)
    /\ seen' = [seen EXCEPT ![p] = None]
    /\ target' = [target EXCEPT ![p] = None]
    /\ next' = [next EXCEPT ![p] = None]
    /\ UNCHANGED <<driver, life, inFlight>>

\* The same, through `finally`.
LeaveFinally(p) == Leave(p) /\ running' = {}

\* running.has(id): another pass is in the job.
Skip(p) ==
    /\ MayStart(p) /\ Id \in running
    /\ Leave(p)
    /\ UNCHANGED <<now, record, running, history>>

\* Mutant: runJob does not look at `running`.
Enter_Always(p) ==
    /\ MayStart(p)
    /\ running' = {Id}
    /\ phase' = [phase EXCEPT ![p] = "reading"]
    /\ UNCHANGED <<now, timerVars, record, seen, target, next, history>>

Enter(p) ==
    /\ MayStart(p) /\ Id \notin running
    /\ running' = {Id}
    /\ phase' = [phase EXCEPT ![p] = "reading"]
    /\ UNCHANGED <<now, timerVars, record, seen, target, next, history>>

-----------------------------------------------------------------------------
(* runJob.                                                                 *)

Fault == faults < MaxFaults /\ faults' = faults + 1

\* Mutant: the early return comes before the try block.
ReadFails_Holding(p) ==
    /\ phase[p] = "reading"
    /\ Fault
    /\ Leave(p)
    /\ UNCHANGED <<now, record, running, seeded, done, failed, abandoned>>

\* readCronState answers with an error: nothing is run, nothing written.
ReadFails(p) ==
    /\ phase[p] = "reading"
    /\ Fault
    /\ LeaveFinally(p)
    /\ UNCHANGED <<now, record, seeded, done, failed, abandoned>>

\* First sight: record where the clock is, and do not fire.
Seed(p) ==
    /\ phase[p] = "reading" /\ record = None
    /\ next' = [next EXCEPT ![p] = NewRecord(now, 0)]
    /\ seeded' = now
    /\ phase' = [phase EXCEPT ![p] = "writing"]
    /\ UNCHANGED <<now, timerVars, record, running, seen, target, faults, done, failed, abandoned>>

NothingDue(p) ==
    /\ phase[p] = "reading" /\ record # None
    /\ Reached(record.cursor, now) = {}
    /\ LeaveFinally(p)
    /\ UNCHANGED <<now, record, history>>

StartRun(p) ==
    /\ phase[p] = "reading" /\ record # None
    /\ \E o \in Occurrences :
           IsDue(o, record.cursor, now) /\ target' = [target EXCEPT ![p] = o]
    /\ seen' = [seen EXCEPT ![p] = record]
    /\ phase' = [phase EXCEPT ![p] = "running"]
    /\ UNCHANGED <<now, timerVars, record, running, next, history>>

\* The run for target[p] is over, and r is what is to be stored.
RunEnds(p, r) ==
    /\ phase[p] = "running"
    /\ next' = [next EXCEPT ![p] = r]
    /\ phase' = [phase EXCEPT ![p] = "writing"]
    /\ UNCHANGED <<now, timerVars, record, running, seen, target, faults, seeded>>

JobSucceeds(p) ==
    /\ RunEnds(p, NewRecord(target[p], 0))
    /\ done' = [done EXCEPT ![target[p]] = @ + 1]
    /\ UNCHANGED <<failed, abandoned>>

\* Mutant: the cursor moves on before the job is given up.
JobFails_MovingOn(p) ==
    LET failures == seen[p].failures + 1
        giveUp == failures >= MaxFailures
    IN  /\ RunEnds(p, NewRecord(target[p], IF giveUp THEN 0 ELSE failures))
        /\ failed' = failed + 1
        /\ abandoned' = IF giveUp THEN abandoned \cup {target[p]} ELSE abandoned
        /\ UNCHANGED done

\* The failure counts against the record that was read; at MAX_FAILURES the
\* cursor moves on to the occurrence this run was for.
JobFails(p) ==
    LET failures == seen[p].failures + 1
        giveUp == failures >= MaxFailures
    IN  /\ RunEnds(p, IF giveUp THEN NewRecord(target[p], 0)
                      ELSE NewRecord(seen[p].cursor, failures))
        /\ failed' = failed + 1
        /\ abandoned' = IF giveUp THEN abandoned \cup {target[p]} ELSE abandoned
        /\ UNCHANGED done

\* writeCronState, whether or not its answer arrives.
WriteLands(p) ==
    /\ phase[p] = "writing"
    /\ record' = next[p]
    /\ failed' = IF record # None /\ next[p].cursor = record.cursor THEN failed ELSE 0
    /\ LeaveFinally(p)
    /\ UNCHANGED <<now, faults, seeded, done, abandoned>>

\* A write that fails is only logged.
WriteLost(p) ==
    /\ phase[p] = "writing"
    /\ Fault
    /\ LeaveFinally(p)
    /\ UNCHANGED <<now, record, seeded, done, failed, abandoned>>

-----------------------------------------------------------------------------
(* The process around it.                                                  *)

\* stop(): the interval is cleared and the chain awaited.
Stop ==
    /\ life = "up"
    /\ life' = "stopping"
    /\ UNCHANGED <<now, driver, record, running, passVars, chain, inFlight, history>>

StopReturns ==
    /\ life = "stopping"
    /\ \A p \in Passes : p = inFlight => phase[p] = "idle"
    /\ life' = "stopped"
    /\ UNCHANGED <<now, driver, record, running, passVars, chain, inFlight, history>>

Forget ==
    /\ running' = {} /\ chain' = <<>> /\ inFlight' = None
    /\ phase' = [p \in Passes |-> "idle"]
    /\ seen' = [p \in Passes |-> None]
    /\ target' = [p \in Passes |-> None]
    /\ next' = [p \in Passes |-> None]

\* server.close() has waited for the requests that were still open.
Exit ==
    /\ life = "stopped" /\ \A p \in Passes : phase[p] = "idle"
    /\ life' = "down"
    /\ Forget
    /\ UNCHANGED <<now, driver, record, history>>

Crash ==
    /\ life # "down"
    /\ Fault
    /\ life' = "down"
    /\ Forget
    /\ UNCHANGED <<now, driver, record, seeded, done, failed, abandoned>>

\* docker-compose.yml: restart: unless-stopped, and the next deploy.
Restart ==
    /\ life = "down"
    /\ life' = "up"
    /\ UNCHANGED <<now, driver, record, running, passVars, chain, inFlight, history>>

Advance ==
    /\ now < MaxTime
    /\ now' = now + 1
    /\ UNCHANGED <<timerVars, record, running, passVars, history>>

RunJob(p) ==
    \/ Skip(p) \/ Enter(p) \/ ReadFails(p) \/ Seed(p) \/ NothingDue(p) \/ StartRun(p)
    \/ JobSucceeds(p) \/ JobFails(p) \/ WriteLands(p) \/ WriteLost(p)

Process == Stop \/ StopReturns \/ Exit \/ Crash \/ Restart

Next ==
    \/ \E p \in Passes : TimerFires(p) \/ TickCalled(p) \/ RunJob(p)
    \/ Process \/ Advance

Spec == Init /\ [][Next]_vars

\* The interval goes on firing while the process is up, Valkey answers, and a
\* job that was started ends one way or the other.  Nobody has to call stop(),
\* and faults need not happen.
Fairness ==
    /\ WF_vars(\E p \in Passes : TimerFires(p))
    /\ WF_vars(StopReturns)
    /\ \A p \in Passes :
           /\ WF_vars(Skip(p) \/ Enter(p))
           /\ WF_vars(Seed(p) \/ NothingDue(p) \/ StartRun(p))
           /\ WF_vars(JobSucceeds(p) \/ JobFails(p))
           /\ WF_vars(WriteLands(p))

FairSpec == Spec /\ Fairness

-----------------------------------------------------------------------------

Records == [cursor : Nat, failures : Nat] \cup {None}

ProcessTypeOK ==
    /\ now \in Nat /\ driver \in {"interval", "tests"}
    /\ life \in {"up", "stopping", "stopped", "down"}
    /\ chain \in Seq(Passes) /\ inFlight \in Passes \cup {None}
    /\ running \subseteq {Id}

PassTypeOK ==
    /\ record \in Records
    /\ phase \in [Passes -> {"idle", "queued", "reading", "running", "writing"}]
    /\ seen \in [Passes -> Records] /\ next \in [Passes -> Records]
    /\ target \in [Passes -> Occurrences \cup {None}]

HistoryTypeOK ==
    /\ faults \in Nat /\ seeded \in Nat \cup {None}
    /\ done \in [Occurrences -> Nat] /\ failed \in Nat
    /\ abandoned \subseteq Occurrences

TypeOK == ProcessTypeOK /\ PassTypeOK /\ HistoryTypeOK

InJob == {"reading", "running", "writing"}

Earned(r) ==
    r # None =>
        \/ r.cursor = seeded
        \/ r.cursor \in abandoned
        \/ r.cursor \in Occurrences /\ done[r.cursor] > 0

\* Two passes are never in the same job, whoever started them, and the flag is
\* up exactly while one is (cron-scheduler.ts:74-75, 149-151).
OneRunAtATime ==
    /\ Id \in running <=> \E p \in Passes : phase[p] \in InJob
    /\ \A p, q \in Passes : phase[p] \in InJob /\ phase[q] \in InJob => p = q

\* The cursor never stands for an occurrence nobody dealt with: it was recorded
\* on first sight, or its run succeeded, or it was given up.
CursorIsEarned == Earned(record)

\* "catches a missed occurrence up exactly once" (widget-server.md:26-27): a
\* second successful run of an occurrence needs a fault that lost the first
\* one's record.  Nor is a job given up for failures it has made good: those in
\* the record are of runs since the cursor got where it is.
OnceButForFaults ==
    /\ \A o \in Occurrences : done[o] <= 1 + faults
    /\ record # None => record.failures <= failed

\* "stop() cannot return while an earlier tick is still running"
\* (cron-scheduler.ts:164-167).
StopLeavesNothing ==
    life = "stopped" /\ driver = "interval" => \A p \in Passes : phase[p] = "idle"

\* The cursor only moves forward, across passes, faults and restarts.
CursorForward ==
    [][record # None => record' # None /\ record'.cursor >= record.cursor]_vars

\* Once an occurrence is due it is dealt with, however often the job fails,
\* provided the process stays up from some time on.
DueIsHandled ==
    driver = "interval" /\ <>[](life = "up") =>
        \A o \in Occurrences : now >= o ~> record # None /\ record.cursor >= o

\* A chained pass that is in the job is the chain's first.
ChainServed ==
    \A p \in Passes :
        phase[p] \in InJob /\ driver = "interval" => chain # <<>> /\ Head(chain) = p

RunIsCurrent ==
    \A p \in Passes : phase[p] = "running" =>
        /\ record # None /\ seen[p] = record
        /\ target[p] \in Occurrences /\ target[p] > record.cursor

WriteIsForward ==
    \A p \in Passes : phase[p] = "writing" =>
        /\ next[p] # None /\ Earned(next[p])
        /\ record # None => next[p].cursor >= record.cursor

\* What a pass holds between two awaits is still what the store says: the
\* inductive form of OneRunAtATime and CursorIsEarned, from which CursorForward
\* follows.
CronInv ==
    /\ TypeOK
    /\ OneRunAtATime /\ CursorIsEarned
    /\ ChainServed /\ RunIsCurrent /\ WriteIsForward
=============================================================================
