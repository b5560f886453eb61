\* Three occurrences, the first at once after the seed; a catch-up walk that is
\* cut short; two failures to give up; two faults of any kind.
CONSTANTS
    Occurrences = {1, 2, 3}
    MaxTime = 3
    MaxFailures = 2
    MaxCatchup = 1
    MaxFaults = 2
    Id = job
    Passes = {p1, p2}
    None = None
SPECIFICATION FairSpec
INVARIANTS OneRunAtATime CursorIsEarned OnceButForFaults StopLeavesNothing
PROPERTIES DueIsHandled
