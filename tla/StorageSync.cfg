SPECIFICATION Spec
CONSTANTS
    Requests = {r1, r2, r3}
    Words = {}
    Views = {v1}
    Cap = 2
    MaxFaults = 2
    None = None
INVARIANTS
    AppendsKept
    CurrentUnlessMissed
    EditsAreSaved
SYMMETRY Alike
CHECK_DEADLOCK FALSE
