\* No failure is needed: one write between the first read and the registration.
SPECIFICATION Spec
CONSTANTS
    Requests = {r1, r2}
    Words = {}
    Views = {v1}
    Cap = 2
    MaxFaults = 0
    None = None
INVARIANT ReachesEveryClient
CHECK_DEADLOCK FALSE
