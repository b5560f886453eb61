SPECIFICATION FairSpec
CONSTANTS
    Calls = {c1, c2, c3}
    Keys = {keyed, plain}
    PlainLanes = {plain}
    Observers = {w1}
    NoCall = NoCall
PROPERTIES
    ImplementsMutex
    EveryCallFinishes
CHECK_DEADLOCK FALSE
