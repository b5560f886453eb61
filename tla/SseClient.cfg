SPECIFICATION FairSpec
CONSTANTS
    s1 = s1
    s2 = s2
    s3 = s3
    k1 = k1
    k2 = k2
    Subscriptions = {s1, s2, s3}
    Keys = {k1, k2}
    keyOf <- KeyOf
    Conns = {c1, c2}
    MaxFailures = 1
    None = None
INVARIANTS
    SettledIsServed
PROPERTIES
    SettlesInTheEnd
