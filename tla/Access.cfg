SPECIFICATION PartSpec
CONSTANTS
    w1 = w1
    Tasks = {t1, t2}
    Widgets = {w1}
    widget <- WidgetOf
    wants <- AskedFor
    Requests = {i1, i2}
    Sockets = {k1, k2}
    NoTask = NoTask
    None = None
    Registrations = {r1, r2, r3}
    Challenges = {c1, c2}
    MaxUses = 1
    FailLimit = 2
INVARIANTS
    OneTunnel
    TokenUsedOnce
    RevokedStaysOut
    CountsAreExact
CHECK_DEADLOCK FALSE
