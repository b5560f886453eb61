SPECIFICATION Spec
CONSTANTS
    v1 = v1
    v2 = v2
    Requests = {r1, r2}
    Veterans = {v1, v2}
    Joining = {j1}
    Newcomers = {n1, n2}
    DeviceLimit = 2
    Scenarios <- ApproveOrDeny
    FirstToken = t0
    None = None
SYMMETRY Interchangeable
INVARIANTS
    DeniedStaysOut
