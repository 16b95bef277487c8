CONSTANTS
    Person = {u1, u2}
    Device = {d1}
    Flow = {f1, f2}
    Message = {m1, m2}
    None = None
    Endpoints = 2
    Rows = 2
    Turns = 3
    MaxDevices = 1
    MaxFailures = 3
    Mixes <- PushMixes
SPECIFICATION Spec
SYMMETRY Symmetric
CHECK_DEADLOCK FALSE
INVARIANT FailuresCounted
INVARIANT DevicesBounded
INVARIANT NextUserGetsNothing
