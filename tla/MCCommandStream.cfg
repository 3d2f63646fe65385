CONSTANTS
    h1 = h1  h2 = h2  h3 = h3
    Helpers <- MCHelpers
    Right <- MCRight
    Configs = {q1}
    Calls = {c1, c2}
    MaxDirectPrepares = 0
    ExternalKinds = {"Input", "StepData"}
    MaxExternal = 1
    TransportFaults = TRUE
    TaskFaults = TRUE
    Cancellation = FALSE
    Orderly = FALSE
    CollectorLeaves = TRUE
SPECIFICATION StreamSpec
SYMMETRY MCSymmetry
CHECK_DEADLOCK FALSE
INVARIANT StreamTypeOK
INVARIANT RoleAgreement
INVARIANT PendingAckHasCarrier
