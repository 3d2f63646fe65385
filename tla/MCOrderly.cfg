CONSTANTS
    h1 = h1  h2 = h2  h3 = h3
    Helpers <- MCHelpers
    Right <- MCRight
    Configs = {q1}
    Calls = {c1}
    MaxDirectPrepares = 0
    ExternalKinds = {"Input", "Results"}
    MaxExternal = 6
    TransportFaults = FALSE
    TaskFaults = TRUE
    Cancellation = FALSE
    Orderly = TRUE
    CollectorLeaves = FALSE
SPECIFICATION FairStreamSpec
CHECK_DEADLOCK FALSE
INVARIANT PanicsOnlyOnFailedTask
PROPERTY QuerySettles
