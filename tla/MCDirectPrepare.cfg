CONSTANTS
    h1 = h1  h2 = h2  h3 = h3
    Helpers <- MCHelpers
    Right <- MCRight
    Configs = {q1}
    Calls = {c1}
    MaxDirectPrepares = 2
    TransportFaults = TRUE
    TaskFaults = TRUE
    Cancellation = TRUE
SPECIFICATION Spec
CHECK_DEADLOCK FALSE
INVARIANT CoordinatorOnlyByNewQuery
