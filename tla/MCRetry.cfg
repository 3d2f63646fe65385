CONSTANTS
    h1 = h1  h2 = h2  h3 = h3
    Helpers <- MCHelpers
    Right <- MCRight
    Configs = {q1}
    Calls = {c1, c2}
    MaxDirectPrepares = 0
    TransportFaults = TRUE
    TaskFaults = FALSE
    Cancellation = FALSE
SPECIFICATION Spec
INVARIANT FailedQueryCanBeRetried
