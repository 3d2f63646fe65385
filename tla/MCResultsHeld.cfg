CONSTANTS
    h1 = h1  h2 = h2  h3 = h3
    Helpers <- MCHelpers
    Right <- MCRight
    Configs = {q1}
    Calls = {c1}
    MaxDirectPrepares = 0
    TransportFaults = FALSE
    TaskFaults = FALSE
    Cancellation = TRUE
SPECIFICATION Spec
INVARIANT ResultsHeldUntilAsked
