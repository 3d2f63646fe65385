CONSTANTS
    h1 = h1  h2 = h2  h3 = h3
    Helpers <- MCHelpers
    Right <- MCRight
    Configs = {q1, q2}
    Calls = {c1, c2}
    MaxDirectPrepares = 0
    TransportFaults = TRUE
    TaskFaults = TRUE
    Cancellation = TRUE
SPECIFICATION Spec
SYMMETRY MCSymmetry
INVARIANT TypeOK
INVARIANT HandshakeComplete
INVARIANT AckMeansRegistered
INVARIANT SingleQueryPerHelper
PROPERTY ImplementsLifecycle
