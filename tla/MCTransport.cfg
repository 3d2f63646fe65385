CONSTANTS
    h1 = h1  h2 = h2  h3 = h3
    Helpers <- MCHelpers
    Right <- MCRight
    Variant <- MCVariant
    Steps = {s1, s2}
    Payloads = {p1}
    MaxSends = 2
    MaxReceives = 2
    MaxChunks = 1
SPECIFICATION TransportSpec
CHECK_DEADLOCK FALSE
INVARIANT TransportTypeOK
SYMMETRY MCSymmetry
