CONSTANTS
    h1 = h1  h2 = h2  h3 = h3
    Helpers <- MCHelpers
    Right <- MCRight
    Variant <- MCVariant
    Coordinator = h2
    Multiplied <- MCMultiplied
    Payloads <- MCPayloads
    Steps = {mul, mac}
    MulStep = mul
    MacStep = mac
    MaxSends = 6
    MaxReceives = 6
    MaxChunks = 2
SPECIFICATION FairSpec
CHECK_DEADLOCK FALSE
INVARIANT MulTypeOK
INVARIANT ContributionsMatch
PROPERTY ImplementsQueryTask
PROPERTY WaitsOnlyBehindFailedSend
