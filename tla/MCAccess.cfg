SPECIFICATION MCSpec
CONSTANTS
    Nobody = Nobody
    Ids = {a, b, c}
    Names = {m, n}
    Identities = {x}
    Requests = {r1, r2}
    MaxTokens = 3
    MaxLinks = 1
    MaxServed = 3
    Sessions = {s1}
    Peers = {i1, i2}
    SudoWindow = 2
    AnonBurst = 1
    MaxAnonPeers = 1
    MaxHttpTicks = 3
    MaxRequests = 3
    MaxChanges = 2
SYMMETRY Sym
\* Nobody has to ask for anything, and the counts are bounded.
CHECK_DEADLOCK FALSE
PROPERTY RevokedStaysRevoked
PROPERTY SeriesIsAskedOnce
