SPECIFICATION TransferSpec
CONSTANTS
    t1 = t1
    d1 = d1
    d2 = d2
    Tags = {t1}
    NoTag = NoTag
    Digests = {d1, d2}
    NoDigest = NoDigest
    PolicyKeys = {"k1"}
    TicksPerSecond = 1
    Requests = {r1}
    Policies <- TransferPolicies
    Lifetimes <- NoLifetime
    MaxResolve = 0
    MaxClock = 1
    MaxOverrides = 1
    MaxExports = 1
    PeerFiles <- Peers
CHECK_DEADLOCK FALSE
INVARIANTS
    OneRowPerTuple
    AgedHereOrAtPeer
    StoredFreezeRespected
    ExportExplainsAllows
PROPERTIES
    OwnFileKeepsState
