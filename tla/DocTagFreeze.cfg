SPECIFICATION Spec
CONSTANTS
    Tags = {t1}
    NoTag = NoTag
    Digests = {d1}
    NoDigest = NoDigest
    PolicyKeys = {"k1"}
    TicksPerSecond = 1
    Requests = {r1}
    Policies <- AllowPolicies
    Lifetimes <- NoLifetime
    MaxResolve = 0
    MaxClock = 0
    MaxOverrides = 1
CHECK_DEADLOCK FALSE
INVARIANTS
    TagFreezeBlocksEveryDigest
