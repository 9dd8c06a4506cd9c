SPECIFICATION FairSpec
CONSTANTS
    Tags = {t1}
    NoTag = NoTag
    Digests = {d1}
    NoDigest = NoDigest
    PolicyKeys = {"k1", "k2"}
    TicksPerSecond = 1
    Requests = {r1, r2}
    Policies <- GatePolicies
    Lifetimes <- NoLifetime
    MaxResolve = 0
    MaxClock = 0
    MaxOverrides = 1
CHECK_DEADLOCK FALSE
INVARIANTS
    VerifiedBeforeAdmission
    AdmissionRecorded
    GateInvariant
PROPERTIES
    EveryCallEnds
    GateImplemented
