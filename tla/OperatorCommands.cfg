SPECIFICATION CommandsSpec
SYMMETRY Symmetry
CONSTANTS
    Tags = {t1}
    NoTag = NoTag
    Digests = {d1, d2}
    NoDigest = NoDigest
    PolicyKeys = {"k1"}
    TicksPerSecond = 2
    Requests = {r1}
    Commands = {c1, c2}
    LastStart = 0
    MaxFaults = 1
    Policies <- OverridePolicies
    Lifetimes <- ShortAndOpen
    MaxResolve = 0
    MaxClock = 2
    MaxOverrides = 2
CHECK_DEADLOCK FALSE
INVARIANTS
    CommandsTypeOK
    AdmittedForAReason
    FreezeRespected
    AnnouncedFreezeRefuses
    AnnouncedOverrideAdmits
    CommandsTruthful
    AuditTellsAll
