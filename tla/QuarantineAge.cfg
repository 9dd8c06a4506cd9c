SPECIFICATION Spec
SYMMETRY Symmetry
CONSTANTS
    Tags = {t1}
    NoTag = NoTag
    Digests = {d1, d2}
    NoDigest = NoDigest
    PolicyKeys = {"k1"}
    TicksPerSecond = 2
    Requests = {r1, r2}
    Policies <- AgePolicies
    Lifetimes <- NoLifetime
    MaxResolve = 1
    MaxClock = 5
    MaxOverrides = 0
CHECK_DEADLOCK FALSE
INVARIANTS
    TypeOK
    AdmittedForAReason
    DenialJustified
    OneRowPerTuple
PROPERTIES
    FirstSeenKept
