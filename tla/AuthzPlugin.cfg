SPECIFICATION Spec
SYMMETRY Symmetry
CONSTANTS
    None = None
    Latest = Latest
    Tags = {Latest, t1, t2}
    Digests = {d1, d2, d3}
    Calls = {c1}
CHECK_DEADLOCK FALSE
INVARIANTS
    RunsAreAccounted
    ReasonedRefusalsRecorded
    PulledAsDecided
