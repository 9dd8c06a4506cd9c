SPECIFICATION Spec
SYMMETRY Symmetry

CONSTANTS
    d1 = d1
    d2 = d2
    base = base
    l1 = l1
    l2 = l2
    None = None
    Tags = {t1}
    Digests = {d1, d2}
    Blobs = {base, l1, l2}
    Contents <- TwoImages
    Calls = {c1, c2, c3}
    AllowFirstSeen = FALSE
    AllowPinned = FALSE
    Withdrawable = {}
CHECK_DEADLOCK FALSE
INVARIANTS
    DeniedLayersNotServed
