SPECIFICATION Spec
CONSTANTS
    c1 = c1
    r1 = r1
    r2 = r2
    ours = ours
    unsigned = unsigned
    binary = binary
    foreign = foreign
    NoKind = NoKind
    NoCert = NoCert
    NoObject = NoObject
    NoCall = NoCall
    CSRs = {c1}
    Replicas = {r1}
    Resyncing = {r1}
    Kinds = {ours}
    Ours = {ours}
    Parses = {ours}
    SelfSigned = {ours}
    MaxRV = 3
    MaxLists = 1
    MaxQueue = 1
INVARIANTS AlreadySigned
CHECK_DEADLOCK FALSE
