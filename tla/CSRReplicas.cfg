SPECIFICATION FairSpec
CONSTANTS
    c1 = c1
    r1 = r1
    r2 = r2
    ours = ours
    unsigned = unsigned
    binary = binary
    foreign = foreign
    NoKind = NoKind
    NoCert = NoCert
    NoObject = NoObject
    NoCall = NoCall
    CSRs = {c1}
    Replicas = {r1, r2}
    Resyncing = {r1}
    Kinds = {ours, unsigned, binary, foreign}
    Ours = {ours, unsigned, binary}
    Parses = {ours, unsigned, foreign}
    SelfSigned = {ours, binary, foreign}
    MaxRV = 3
    MaxLists = 2
    MaxQueue = 1
INVARIANTS TypeOK CertificateOfThisIncarnation
PROPERTIES ConditionsKept ImplementsLifecycle EventuallySigned
CHECK_DEADLOCK FALSE
