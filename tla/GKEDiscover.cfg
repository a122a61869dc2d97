SPECIFICATION Spec
CONSTANTS
    g1 = g1
    g2 = g2
    h1 = h1
    x = x
    incluster = incluster
    Nil = Nil
    NoName = NoName
    InCluster = incluster
    Names = {g1, g2, h1, incluster, x}
    ContextNames = {g1, h1, incluster}
    GKENames = {g1, g2}
    HubNames = {h1}
    InRegion = {g1}
    Matching = {h1}
    Explicit = x
    MaxLoads = 1
INVARIANTS TypeOK LoadedAsFound FailedKeepsLoaded EmulationIsLocal
PROPERTIES DefaultStays EntriesKept AutodetectFinds NumberKept NewReturnsToCaller
CHECK_DEADLOCK FALSE
