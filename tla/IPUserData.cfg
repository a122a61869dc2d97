SPECIFICATION Spec
CONSTANTS
    p1 = p1
    p2 = p2
    ip1 = ip1
    ip2 = ip2
    NoIP = NoIP
    NoPod = NoPod
    Pods = {p1, p2}
    IPs = {ip1}
    MaxWrites = 1
    MaxLists = 1
    MaxQueue = 0
INVARIANTS UserDataFed
CHECK_DEADLOCK FALSE
