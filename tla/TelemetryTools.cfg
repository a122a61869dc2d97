SPECIFICATION Spec
CONSTANTS
    s1 = s1
    s2 = s2
    Nil = Nil
    Calls = {s1, s2}
    LogLimit = 2
    MaxItems = 1
    MaxBatches = 2
INVARIANTS TypeOK FeedKeepsItsClient
PROPERTIES ImplementsFeed FeedTold ToolsEnd
CHECK_DEADLOCK FALSE
