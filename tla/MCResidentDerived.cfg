SPECIFICATION Spec
CONSTANTS
    MaxGen = 2
    LayoutOf <- Shrinking
    MaxDeaths = 0
    Handler = {h1, h2}
    Searcher = {h1, h2}
    MaxRec = 2
    MaxMap = 5
    None = None
    MaxEvicts = 0
INVARIANT SearchOfOneGraph
CHECK_DEADLOCK FALSE
