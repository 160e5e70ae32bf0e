SPECIFICATION FairSpec
CONSTANTS
    MaxGen = 3
    LayoutOf <- Shrinking
    MaxDeaths = 1
    Handler = {h1, h2}
    Searcher = {h1}
    MaxRec = 2
    MaxMap = 5
    None = None
    MaxEvicts = 1
INVARIANTS ReloadSeesWhatIs  NoReadAfterUnmap 
PROPERTIES ServedFresh PublishedStay
CHECK_DEADLOCK FALSE
