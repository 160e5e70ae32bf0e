SPECIFICATION FairSpec
CONSTANTS
    Pid = {1, 2, 3}
    InitPid = 0
    None = None
    MaxServes = 2
    MaxBackoff = 1
    MaxHits = 1
    PidReuse = TRUE
    SlowDrain = TRUE
INVARIANT SupervisionExact
PROPERTIES  EngineOrEnd
