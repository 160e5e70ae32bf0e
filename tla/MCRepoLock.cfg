SPECIFICATION FairSpec
CONSTANTS
    Key = {k1, k2}
    Fg = {f1, f2}
    Bg = {b1}
    Obj = {o1, o2, o3, o4}
    NoObj = NoObj
    MaxTime = 2
INVARIANTS TypeOK MutualExclusion IntentVisible NoLeak
PROPERTIES ForegroundWins PhaseNeverFallsBack KeepsClaim WaiterRuns
