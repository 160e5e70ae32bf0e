SPECIFICATION FairSpec
CONSTANTS
    Repo = {r1, r2}
    Rev = {v1}
    NoRev = NoRev
    Worker = {w1}
    NoTok = NoTok
    Size = {3}
    BudgetMB = 2
    EnqCap = 1
    MaxTriggers = 2
    MaxStages = 1
    MaxRebuilds = 1
PROPERTIES TriggersRun
