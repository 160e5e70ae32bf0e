SPECIFICATION FairSpec
CONSTANTS
    g1 = g1
    g2 = g2
    r1 = r1
    r2 = r2
    Group = {g1}
    Repo = {r1, r2}
    GroupsOf <- OneGroup
    Arm = {1, 2, 3}
    Epoch = {1, 2, 3, 4}
    Barge = {b1}
    None = None
    AlgoCap = 2
    MaxIndexed = 1
    MaxCancels = 0
    MaxSweeps = 1
    MaxBarges = 1
    MayStop = FALSE
    SlowIndex = FALSE
PROPERTY ArmedStageRuns
