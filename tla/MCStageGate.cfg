SPECIFICATION Spec
CONSTANTS
    g1 = g1
    g2 = g2
    r1 = r1
    r2 = r2
    Group = {g1}
    Repo = {r1}
    GroupsOf <- OneGroup
    Arm = {1, 2, 3}
    Epoch = {1, 2}
    Barge = {b1}
    None = None
    AlgoCap = 1
    MaxIndexed = 2
    MaxCancels = 1
    MaxSweeps = 0
    MaxBarges = 1
    MayStop = TRUE
    SlowIndex = TRUE
INVARIANTS TypeOK OneHeavyStage CancelledWorkStaysDead StopReachesEveryPass NothingStranded
CHECK_DEADLOCK FALSE
