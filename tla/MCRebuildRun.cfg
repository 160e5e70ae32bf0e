SPECIFICATION FairSpec
CONSTANTS
    r1 = r1
    r2 = r2
    r3 = r3
    g1 = g1
    g2 = g2
    a = a
    b = b
    t1a = t1a
    t1b = t1b
    t3 = t3
    None = None
    Run = {r1, r2, r3}
    Group = {g1, g2}
    Repo = {a, b}
    Task = {t1a, t1b, t3}
    Foreground = {t3}
    GroupOf <- RunGroup
    RunOf <- TaskRun
    RepoOf <- TaskRepo
    Cap = 1
    Conc = 2
    MaxDeletes = 1
INVARIANTS SlotsExact RebuildsExclusive
PROPERTIES NoOvertaking AllEnds
