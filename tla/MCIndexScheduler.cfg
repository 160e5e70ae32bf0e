SPECIFICATION Spec
CONSTANTS
    Repo = {r1, r2}
    Rev = {v1}
    NoRev = NoRev
    Worker = {w1, w2}
    NoTok = NoTok
    Size = {1, 3}
    BudgetMB = 2
    EnqCap = 1
    MaxTriggers = 3
    MaxStages = 1
    MaxRebuilds = 1
SYMMETRY Symmetry
INVARIANTS TypeOK AdmissionExact OneTokenPerRepo
PROPERTIES KeepsPromise
