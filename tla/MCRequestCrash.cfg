SPECIFICATION Spec
CONSTANTS
    k1 = k1
    k2 = k2
    Id = {1, 2, 3, 4}
    Key = {k1, k2}
    Inline = Inline
    KeyOf <- Mixed
    Waits = {}
    MaxAttempts = 2
    MaxKills = 2
INVARIANTS TypeOK NotPendingMeansTerminal CrashLoopBounded
PROPERTIES AckedNeverReapplied BackoffHolds
