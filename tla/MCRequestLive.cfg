SPECIFICATION FairSpec
CONSTANTS
    k1 = k1
    k2 = k2
    Id = {1, 2}
    Key = {k1}
    Inline = Inline
    KeyOf <- SameKey
    Waits = {1, 2}
    MaxAttempts = 2
    MaxKills = 1
INVARIANT OkMeansCompleted
PROPERTIES RequestsSettle
