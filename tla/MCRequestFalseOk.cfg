SPECIFICATION Spec
CONSTANTS
    k1 = k1
    k2 = k2
    Id = {1, 2}
    Key = {k1}
    Inline = Inline
    KeyOf <- SameKey
    Waits = {1, 2}
    MaxAttempts = 3
    MaxKills = 0
INVARIANT OkMeansSucceeded
