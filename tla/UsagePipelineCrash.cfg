CONSTANTS
    Users = {u1}
    Nodes = {n1}
    Workers = {w1, w2}
    NoJob = NoJob
    Multiplier <- MCMultiplier
    One <- MCOne
    IgnoreBelow = 1
    MaxStalled = 1
    MaxBytes = 2
    MaxQueue = 1
    MaxMishaps = 2
SPECIFICATION FairSpec
INVARIANT TypeOK
INVARIANT LosslessWithoutMishap
INVARIANT UsedWithinLifetime
INVARIANT CountedAtMostOnce
INVARIANT WelcomedOnce
INVARIANT BilledPerRun
PROPERTY HashIsFlushed
PROPERTY KeepsLedger
