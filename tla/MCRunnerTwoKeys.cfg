\* Two keys with a wall-clock budget compete for one worker slot; writes succeed.
SPECIFICATION FairSpec
CONSTANTS
    Keys = {k1, k2}
    Fingerprints = {f1}
    NoFingerprint = none
    Workers = 1
    MaxAttempts = 1
    WallClock = TRUE
    Limits = {"budget", "no_progress"}
    LossyDisk = FALSE
INVARIANTS BoundedWorkers KillSwitch CancelIsNamed NoOrphanFile
PROPERTIES EveryJobEnds Lifecycle CancelEnds CloseDrains
