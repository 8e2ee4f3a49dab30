\* One key, resubmitted: attempts overlap while the older one still persists.
SPECIFICATION Spec
CONSTANTS
    Keys = {k1}
    Fingerprints = {f1}
    NoFingerprint = none
    Workers = 1
    MaxAttempts = 2
    WallClock = TRUE
    Limits = {"budget", "no_progress"}
    LossyDisk = TRUE
INVARIANTS IInv OneRunPerKey DiskTruthful
PROPERTIES DiskForward LifecycleSafety
