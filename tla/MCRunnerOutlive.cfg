\* A comment the code does not keep.
SPECIFICATION Spec
CONSTANTS
    Keys = {k1}
    Fingerprints = {f1}
    NoFingerprint = none
    Workers = 1
    MaxAttempts = 2
    WallClock = TRUE
    Limits = {"budget", "no_progress"}
    LossyDisk = FALSE
INVARIANTS ResultsOutlive
