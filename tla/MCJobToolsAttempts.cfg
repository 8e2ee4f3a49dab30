\* A comment the code does not keep.
SPECIFICATION ToolsSpec
CONSTANTS
    Keys = {k1}
    Fingerprints = {f1, f2}
    NoFingerprint = none
    Workers = 1
    MaxAttempts = 2
    WallClock = FALSE
    Limits = {}
    LossyDisk = FALSE
    MaxCrashes = 1
PROPERTIES AttemptsAreNew
