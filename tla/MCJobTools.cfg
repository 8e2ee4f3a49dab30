\* One job under an agent session and other sessions, with one restart.
SPECIFICATION ToolsSpec
CONSTANTS
    Keys = {k1}
    Fingerprints = {f1, f2}
    NoFingerprint = none
    Workers = 1
    MaxAttempts = 2
    WallClock = FALSE
    Limits = {}
    LossyDisk = FALSE
    MaxCrashes = 1
SYMMETRY FingerprintSymmetry
INVARIANTS StatusUnambiguous
PROPERTIES KnownStaysKnown PollForward
