SPECIFICATION Spec
CONSTANTS
    NoKey = NoKey
    Satellites = {Satellite}
    Web = {w1}
    Cron = {w2}
    FirstKeys = {k1, k2}
    BackupKeys = {k4}
    RecoveryKeys = {k3}
    MaxVersion = 2
    Crashes = TRUE
SYMMETRY Symmetry
INVARIANTS
    RecoveryKeepsAccess
    CurrentMeansSameKeys
CHECK_DEADLOCK FALSE
