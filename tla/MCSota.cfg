\* Two versions of two blocks, four messages the platform starts with, one failing
\* access to the flash and two resets.
SPECIFICATION SotaSpec
CONSTANTS
    Versions = {v1, v2}
    Blocks = 2
    MaxNotices = 4
    MaxBadWrites = 1
    MaxResets = 2
INVARIANT SotaTypeOK
INVARIANT InstallsVerified
INVARIANT ReportsWhatRuns
INVARIANT RefusedOnlyAfterAnother
CHECK_DEADLOCK FALSE
