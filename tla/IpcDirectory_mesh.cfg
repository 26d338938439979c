SPECIFICATION DirectoryFairSpec
CONSTANTS
    N = 3
    MaxLive = 3
    Paths = {FALSE}
    PRIMARY_TAKEOVER_MISSES = 2
    DIRECTORY_OVERWRITE_AFTER = 1
    MaxTroubles = 0
PROPERTY EventuallyMeshed
CHECK_DEADLOCK FALSE
