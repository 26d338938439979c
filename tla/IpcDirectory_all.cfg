SPECIFICATION DirectoryFairSpec
CONSTANTS
    N = 3
    MaxLive = 2
    Paths = {FALSE, TRUE}
    PRIMARY_TAKEOVER_MISSES = 2
    DIRECTORY_OVERWRITE_AFTER = 2
    MaxTroubles = 2
INVARIANT DirectoryTypeOK
PROPERTIES EventuallyMeshed DirectoryReturns
CHECK_DEADLOCK FALSE
