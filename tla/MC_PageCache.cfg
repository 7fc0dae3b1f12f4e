CONSTANTS
    PageID = {1, 2, 3}
    Content = {x, y}
    CacheSizes = {0, 1, 2}
SPECIFICATION Spec
INVARIANTS
    CacheInv
PROPERTIES
    EvictionSparesDirty
    GrowsWithinLimit
    CleanedIsWritten
