\* TotalBytesRead against the bytes the backend delivered.
CONSTANTS
    SectionLen = 2
    ReadLens = {2, 4, 8}
    CacheFooter = TRUE
    CacheColumnIndex = FALSE
    CacheOffsetIndex = TRUE
    MetaFooterSize = 2
    MaxReads = 2
    MaxFailures = 1
SPECIFICATION Spec
INVARIANT TotalBytesReadAccurate
CHECK_DEADLOCK FALSE
