\* Two-byte sections, reads of 2, 4 and 8 bytes (the magic header, the
\* magic footer, the sections and reads straddling them), the column index
\* not cached, three reads and one backend failure.
CONSTANTS
    SectionLen = 2
    ReadLens = {2, 4, 8}
    CacheFooter = TRUE
    CacheColumnIndex = FALSE
    CacheOffsetIndex = TRUE
    MetaFooterSize = 2
    MaxReads = 3
    MaxFailures = 1
SPECIFICATION Spec
INVARIANT ReadsAreTransparent
INVARIANT OnlyEnabledSectionsCached
CHECK_DEADLOCK FALSE
