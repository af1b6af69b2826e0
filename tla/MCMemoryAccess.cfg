CONSTANTS
    Page = 2
    Sector = 4
    Block = 2
    Chip = 8
    Window = 16
    Limit = 24
    reverse_copy_mapping <- MCMapping
    Sessions <- MCSessions
    Images <- MCImages
    ReadSizes <- MCReadSizes
    WriteSizes <- MCWriteSizes
SPECIFICATION Spec
CHECK_DEADLOCK FALSE
INVARIANTS
    ReadExact
    WriteExact
    Confined
