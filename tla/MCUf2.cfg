CONSTANTS
    Names = {"x", "y", "z"}
    Disks <- MCDisks
    ConvertOptions <- MCConvert
    CombineOptions <- MCCombine
    Offsets <- MCOffsets
    MaxCommands <- MCMaxCommands
    PageSize = 2
    SectorPages = 2
    Limit = 128
    abs_block_loc = 46
    ABSOLUTE_FAMILY_ID = 5
    rom_end = 8
    flash_start = 16
    flash_end = 48
    xip_sram_start = 64
    xip_sram_end = 72
    sram_start = 80
    sram_end = 96
    main_ram_banked_start = 100
    main_ram_banked_end = 108
SPECIFICATION FairSpec
CHECK_DEADLOCK FALSE
INVARIANTS
    WellFormed
    CutOffShows
    ReadsBack
    SectorsByNumber
    MovedToOffset
PROPERTIES
    Ends
