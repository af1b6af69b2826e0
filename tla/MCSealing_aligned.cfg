CONSTANTS
    Files = {"a", "b"}
    Disks <- SingleDisks
    SealOptions <- NoOptions
    Aligns = {8, 16, 64}
    MaxCommands = 1
    MaxBlocks = 8
    FirstRead = 64
    flash_start = 64
    flash_end = 140
    xip_sram_start = 150
    xip_sram_end = 160
    sram_start = 200
    sram_striped_end = 290
    sram_end = 300
SPECIFICATION FairSpec
CHECK_DEADLOCK FALSE
INVARIANT Linked
