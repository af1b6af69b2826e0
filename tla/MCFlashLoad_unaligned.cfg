CONSTANTS
    Sector = 2
    FlashStart = 16
    FlashEndRP2040 = 32
    FlashEndRP2350 = 40
    FlashEnd = 40
    SramStart = 48
    SramEnd = 52
    FlashSize = 8
    MinGuess = 4
    MaxGuess = 8
    Batches = 2
    ProgramLengths = {0, 3, 4}
    Inputs <- UnalignedInputs
    no_partition = no_partition
    DefaultFamilies = {"arm", "data"}
    MaxExtraFamilies = 3
    abs_block_sector = 4095
SPECIFICATION Spec
INVARIANT LoadedContents
CHECK_DEADLOCK FALSE
