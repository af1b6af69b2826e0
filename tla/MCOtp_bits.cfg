CONSTANTS
    OTP_PAGE_COUNT = 3
    OTP_PAGE_ROWS = 16
    OTP_SPECIAL_PAGES = 1
    otp_regs <- MCRegs
    Locked <- MCLocked
    Programmed <- MCProgrammed
    Sets <- BitSets
    Gets <- NoCommands
    Files <- NoCommands
    WhiteLabels <- NoCommands
    MaxCommands = 2
    WlFields = 3
    addr_row = 11
    flags_row = 8
    WhiteLabelValid = 22
SPECIFICATION Spec
CHECK_DEADLOCK FALSE
INVARIANTS
    SetIsShown
