CONSTANTS
    Devices = {d1, d2}
    Addresses = {a1, a2}
    NoSerial = none
    MAX_REBOOT_TRIES = 2
    Kinds <- AllKinds
    Requests <- AllRequests
SPECIFICATION FairSpec
INVARIANTS RunsOnTarget FoundAgain SentBack OkMeansExecutedOrStuck
PROPERTY Ends
CHECK_DEADLOCK FALSE
