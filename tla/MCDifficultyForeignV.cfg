CONSTANTS
    AdjustInterval = 2
    BlockTimeSeconds = 5
    GenesisTime = 0
    Hashes = {1}
    MinBits = 58720255
    EpochBlocks = 100
    Spacings = {5}
    ForeignBits = {58720255}
    MaxBlocks = 4
INIT Init
NEXT Next
INVARIANT RetargetEnforced
