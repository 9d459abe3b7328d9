\* Any instance will do: the property is about the codecs alone.
CONSTANTS
    AdjustInterval = 2
    BlockTimeSeconds = 5
    GenesisTime = 0
    Hashes = {1}
    MinBits = 58720255
    EpochBlocks = 100
    Spacings = {5}
    ForeignBits = {}
    MaxBlocks = 4
INIT Init
NEXT Next
INVARIANT EncodersMatchSpec
