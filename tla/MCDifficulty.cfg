\* Interval 2 and epochs of 3 blocks: retargets at heights 2, 4, 6 and the
\* floor halving at 3 and 6; spacings below, at and far above the target
\* time; blocks from other software with the easiest and a hard target.
CONSTANTS
    AdjustInterval = 2
    BlockTimeSeconds = 5
    MinBits = 58720255
    EpochBlocks = 3
    GenesisTime = 0
    Spacings = {1, 5, 50}
    Hashes = {1}
    ForeignBits = {58720255, 50331903}
    MaxBlocks = 7
INIT Init
NEXT Next
INVARIANTS RetargetBounded BitsStableBetweenRetargets DecodersMatchSpec TargetToBitsNeverEasier
