CONSTANTS
    a1 = a1
    a2 = a2
    Addr <- MCAddr
    GenesisAddr = GenesisAddr
    NoAddr = NoAddr
    ZeroHash = ZeroHash
    GenesisTime = 0
    Times = {1}
    Amounts = {2}
    Fee = 1
    InitialReward = 10
    HalvingInterval = 2
    MaxSupply = 12
    POWRewardShare = 60
    POSRewardShare = 40
    MinStakeAmount = 1
    POSMinThreshold = 2
    MaxBlockTransactions = 3
    GossipTxs <- MCNoTxs
    PeerBodies <- MCNoTxs
    MaxCommitFailures = 0
    MaxHeight = 2
    MaxMempool = 1
    MaxInflight = 1
INIT Init
NEXT Next
INVARIANTS UnstakeCovered
SYMMETRY MCSymmetry
