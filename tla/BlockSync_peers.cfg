CONSTANTS
    MCBlocks = {"G", "A1", "A2", "B1", "B2", "B3", "B4"}
    Blocks <- MCBlocks
    Genesis = "G"
    Parent <- MCParent
    Chain <- MCChain
    Height <- MCHeight
    Work <- MCWork
    Addr <- MCAddr
    Outpoints <- MCOutpoints
    Creates <- MCCreates
    Spends <- MCSpends
    Stake <- MCStake
    Peers = {"p", "q"}
    Preferred = {"p"}
    Starts = {"G", "A1", "A2"}
    FirstTip <- MCFirstTip
    NextTips <- MCNextTips
    Elsewhere = {"B2"}
    Limit = 2
    Window = 2
    InTransit = 1
    MaxReorg = 2
    MaxDepth = 1
    Recent = 3
    MaxConnections = 2
    MaxFound = 2
    None = None
SPECIFICATION FairSpec
INVARIANTS InFlightExact SyncCountExact LastCommonIsFull StallerOwes
PROPERTIES CatchesUp
CHECK_DEADLOCK FALSE
