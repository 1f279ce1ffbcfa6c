CONSTANTS
    MCBlocks = {"G", "A1", "C2", "D3", "B1", "B2", "E1"}
    Genesis = "G"
    Blocks <- MCBlocks
    Parent <- MCParent
    Chain <- MCChain
    Height <- MCHeight
    Work <- MCWork
    Addr <- MCAddr
    Outpoints <- MCOutpoints
    Creates <- MCCreates
    Spends <- MCSpends
    Stake <- MCStake
    NetThreads = {node}
    RpcThreads = {node}
    NULL = NULL
    MaxReorg = 2
    BadContext = {"E1"}
    Lockable = {}
    Invalidatable = {"B1"}
    ReprocessDepths = {}
    VerifyDepths = {0, 2}
    MaxDowns = 2
    MaxAborts = 1
SPECIFICATION DSpec
INVARIANTS
    CoinsIndexed
    CleanEntries
    Rebuilt
    BestAfterRestart
    StakeSpentKept
CHECK_DEADLOCK FALSE
