CONSTANTS
    MCBlocks = {"G", "A1", "A2", "B1", "B2", "B3", "C2", "D1"}
    Genesis = "G"
    Blocks <- MCBlocks
    Parent <- MCParent
    Chain <- MCChain
    Height <- MCHeight
    Work <- MCWork
    Addr <- MCAddr
    Outpoints <- MCOutpoints
    Creates <- MCCreates
    Spends <- MCSpends
    Stake <- MCStake
    NetThreads = {net}
    RpcThreads = {rpc}
    NULL = NULL
    MaxReorg = 2
    BadContext = {"D1"}
    Lockable = {}
    Invalidatable = {}
    ReprocessDepths = {}
SPECIFICATION FairSpec
INVARIANTS
    IndexConsistent
    StakeSpentSound
    CandidatesExact
    MostWorkActive
PROPERTIES
    ImplementsLedger
    CallsReturn
    BestChainActivated
