CONSTANTS
    MCBlocks = {"G", "A1", "A2", "B1", "B2"}
    Genesis = "G"
    Blocks <- MCBlocks
    Parent <- MCParent
    Chain <- MCChain
    Height <- MCHeight
    Work <- MCWork
    Addr <- MCAddr
    Outpoints <- MCOutpoints
    Creates <- MCCreates
    Spends <- MCSpends
    Stake <- MCStake
    NetThreads = {net}
    RpcThreads = {rpc}
    NULL = NULL
    MaxReorg = 2
    BadContext = {}
    Lockable = {"A1"}
    Invalidatable = {"A1"}
    ReprocessDepths = {0, 1}
SPECIFICATION Spec
INVARIANTS
    IndexConsistent
    ActiveChainValid
    NoCandidateLeft
PROPERTIES
    ImplementsLedger
