CONSTANTS
    MCTxs = {"g", "ca", "t1", "x1", "t2", "t3", "t4", "c1", "z1", "z2"}
    Blocks <- MCBlocks
    Genesis = "G"
    Parent <- MCParent
    Chain <- MCChain
    Height <- MCHeight
    Work <- MCHeight
    Addr <- MCAddr
    Outpoints <- MCOutpoints
    Creates <- MCCreates
    Spends <- MCSpends
    Stake <- MCStake
    Txs <- MCTxs
    Of <- MCOf
    Vin <- MCVin
    BlockTxs <- MCBlockTxs
    Generated <- MCGenerated
    ZSpends <- MCZSpends
    Serial <- MCSerial
    Maturity = 2
    Peers = {p, q}
    MaxOrphans = 2
    None = None
SPECIFICATION Spec
INVARIANTS
    NextTxExact
    InputsAvailable
    NoImmatureSpend
    NotConfirmed
    OrphanIndex
