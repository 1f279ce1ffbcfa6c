CONSTANTS
    tx1 = tx1
    tx2 = tx2
    tx3 = tx3
    o1 = o1
    o2 = o2
    Txs = {tx1, tx2}
    Outs = {o1, o2}
    Inputs <- MCInputs
    Masternodes = {m1, m2}
    Me = NULL
    Requested = {tx1, tx2}
    Own = {}
    Young = {}
    Heights <- MCHeights
    LockHeights <- MCLockHeights
    Top <- MCTop
    Required = 2
    NULL = NULL
SPECIFICATION FairSpec
PROPERTY
    LocksExpire
