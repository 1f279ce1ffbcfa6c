CONSTANTS
    tx1 = tx1
    tx2 = tx2
    tx3 = tx3
    o1 = o1
    o2 = o2
    Txs = {tx1, tx2, tx3}
    Outs = {o1, o2}
    Inputs <- MCInputs
    Masternodes = {me}
    Me = me
    Requested = {tx1, tx2}
    Own = {tx2}
    Young = {tx1}
    Heights <- MCHeights
    LockHeights <- MCLockHeights
    Top <- MCTop
    Required = 1
    NULL = NULL
SPECIFICATION Spec
INVARIANTS
    OwnVotesAgree
    CountedOnce
