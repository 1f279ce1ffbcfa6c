CONSTANTS
    x = x
    y = y
    full = full
    part = part
    h0 = h0
    h1 = h1
    h2 = h2
    Txids = {x, y}
    Values = {full, part}
    Pruned = Pruned
    None = None
    Hashes = {h0, h1, h2}
    NoHash = NoHash
    StateAt <- MCStateAt
    Views = {v1, v2}
SPECIFICATION FailSpec
INVARIANT
    DiskNamesState
