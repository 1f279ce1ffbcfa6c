CONSTANTS
    w1 = w1
    w2 = w2
    c1 = c1
    c2 = c2
    c3 = c3
    Workers = {w1, w2}
    Master = master
    Checks = {c1, c2, c3}
    Bad = {c1}
    BatchSize = 2
SPECIFICATION FairSpec
INVARIANTS
    VerdictSound
    IdleAssertion
PROPERTY
    WaitReturns
