----------------------------- MODULE MCSwiftTX -----------------------------
(***************************************************************************)
(* A transaction tx1 with two inputs, and tx2 and tx3, which spend one     *)
(* each: tx1 conflicts with both, and a block with tx3 makes it impossible *)
(* and leaves tx2 possible.  With o2 as the only output tx1 and tx2 are    *)
(* alike.                                                                  *)
(***************************************************************************)
EXTENDS SwiftTX, TLC

CONSTANTS tx1, tx2, tx3, o1, o2, Young

MCInputs ==
    [x \in Txs |-> Outs \cap (IF x = tx1 THEN {o1, o2} ELSE IF x = tx3 THEN {o1} ELSE {o2})]

MCHeights == {1}

\* The inputs of some transactions may look too young.
MCLockHeights == [x \in Txs |-> IF x \in Young THEN {0, 1} ELSE {1}]

MCTop == [h \in MCHeights |-> Masternodes]

\* Nothing tells the other masternodes apart.
MasternodesAlike == Permutations(Masternodes \ {Me})

\* Nor two transactions that spend the same output.
AllAlike == MasternodesAlike \cup Permutations({tx1, tx2})

=============================================================================
