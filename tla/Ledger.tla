------------------------------ MODULE Ledger ------------------------------
(***************************************************************************)
(* What the active chain and pcoinsTip promise together: the node is       *)
(* always at some block whose chain spends every output at most once and   *)
(* only after it was created, the coins are exactly that chain's unspent   *)
(* outputs, and the node moves by one block at a time, up to a child that  *)
(* spends unspent outputs only or down to the parent.  How DisconnectBlock *)
(* computes the coins of the parent again is up to the implementation.     *)
(***************************************************************************)
EXTENDS BlockTree

VARIABLES
    tip,     \* the block the node is at
    coins    \* the outputs that can be spent

Init ==
    /\ tip = Genesis
    /\ coins = UnspentAt(Genesis)

Extend(b) ==
    /\ b # Genesis
    /\ Parent[b] = tip
    /\ Spends[b] \subseteq coins
    /\ tip' = b
    /\ coins' = UnspentAt(b)

Retract ==
    /\ tip # Genesis
    /\ tip' = Parent[tip]
    /\ coins' = UnspentAt(Parent[tip])

Next == (\E b \in Blocks : Extend(b)) \/ Retract

Spec == Init /\ [][Next]_<<tip, coins>>

\* No output is consumed twice by the chain the node is at.
NoDoubleSpend ==
    \A a, b \in Chain[tip] : a # b => Spends[a] \cap Spends[b] = {}

=============================================================================
