---------------------------- MODULE BlockTree ----------------------------
(***************************************************************************)
(* The blocks a node can ever see, as constants: the tree their pprev      *)
(* pointers form, the proof of work each branch carries, and the outputs   *)
(* each block creates and spends.  A block is identified by its hash, so   *)
(* all of this is fixed before the node starts; what the node has received *)
(* and believes about a block is the state of module ChainState.           *)
(*                                                                         *)
(* Genesis stands for the root of the tree that is looked at.  Chain[b] is *)
(* the set of b and its ancestors (the blocks pprev reaches from b); it is *)
(* a constant, constrained by TreeAssumption, so that no recursive         *)
(* operator stands between the specification and its proofs.               *)
(***************************************************************************)
EXTENDS Integers, FiniteSets

CONSTANTS
    Blocks,       \* block hashes
    Genesis,      \* the root of the tree
    Parent,       \* Parent[b]: hashPrevBlock of b, for every block but the root
    Chain,        \* Chain[b]: b and its ancestors
    Height,       \* nHeight
    Work,         \* nChainWork: the work of the whole chain that ends in b
    Addr,         \* the address of the block's CBlockIndex, the last tie breaker
    Outpoints,    \* transaction outputs
    Creates,      \* Creates[b]: outputs b leaves behind
    Spends,       \* Spends[b]: outputs of earlier blocks that b consumes
    Stake         \* Stake[b]: inputs of b's coinstake, empty for proof of work

ASSUME TreeAssumption ==
    /\ IsFiniteSet(Blocks)
    /\ Genesis \in Blocks
    /\ Parent \in [Blocks \ {Genesis} -> Blocks]
    /\ Chain \in [Blocks -> SUBSET Blocks]
    /\ Chain[Genesis] = {Genesis}
    /\ \A b \in Blocks : /\ b \in Chain[b]
                         /\ Genesis \in Chain[b]
                         /\ \A a \in Chain[b] : Chain[a] \subseteq Chain[b]
                         /\ \A a, c \in Chain[b] : a \in Chain[c] \/ c \in Chain[a]
    /\ \A b \in Blocks \ {Genesis} : /\ Chain[b] = Chain[Parent[b]] \cup {b}
                                     /\ b \notin Chain[Parent[b]]

ASSUME MeasureAssumption ==
    /\ Height \in [Blocks -> Nat]
    /\ Height[Genesis] = 0
    /\ \A b \in Blocks \ {Genesis} : Height[b] = Height[Parent[b]] + 1
    /\ Work \in [Blocks -> Nat]
    /\ \A b \in Blocks \ {Genesis} : Work[Parent[b]] < Work[b]
    /\ Addr \in [Blocks -> Nat]
    /\ \A a, b \in Blocks : Addr[a] = Addr[b] => a = b

\* Transaction hashes do not repeat along a chain, so no output is created twice.
ASSUME CoinAssumption ==
    /\ Creates \in [Blocks -> SUBSET Outpoints]
    /\ Spends \in [Blocks -> SUBSET Outpoints]
    /\ Stake \in [Blocks -> SUBSET Outpoints]
    /\ Spends[Genesis] = {}
    /\ \A b \in Blocks : Stake[b] \subseteq Spends[b]
    /\ \A b \in Blocks \ {Genesis} :
          \A a \in Chain[Parent[b]] : Creates[a] \cap Creates[b] = {}

---------------------------------------------------------------------------
(* Outputs created, consumed and left unspent by the chain that ends in b. *)

Created(b) == UNION {Creates[a] : a \in Chain[b]}

Spent(b) == UNION {Spends[a] : a \in Chain[b]}

UnspentAt(b) == Created(b) \ Spent(b)

\* Every block of the chain spends only what its parent's chain left unspent.
SoundChain(b) ==
    \A a \in Chain[b] \ {Genesis} : Spends[a] \subseteq UnspentAt(Parent[a])

=============================================================================
