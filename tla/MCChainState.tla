--------------------------- MODULE MCChainState ---------------------------
(***************************************************************************)
(* Small block trees for ChainState.                                       *)
(*                                                                         *)
(*      G - A1 - A2                                                        *)
(*      |    \ - C2              C2 spends an output A1 has spent          *)
(*      |\ - B1 - B2 - B3        B2 stakes an output B1 creates            *)
(*       \ - D1                  D1 fails ContextualCheckBlock             *)
(*                                                                         *)
(* The tree of a run is the part of it with the blocks in MCBlocks.        *)
(***************************************************************************)
EXTENDS ChainState

CONSTANT MCBlocks

MCParent ==
    [b \in MCBlocks \ {"G"} |->
        CASE b \in {"A2", "C2"} -> "A1"
          [] b = "B2" -> "B1" [] b = "B3" -> "B2"
          [] OTHER -> "G"]

MCHeight ==
    LET h[b \in MCBlocks] == IF b = "G" THEN 0 ELSE h[MCParent[b]] + 1 IN h

MCChain ==
    LET c[b \in MCBlocks] == IF b = "G" THEN {"G"} ELSE c[MCParent[b]] \cup {b} IN c

\* Every block adds the same work; sequence numbers decide between equal branches.
MCWork == MCHeight

MCAddr ==
    [b \in MCBlocks |->
        CASE b = "G" -> 0
          [] b = "A1" -> 1 [] b = "A2" -> 2 [] b = "C2" -> 3
          [] b = "B1" -> 4 [] b = "B2" -> 5 [] b = "B3" -> 6
          [] b = "D1" -> 7]

\* "g" and "h" exist at the root, "b" once B1 is connected.
MCOutpoints == {"g", "h", "b"}

MCCreates ==
    [b \in MCBlocks |->
        CASE b = "G" -> {"g", "h"} [] b = "B1" -> {"b"} [] OTHER -> {}]

MCSpends ==
    [b \in MCBlocks |->
        CASE b \in {"A1", "B3", "C2"} -> {"g"}
          [] b = "A2" -> {"h"}
          [] b = "B2" -> {"b"}
          [] OTHER -> {}]

MCStake ==
    [b \in MCBlocks |->
        CASE b = "A2" -> {"h"} [] b = "B2" -> {"b"} [] OTHER -> {}]

=============================================================================
