---------------------------- MODULE MCChainDisk ----------------------------
(***************************************************************************)
(*      G - A1 - C2 - D3         C2 stakes the output A1 has spent         *)
(*      | \ B1 - B2              B2's entry is written before B1's         *)
(*       \ E1                    E1 fails ContextualCheckBlock             *)
(***************************************************************************)
EXTENDS ChainDisk

CONSTANT MCBlocks

MCParent ==
    [b \in MCBlocks \ {"G"} |->
        CASE b = "C2" -> "A1" [] b = "D3" -> "C2" [] b = "B2" -> "B1" [] OTHER -> "G"]

MCHeight ==
    [b \in MCBlocks |->
        CASE b = "G" -> 0 [] b \in {"A1", "B1", "E1"} -> 1 [] b = "D3" -> 3 [] OTHER -> 2]

MCChain ==
    [b \in MCBlocks |->
        IF b = "G" THEN {"G"}
        ELSE {"G", MCParent[b], b} \cup (IF b = "D3" THEN {"A1"} ELSE {})]

MCWork == MCHeight

MCAddr ==
    [b \in MCBlocks |->
        CASE b = "G" -> 0 [] b = "A1" -> 1 [] b = "C2" -> 2
          [] b = "B2" -> 3 [] b = "B1" -> 4 [] b = "D3" -> 5 [] OTHER -> 6]

MCOutpoints == {"g", "b"}

MCCreates == [b \in MCBlocks |-> CASE b = "G" -> {"g"} [] b = "B1" -> {"b"} [] OTHER -> {}]

MCSpends ==
    [b \in MCBlocks |-> CASE b \in {"A1", "C2"} -> {"g"} [] b = "B2" -> {"b"} [] OTHER -> {}]

MCStake == [b \in MCBlocks |-> IF b = "C2" THEN {"g"} ELSE {}]

=============================================================================
