---------------------------- MODULE MCBlockSync ----------------------------
(***************************************************************************)
(*      G - A1 - A2              where the node may have been              *)
(*       \ B1 - B2 - B3 - B4     B2 and B4 stake outputs of B1             *)
(***************************************************************************)
EXTENDS BlockSync

CONSTANT MCBlocks

MCParent ==
    [b \in MCBlocks \ {"G"} |->
        CASE b = "A2" -> "A1" [] b = "B2" -> "B1" [] b = "B3" -> "B2" [] b = "B4" -> "B3" [] OTHER -> "G"]

MCHeight ==
    [b \in MCBlocks |->
        CASE b = "G" -> 0 [] b \in {"A1", "B1"} -> 1 [] b \in {"A2", "B2"} -> 2 [] b = "B3" -> 3
          [] b = "B4" -> 4]

MCChain ==
    [b \in MCBlocks |->
        {"G", b} \cup {a \in {"A1", "B1", "B2", "B3"} :
                          /\ MCHeight[a] < MCHeight[b]
                          /\ (a = "A1") = (b = "A2")}]

MCWork == MCHeight

MCAddr ==
    [b \in MCBlocks |-> IF b \in {"A1", "A2"} THEN 4 + MCHeight[b] ELSE MCHeight[b]]

MCOutpoints == {"x", "y"}

MCCreates == [b \in MCBlocks |-> IF b = "B1" THEN {"x", "y"} ELSE {}]

MCSpends == [b \in MCBlocks |-> CASE b = "B2" -> {"x"} [] b = "B4" -> {"y"} [] OTHER -> {}]

MCStake == MCSpends

MCFirstTip == [p \in Peers |-> "B3"]

MCNextTips == [p \in Peers |-> IF p \in Preferred THEN {"B4"} ELSE {}]

=============================================================================
