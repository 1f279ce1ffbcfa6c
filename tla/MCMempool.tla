---------------------------- MODULE MCMempool ----------------------------
(***************************************************************************)
(* Two branches of two blocks.  A1 and B1 spend the same output g1 in t1   *)
(* and x1; t2 and t4 spend t1, t3 spends t2 and g2; A2 confirms t2.  c1    *)
(* spends A1's coinbase ca, which is mature two blocks later.  z1 and z2   *)
(* reveal the same serial number, and B2 confirms z1.                      *)
(*                                                                         *)
(*      G - A1 - A2                                                        *)
(*       \ - B1 - B2                                                       *)
(***************************************************************************)
EXTENDS Mempool

CONSTANTS MCTxs

MCBlocks == {"G", "A1", "A2", "B1", "B2"}
MCParent == [b \in MCBlocks \ {"G"} |-> CASE b = "A2" -> "A1" [] b = "B2" -> "B1" [] OTHER -> "G"]
MCChain ==
    [b \in MCBlocks |->
        CASE b = "G" -> {"G"} [] b = "A1" -> {"G", "A1"} [] b = "A2" -> {"G", "A1", "A2"}
          [] b = "B1" -> {"G", "B1"} [] b = "B2" -> {"G", "B1", "B2"}]
MCHeight == [b \in MCBlocks |-> Cardinality(MCChain[b]) - 1]
MCAddr == [b \in MCBlocks |-> CHOOSE n \in 0..4 :
              n = CASE b = "G" -> 0 [] b = "A1" -> 1 [] b = "A2" -> 2 [] b = "B1" -> 3 [] OTHER -> 4]

\* Outputs are named after their transactions.
MCOutpoints == {"g1", "g2", "ca", "t1", "t1b", "t2"}
MCOf == [o \in MCOutpoints |-> CASE o \in {"g1", "g2"} -> "g" [] o = "t1b" -> "t1" [] OTHER -> o]

MCVin ==
    [t \in MCTxs |->
        CASE t \in {"t1", "x1"} -> {"g1"}
          [] t = "t2" -> {"t1"}
          [] t = "t4" -> {"t1b"}
          [] t = "t3" -> {"t2", "g2"}
          [] t = "c1" -> {"ca"}
          [] OTHER -> {}]

MCBlockTxs ==
    [b \in MCBlocks |->
        SelectSeq(CASE b = "G" -> <<"g">>
                    [] b = "A1" -> <<"ca", "t1">> [] b = "A2" -> <<"t2">>
                    [] b = "B1" -> <<"x1">> [] b = "B2" -> <<"z1">>,
                  LAMBDA t : t \in MCTxs)]

In(b) == UNION {MCVin[MCBlockTxs[b][i]] : i \in DOMAIN MCBlockTxs[b]}
Out(b) == {o \in MCOutpoints : \E i \in DOMAIN MCBlockTxs[b] : MCOf[o] = MCBlockTxs[b][i]}
MCCreates == [b \in MCBlocks |-> Out(b) \ In(b)]
MCSpends == [b \in MCBlocks |-> In(b) \ Out(b)]
MCStake == [b \in MCBlocks |-> {}]

MCGenerated == {"g", "ca"} \cap MCTxs
MCZSpends == {"z1", "z2"} \cap MCTxs
MCSerial == [z \in MCZSpends |-> "s"]

=============================================================================
