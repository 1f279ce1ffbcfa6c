--------------------------- MODULE MCCoinsCache ---------------------------
(***************************************************************************)
(* Two transactions, each seen unspent, partly spent and spent, and three  *)
(* blocks whose states differ in both.                                     *)
(***************************************************************************)
EXTENDS CoinsCache

CONSTANTS x, y, full, part, h0, h1, h2

MCStateAt ==
    [b \in {NoHash, h0, h1, h2} |->
        [t \in Txids |->
            CASE b = h0 -> IF t = x THEN full ELSE Pruned
              [] b = h1 -> IF t = x THEN part ELSE full
              [] b = h2 -> IF t = x THEN Pruned ELSE part
              [] OTHER -> Pruned]]

=============================================================================
