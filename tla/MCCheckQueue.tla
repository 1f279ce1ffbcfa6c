---------------------------- MODULE MCCheckQueue ----------------------------
(***************************************************************************)
(* Two workers and three checks, of which one fails.                       *)
(***************************************************************************)
EXTENDS CheckQueue

CONSTANTS w1, w2, c1, c2, c3

=============================================================================
