----------------------------- MODULE CoinStore -----------------------------
(***************************************************************************)
(* What the coin database promises to the code above it, as plain maps     *)
(* from transactions to their unspent outputs: a scratch view starts as a  *)
(* copy of the tip, is changed freely, and is either committed as the      *)
(* state of a block or forgotten; saving copies the tip to disk and a      *)
(* restart copies the disk to the tip, each in one step.  No cache, no     *)
(* flag and no lazy read shows.                                            *)
(***************************************************************************)
CONSTANTS
    Txids,      \* transactions
    Values,     \* what can be left of a transaction's outputs, as long as one is unspent
    Pruned,     \* all of its outputs are spent, or there is no such transaction
    Hashes,     \* block hashes
    NoHash,     \* uint256(0), the best block of an empty database
    StateAt,    \* StateAt[b]: the coins once block b is connected
    Views       \* scratch views a thread can have on its stack

VARIABLES
    open,       \* the views in use
    view,       \* what each view shows; a view not in use shows the tip
    tip,        \* what pcoinsTip shows
    best,       \* the block it shows the state of
    disk,       \* what the database shows
    diskBest    \* the block it shows the state of

vars == <<open, view, tip, best, disk, diskBest>>

Init ==
    /\ open = {}
    /\ disk = StateAt[NoHash] /\ diskBest = NoHash
    /\ tip = disk /\ best = diskBest
    /\ view = [v \in Views |-> tip]

Open(v) ==
    /\ v \notin open
    /\ open' = open \cup {v}
    /\ UNCHANGED <<view, tip, best, disk, diskBest>>

Modify(v, x, c) ==
    /\ v \in open
    /\ view' = [view EXCEPT ![v] = [@ EXCEPT ![x] = c]]
    /\ UNCHANGED <<open, tip, best, disk, diskBest>>

Commit(v, b) ==
    /\ open = {v}
    /\ view[v] = StateAt[b]
    /\ open' = {}
    /\ tip' = view[v] /\ best' = b
    /\ view' = [w \in Views |-> view[v]]
    /\ UNCHANGED <<disk, diskBest>>

Abandon(v) ==
    /\ v \in open
    /\ open' = open \ {v}
    /\ view' = [view EXCEPT ![v] = tip]
    /\ UNCHANGED <<tip, best, disk, diskBest>>

Save ==
    /\ open = {}
    /\ disk' = tip /\ diskBest' = best
    /\ UNCHANGED <<open, view, tip, best>>

Restart ==
    /\ open' = {}
    /\ tip' = disk /\ best' = diskBest
    /\ view' = [w \in Views |-> disk]
    /\ UNCHANGED <<disk, diskBest>>

Next ==
    \/ \E v \in Views : Open(v) \/ Abandon(v)
    \/ \E v \in Views, x \in Txids, c \in Values \cup {Pruned} : Modify(v, x, c)
    \/ \E v \in Views, b \in Hashes : Commit(v, b)
    \/ Save
    \/ Restart

Spec == Init /\ [][Next]_vars

=============================================================================
