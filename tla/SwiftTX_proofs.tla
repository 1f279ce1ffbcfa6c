--------------------------- MODULE SwiftTX_proofs ---------------------------
(***************************************************************************)
(* The invariants of SwiftTX, for any transactions, masternodes, heights   *)
(* and quorums that satisfy QuorumAssumption.                              *)
(*                                                                         *)
(* Inv is the inductive invariant.  SigsInv says where counted votes come  *)
(* from: they are remembered and belong to masternodes of the quorum.      *)
(* PendingInv is the same of the vote the handler has remembered and not   *)
(* yet counted.  PoolInv and HeldInv say why this node's votes agree: what *)
(* it voted for stays in its pool until the chain decides, or is lost.     *)
(***************************************************************************)
EXTENDS SwiftTX, FiniteSetTheorems, TLAPS

SigsInv ==
    \A t \in Txs : \A s \in lock[t].sigs :
        /\ t # cleaning => <<s.mn, t>> \in votes
        /\ Ranked(s.mn, s.height)

PendingInv ==
    pc = "vote" =>
        /\ <<subject.mn, subject.tx>> \in votes
        /\ subject.tx # cleaning => \A s \in lock[subject.tx].sigs : s.mn # subject.mn

PoolInv == \A t, u \in pool \cup mined : ~Conflict(t, u)

Held(t) == t \in pool \cup mined \cup lost \/ Dead(t)

HeldInv == \A v \in signed : Held(v.tx)

Inv ==
    /\ TypeOK
    /\ CountedOnce
    /\ SigsInv
    /\ PendingInv
    /\ PoolInv
    /\ HeldInv

---------------------------------------------------------------------------
(* Frames: what keeps each part when the action leaves its subject alone. *)

\* Locks are changed in their height and expiry only, or lose their votes.
SigsKept == \A t \in Txs : lock'[t].sigs = lock[t].sigs

\* Votes that counted keep counting once when no lock gains one and none stops being erased.
LEMMA CountedFrame ==
    ASSUME CountedOnce, SigsKept, UNCHANGED cleaning
    PROVE  CountedOnce'
BY DEF CountedOnce, SigsKept

\* Counted votes stay known when nothing known is forgotten.
LEMMA SigsFrame ==
    ASSUME SigsInv, SigsKept, UNCHANGED cleaning, votes \subseteq votes'
    PROVE  SigsInv'
BY DEF SigsInv, SigsKept, Ranked

\* The pending vote stays new when the handler stands still and no lock gains a vote.
LEMMA PendingFrame ==
    ASSUME TypeOK, PendingInv, SigsKept, UNCHANGED <<cleaning, pc, subject>>,
           votes \subseteq votes'
    PROVE  PendingInv'
<1> SUFFICES ASSUME pc = "vote"
             PROVE  PendingInv'
    BY DEF PendingInv
<1>1. subject.tx \in Txs
    BY DEF TypeOK, Votes
<1> QED
    BY <1>1 DEF PendingInv, SigsKept

\* What is held stays held when the pool and the chain grow and only what enters the pool
\* is no longer lost.
LEMMA HeldFrame ==
    ASSUME HeldInv, UNCHANGED signed,
           mined \subseteq mined', pool \subseteq pool', lost \subseteq lost' \cup pool'
    PROVE  HeldInv'
BY DEF HeldInv, Held, Dead

\* Steps that leave the pool, the chain and this node's votes alone.
LEMMA ChainFrame ==
    ASSUME PoolInv, HeldInv, UNCHANGED <<chain, signed>>
    PROVE  PoolInv' /\ HeldInv'
BY DEF PoolInv, HeldInv, chain, Held, Dead, Conflict

---------------------------------------------------------------------------
(* The initial state. *)

\* Nothing is locked, voted for or known.
LEMMA InitInv == Init => Inv
<1> SUFFICES ASSUME Init PROVE Inv
    OBVIOUS
<1> USE SwiftAssumption
<1>1. TypeOK
    BY DEF Init, NoRequests, NoLocks, NothingLocked, TypeOK, NoLock
<1>2. CountedOnce /\ SigsInv /\ PendingInv
    BY DEF Init, NoLocks, CountedOnce, SigsInv, PendingInv, NoLock
<1>3. PoolInv /\ HeldInv
    BY DEF Init, PoolInv, HeldInv
<1> QED
    BY <1>1, <1>2, <1>3 DEF Inv

---------------------------------------------------------------------------
(* The memory pool and the chain. *)

\* An ordinary transaction enters the pool.
LEMMA TxArrivesInv ==
    ASSUME Inv, NEW t \in Txs, TxArrives(t)
    PROVE  Inv'
<1> USE DEF Inv
<1>1. TypeOK'
    BY DEF TxArrives, Enter, TypeOK, maps, handler
<1>2. CountedOnce' /\ SigsInv' /\ PendingInv'
    BY CountedFrame, SigsFrame, PendingFrame DEF TxArrives, SigsKept, maps, handler
<1>3. PoolInv'
    BY DEF TxArrives, Enter, Acceptable, PoolInv, Conflict
<1>4. HeldInv'
    BY HeldFrame DEF TxArrives, Enter
<1> QED
    BY <1>1, <1>2, <1>3, <1>4

\* A transaction is mined: what conflicts with it leaves the pool, and is dead.
LEMMA MineInv ==
    ASSUME Inv, NEW t \in Txs, Mine(t)
    PROVE  Inv'
<1> USE DEF Inv
<1>1. TypeOK'
    BY DEF Mine, TypeOK, maps, handler
<1>2. CountedOnce' /\ SigsInv' /\ PendingInv'
    BY CountedFrame, SigsFrame, PendingFrame DEF Mine, SigsKept, maps, handler
<1>3. PoolInv'
    BY DEF Mine, PoolInv, Conflict, Dead
<1>4. HeldInv'
    BY DEF Mine, HeldInv, Held, Dead, Conflict
<1> QED
    BY <1>1, <1>2, <1>3, <1>4

\* A block is undone: its transaction is in the pool or lost, and so is what it had made
\* impossible.
LEMMA UndoInv ==
    ASSUME Inv, NEW t \in Txs, Undo(t)
    PROVE  Inv'
<1> USE DEF Inv
<1>1. pool \subseteq pool' /\ pool' \cup mined' \subseteq pool \cup mined
    BY DEF Undo
<1>2. TypeOK'
    <2>1. Voted \subseteq Txs
        BY DEF Voted, TypeOK, Votes
    <2>2. lost' \subseteq Txs
        BY <2>1 DEF Undo, TypeOK
    <2> QED
        BY <2>2 DEF Undo, TypeOK, maps, handler
<1>3. CountedOnce' /\ SigsInv' /\ PendingInv'
    BY CountedFrame, SigsFrame, PendingFrame DEF Undo, SigsKept, maps, handler
<1>4. PoolInv'
    BY <1>1 DEF PoolInv, Conflict
<1>5. HeldInv'
    <2> SUFFICES ASSUME NEW v \in signed
                 PROVE  Held(v.tx)'
        BY DEF Undo, HeldInv
    <2>1. Held(v.tx) /\ v.tx \in Voted
        BY DEF HeldInv, Voted
    <2>2. CASE v.tx = t \/ Conflict(v.tx, t)
        BY <2>1, <2>2 DEF Undo, Held
    <2>3. CASE v.tx # t /\ ~Conflict(v.tx, t)
        BY <2>1, <2>3, <1>1 DEF Undo, Held, Dead, Conflict
    <2> QED
        BY <2>2, <2>3
<1> QED
    BY <1>2, <1>3, <1>4, <1>5

\* The pool is emptied: what was voted for in it is lost.
LEMMA ClearPoolInv ==
    ASSUME Inv, ClearPool
    PROVE  Inv'
<1> USE DEF Inv
<1>1. TypeOK'
    BY DEF ClearPool, TypeOK, maps, handler
<1>2. CountedOnce' /\ SigsInv' /\ PendingInv'
    BY CountedFrame, SigsFrame, PendingFrame DEF ClearPool, SigsKept, maps, handler
<1>3. PoolInv'
    BY DEF ClearPool, PoolInv, Conflict
<1>4. HeldInv'
    BY DEF ClearPool, HeldInv, Held, Dead, Voted
<1> QED
    BY <1>1, <1>2, <1>3, <1>4

\* The node starts again with nothing but the chain: all it had voted for is lost, or mined.
LEMMA RestartInv ==
    ASSUME Inv, Restart
    PROVE  Inv'
<1> USE DEF Inv
<1>1. TypeOK'
    <2>1. Voted \subseteq Txs
        BY DEF Voted, TypeOK, Votes
    <2>2. lost' \subseteq Txs /\ mined' \subseteq Txs
        BY <2>1 DEF Restart, TypeOK
    <2>3. request' \in [Txs -> {"none", "tx", "empty"}] /\ lock' \in [Txs -> Locks \cup {NoLock}]
        BY DEF Restart, NoRequests, NoLocks
    <2> QED
        BY <2>2, <2>3 DEF Restart, Done, NothingLocked, TypeOK
<1>2. \A t \in Txs : lock'[t].sigs = {}
    BY DEF Restart, NoLocks, NoLock
<1>3. CountedOnce' /\ SigsInv'
    BY <1>2 DEF CountedOnce, SigsInv
<1>4. PendingInv'
    BY DEF Restart, Done, PendingInv
<1>5. PoolInv'
    BY DEF Restart, PoolInv, Conflict
<1>6. HeldInv'
    BY DEF Restart, HeldInv, Held, Voted
<1> QED
    BY <1>1, <1>3, <1>4, <1>5, <1>6

---------------------------------------------------------------------------
(* Requests. *)

\* CreateNewLock keeps the votes and the type of the locks.
LEMMA CreateNewLockEffect ==
    ASSUME TypeOK, NEW t \in Txs, NEW h \in LockHeights[t], CreateNewLock(t, h)
    PROVE  SigsKept /\ lock' \in [Txs -> Locks \cup {NoLock}]
<1>1. h \in Heights \cup {0}
    BY SwiftAssumption
<1>2. CASE h = 0
    BY <1>2 DEF CreateNewLock, SigsKept, TypeOK
<1>3. CASE h # 0 /\ lock[t] = NoLock
    <2> DEFINE new == [height |-> h, sigs |-> {}, due |-> FALSE]
    <2>1. lock' = [lock EXCEPT ![t] = new]
        BY <1>3 DEF CreateNewLock
    <2>2. new \in Locks /\ new.sigs = NoLock.sigs
        BY <1>1 DEF Locks, NoLock
    <2> HIDE DEF new
    <2> QED
        BY <1>3, <2>1, <2>2 DEF SigsKept, TypeOK
<1>4. CASE h # 0 /\ lock[t] # NoLock
    <2> DEFINE new == [lock[t] EXCEPT !.height = h]
    <2>1. lock' = [lock EXCEPT ![t] = new]
        BY <1>4 DEF CreateNewLock
    <2>2. lock[t] \in Locks
        BY <1>4 DEF TypeOK
    <2>3. new \in Locks /\ new.sigs = lock[t].sigs
        BY <1>1, <2>2 DEF Locks
    <2> HIDE DEF new
    <2> QED
        BY <2>1, <2>3 DEF SigsKept, TypeOK
<1> QED
    BY <1>2, <1>3, <1>4

\* ExpireBoth keeps the votes and the type of the locks.
LEMMA ExpireBothEffect ==
    ASSUME NEW lk \in [Txs -> Locks \cup {NoLock}], NEW t, NEW u
    PROVE  /\ ExpireBoth(lk, t, u) \in [Txs -> Locks \cup {NoLock}]
           /\ \A x \in Txs : ExpireBoth(lk, t, u)[x].sigs = lk[x].sigs
BY DEF ExpireBoth, Locks, NoLock

\* A request arrives.
LEMMA RequestArrivesInv ==
    ASSUME Inv, NEW t \in Txs, RequestArrives(t)
    PROVE  Inv'
<1> USE DEF Inv
<1>0. PICK h \in LockHeights[t] : CreateNewLock(t, h) /\ height' = h
    BY DEF RequestArrives
<1>1. SigsKept /\ lock' \in [Txs -> Locks \cup {NoLock}]
    BY <1>0, CreateNewLockEffect
<1>2. TypeOK'
    BY <1>0, <1>1, SwiftAssumption DEF RequestArrives, TypeOK, chain
<1>3. CountedOnce' /\ SigsInv'
    BY <1>1, CountedFrame, SigsFrame DEF RequestArrives
<1>4. PendingInv'
    BY DEF RequestArrives, PendingInv
<1>5. PoolInv' /\ HeldInv'
    BY ChainFrame DEF RequestArrives
<1> QED
    BY <1>2, <1>3, <1>4, <1>5

\* The pool takes the request or not.
LEMMA AcceptRequestInv ==
    ASSUME Inv, AcceptRequest
    PROVE  Inv'
<1> USE DEF Inv
<1>1. subject \in Txs
    BY DEF AcceptRequest, TypeOK
<1>2. TypeOK'
    BY <1>1 DEF AcceptRequest, Enter, TypeOK, maps
<1>3. CountedOnce' /\ SigsInv'
    BY CountedFrame, SigsFrame DEF AcceptRequest, SigsKept, maps
<1>4. PendingInv'
    BY DEF AcceptRequest, PendingInv
<1>5. PoolInv'
    BY DEF AcceptRequest, Enter, Acceptable, PoolInv, Conflict
<1>6. HeldInv'
    BY HeldFrame DEF AcceptRequest, Enter
<1> QED
    BY <1>2, <1>3, <1>4, <1>5, <1>6

\* The request is accepted, and this node votes if its masternode ranks high enough.
LEMMA RequestAcceptedInv ==
    ASSUME Inv, RequestAccepted
    PROVE  Inv'
<1> USE DEF Inv
<1>1. subject \in Txs
    BY DEF RequestAccepted, TypeOK
<1> DEFINE mine == [mn |-> Me, tx |-> subject, height |-> height]
<1>2. \/ UNCHANGED <<signed, votes, lost>>
      \/ /\ Me \in Masternodes
         /\ signed' = signed \cup {mine}
         /\ votes' = votes \cup {<<Me, subject>>}
         /\ lost' = IF subject \in pool \cup mined \/ Dead(subject)
                    THEN lost ELSE lost \cup {subject}
    BY SwiftAssumption DEF RequestAccepted, Vote, NoVote
<1>3. mine.tx = subject
    OBVIOUS
<1>4. TypeOK'
    <2>1. Me \in Masternodes => mine \in Votes
        BY <1>1 DEF TypeOK, Votes
    <2>2. signed' \subseteq Votes /\ votes' \subseteq Masternodes \X Txs /\ lost' \subseteq Txs
        BY <1>1, <1>2, <2>1 DEF TypeOK
    <2>3. request' \in [Txs -> {"none", "tx", "empty"}]
        BY <1>1 DEF RequestAccepted, Insert, TypeOK
    <2> QED
        BY <2>2, <2>3 DEF RequestAccepted, Done, TypeOK
<1>5. CountedOnce' /\ SigsInv'
    BY <1>2, CountedFrame, SigsFrame DEF RequestAccepted, SigsKept
<1>6. PendingInv'
    BY DEF RequestAccepted, Done, PendingInv
<1>7. PoolInv'
    BY DEF RequestAccepted, PoolInv
<1>8. HeldInv'
    <2>1. UNCHANGED <<pool, mined>> /\ lost \subseteq lost'
        BY <1>2 DEF RequestAccepted
    <2>2. \A t : Held(t) => Held(t)'
        BY <2>1 DEF Held, Dead
    <2>3. \A x : x = subject /\ mine \in signed' \ signed => Held(x)'
        BY <1>2, <2>1 DEF Held, Dead
    <2>4. SUFFICES ASSUME NEW v \in signed'
                   PROVE  Held(v.tx)'
        BY DEF HeldInv
    <2>5. CASE v \in signed
        BY <2>2, <2>5 DEF HeldInv
    <2>6. CASE v \notin signed
        <3>1. v = mine
            BY <1>2, <2>6
        <3> QED
            BY <1>3, <2>3, <2>6, <3>1
    <2> QED
        BY <2>5, <2>6
<1> QED
    BY <1>4, <1>5, <1>6, <1>7, <1>8

\* The request is refused: its free inputs are locked, and a conflict expires locks.
LEMMA RequestRefusedInv ==
    ASSUME Inv, RequestRefused
    PROVE  Inv'
<1> USE DEF Inv
<1>1. subject \in Txs
    BY DEF RequestRefused, TypeOK
<1>2. SigsKept /\ lock' \in [Txs -> Locks \cup {NoLock}]
    <2>1. \/ lock' = lock
          \/ \E u : lock' = ExpireBoth(lock, subject, u)
        BY DEF RequestRefused
    <2> QED
        BY <2>1, ExpireBothEffect DEF SigsKept, TypeOK
<1>3. TypeOK'
    <2>1. request' \in [Txs -> {"none", "tx", "empty"}]
        BY <1>1 DEF RequestRefused, Insert, TypeOK
    <2>2. locked' \in [Outs -> Txs \cup {NULL}]
        BY <1>1 DEF RequestRefused, LockInputs, TypeOK
    <2> QED
        BY <1>1, <1>2, <2>1, <2>2 DEF RequestRefused, Done, TypeOK, chain
<1>4. CountedOnce' /\ SigsInv'
    BY <1>2, CountedFrame, SigsFrame DEF RequestRefused
<1>5. PendingInv'
    BY DEF RequestRefused, Done, PendingInv
<1>6. PoolInv' /\ HeldInv'
    BY ChainFrame DEF RequestRefused, Done
<1> QED
    BY <1>3, <1>4, <1>5, <1>6

\* The wallet's own request.
LEMMA WalletRequestInv ==
    ASSUME Inv, NEW t \in Txs, WalletRequest(t)
    PROVE  Inv'
<1> USE DEF Inv
<1>0. PICK h \in LockHeights[t] : CreateNewLock(t, h)
    BY DEF WalletRequest
<1>1. SigsKept /\ lock' \in [Txs -> Locks \cup {NoLock}]
    BY <1>0, CreateNewLockEffect
<1>2. TypeOK'
    BY <1>1 DEF WalletRequest, Enter, Insert, TypeOK, handler
<1>3. CountedOnce' /\ SigsInv' /\ PendingInv'
    BY <1>1, CountedFrame, SigsFrame, PendingFrame DEF WalletRequest, handler
<1>4. PoolInv'
    BY DEF WalletRequest, Enter, Acceptable, PoolInv, Conflict
<1>5. HeldInv'
    BY HeldFrame DEF WalletRequest, Enter
<1> QED
    BY <1>2, <1>3, <1>4, <1>5

---------------------------------------------------------------------------
(* Votes. *)

\* A new vote arrives: the lock cannot have counted one of that masternode, as counted
\* votes are remembered.
LEMMA VoteArrivesInv ==
    ASSUME Inv, NEW v \in Sent, VoteArrives(v)
    PROVE  Inv'
<1> USE DEF Inv
<1>1. v \in Votes /\ v.mn \in Masternodes /\ v.tx \in Txs
    BY DEF Sent, TypeOK, Votes
<1>2. TypeOK'
    BY <1>1 DEF VoteArrives, TypeOK, chain
<1>3. CountedOnce' /\ SigsInv'
    BY CountedFrame, SigsFrame DEF VoteArrives, SigsKept
<1>4. PendingInv'
    <2>1. ASSUME v.tx # cleaning, NEW s \in lock[v.tx].sigs
          PROVE  s.mn # v.mn
        BY <1>1, <2>1 DEF VoteArrives, SigsInv
    <2> QED
        BY <2>1 DEF VoteArrives, PendingInv
<1>5. PoolInv' /\ HeldInv'
    BY ChainFrame DEF VoteArrives
<1> QED
    BY <1>2, <1>3, <1>4, <1>5

\* The vote is not counted.
LEMMA DropVoteInv ==
    ASSUME Inv, DropVote
    PROVE  Inv'
<1> USE DEF Inv
<1>1. TypeOK'
    BY DEF DropVote, Done, TypeOK, maps, chain
<1>2. CountedOnce' /\ SigsInv'
    BY CountedFrame, SigsFrame DEF DropVote, SigsKept, maps
<1>3. PendingInv'
    BY DEF DropVote, Done, PendingInv
<1>4. PoolInv' /\ HeldInv'
    BY ChainFrame DEF DropVote, Done
<1> QED
    BY <1>1, <1>2, <1>3, <1>4

\* Counting a vote adds one entry, of its masternode and height, to its transaction's lock.
LEMMA WithVoteEffect ==
    ASSUME TypeOK, NEW v \in Votes
    PROVE  /\ WithVote(v) \in [Txs -> Locks \cup {NoLock}]
           /\ \A t \in Txs \ {v.tx} : WithVote(v)[t].sigs = lock[t].sigs
           /\ \E e \in Entries :
                /\ e.mn = v.mn /\ e.height = v.height
                /\ WithVote(v)[v.tx].sigs = lock[v.tx].sigs \cup {e}
<1> DEFINE old == IF lock[v.tx] = NoLock
                  THEN [height |-> 0, sigs |-> {}, due |-> FALSE] ELSE lock[v.tx]
           twice == \E s \in old.sigs : s.mn = v.mn /\ s.height = v.height
           e == [mn |-> v.mn, height |-> v.height, again |-> twice]
           new == [old EXCEPT !.sigs = @ \cup {e}]
<1>1. v.tx \in Txs /\ v.mn \in Masternodes /\ v.height \in Heights \cup {0}
    BY DEF Votes
<1>2. old \in Locks /\ old.sigs = lock[v.tx].sigs
    <2>1. CASE lock[v.tx] = NoLock
        BY <1>1, <2>1 DEF Locks, NoLock
    <2>2. CASE lock[v.tx] # NoLock
        <3>1. lock[v.tx] \in Locks
            BY <1>1, <2>2 DEF TypeOK
        <3> QED
            BY <2>2, <3>1
    <2> QED
        BY <2>1, <2>2
<1>3. twice \in BOOLEAN
    OBVIOUS
<1>4. e \in Entries /\ e.mn = v.mn /\ e.height = v.height
    <2> HIDE DEF twice
    <2> QED
        BY <1>1, <1>3 DEF Entries
<1>5. WithVote(v) = [lock EXCEPT ![v.tx] = new]
    BY DEF WithVote
<1>6. new \in Locks /\ new.sigs = old.sigs \cup {e}
    <2> HIDE DEF old, e
    <2> QED
        BY <1>2, <1>4 DEF Locks
<1> HIDE DEF old, new, e
<1> QED
    BY <1>1, <1>2, <1>4, <1>5, <1>6 DEF TypeOK

\* The vote is counted, and a complete lock locks inputs or expires.
LEMMA CountVoteInv ==
    ASSUME Inv, CountVote
    PROVE  Inv'
<1> USE DEF Inv
<1> DEFINE v == subject
<1>1. v \in Votes /\ v.tx \in Txs
    BY DEF CountVote, TypeOK, Votes
<1>3. PICK e \in Entries :
        /\ e.mn = v.mn /\ e.height = v.height
        /\ WithVote(v)[v.tx].sigs = lock[v.tx].sigs \cup {e}
    BY <1>1, WithVoteEffect
<1>4. /\ lock' \in [Txs -> Locks \cup {NoLock}]
      /\ \A t \in Txs : lock'[t].sigs = WithVote(v)[t].sigs
    <2>1. \/ lock' = WithVote(v)
          \/ \E u : lock' = ExpireBoth(WithVote(v), v.tx, u)
        BY DEF CountVote
    <2>2. WithVote(v) \in [Txs -> Locks \cup {NoLock}]
        BY <1>1, WithVoteEffect
    <2> QED
        BY <2>1, <2>2, ExpireBothEffect
<1>5. /\ lock'[v.tx].sigs = lock[v.tx].sigs \cup {e}
      /\ \A t \in Txs \ {v.tx} : lock'[t].sigs = lock[t].sigs
    BY <1>1, <1>3, <1>4, WithVoteEffect
<1>6. UNCHANGED <<votes, cleaning>>
    BY DEF CountVote
<1>7. TypeOK'
    <2>1. request' \in [Txs -> {"none", "tx", "empty"}]
        BY <1>1 DEF CountVote, TypeOK
    <2>2. locked' \in [Outs -> Txs \cup {NULL}]
        BY <1>1 DEF CountVote, LockInputs, TypeOK
    <2> QED
        BY <1>4, <2>1, <2>2 DEF CountVote, Done, TypeOK, chain
<1>8. CountedOnce'
    <2> SUFFICES ASSUME NEW t \in Txs, t # cleaning,
                        NEW r \in lock'[t].sigs, NEW s \in lock'[t].sigs, r.mn = s.mn
                 PROVE  r = s
        BY <1>6 DEF CountedOnce
    <2>1. CASE t # v.tx
        BY <1>5, <2>1 DEF CountedOnce
    <2>2. CASE t = v.tx
        <3>1. \A x \in lock[t].sigs : x.mn # e.mn
            BY <1>3, <2>2 DEF PendingInv, CountVote
        <3> QED
            BY <1>5, <2>2, <3>1 DEF CountedOnce
    <2> QED
        BY <2>1, <2>2
<1>9. SigsInv'
    <2> SUFFICES ASSUME NEW t \in Txs, NEW s \in lock'[t].sigs
                 PROVE  /\ t # cleaning => <<s.mn, t>> \in votes
                        /\ Ranked(s.mn, s.height)
        BY <1>6 DEF SigsInv, Ranked
    <2>1. CASE s \in lock[t].sigs
        BY <2>1 DEF SigsInv
    <2>2. CASE t = v.tx /\ s = e
        BY <1>1, <1>3, <2>2 DEF PendingInv, CountVote
    <2> QED
        BY <1>5, <2>1, <2>2
<1>10. PendingInv'
    BY DEF CountVote, Done, PendingInv
<1>11. PoolInv' /\ HeldInv'
    BY ChainFrame DEF CountVote, Done
<1> QED
    BY <1>7, <1>8, <1>9, <1>10, <1>11

---------------------------------------------------------------------------
(* Expiry. *)

\* A lock grows old.
LEMMA ExpireInv ==
    ASSUME Inv, NEW t \in Txs, Expire(t)
    PROVE  Inv'
<1> USE DEF Inv
<1>1. SigsKept /\ lock' \in [Txs -> Locks \cup {NoLock}]
    <2> DEFINE new == [lock[t] EXCEPT !.due = TRUE]
    <2>1. lock' = [lock EXCEPT ![t] = new]
        BY DEF Expire
    <2>2. lock[t] \in Locks
        BY DEF Expire, TypeOK
    <2>3. new \in Locks /\ new.sigs = lock[t].sigs
        BY <2>2 DEF Locks
    <2> HIDE DEF new
    <2> QED
        BY <2>1, <2>3 DEF SigsKept, TypeOK
<1>2. TypeOK'
    BY <1>1 DEF Expire, TypeOK, chain, handler
<1>3. CountedOnce' /\ SigsInv' /\ PendingInv'
    BY <1>1, CountedFrame, SigsFrame, PendingFrame DEF Expire, handler
<1>4. PoolInv' /\ HeldInv'
    BY ChainFrame DEF Expire, handler
<1> QED
    BY <1>2, <1>3, <1>4

\* What belongs to an old lock goes: of the votes, only those the lock counted, so the vote
\* the handler holds is not forgotten.
LEMMA CleanRequestInv ==
    ASSUME Inv, NEW t \in Txs, CleanRequest(t)
    PROVE  Inv'
<1> USE DEF Inv
<1>1. cleaning = NULL /\ cleaning' = t /\ UNCHANGED <<lock, chain, signed, pc, subject, height>>
    BY DEF CleanRequest, handler
<1>2. votes' \subseteq votes /\ votes \ {<<s.mn, t>> : s \in lock[t].sigs} \subseteq votes'
    BY DEF CleanRequest
<1>3. \A x \in Txs : x # cleaning
    BY <1>1, SwiftAssumption
<1>4. TypeOK'
    <2>1. request' \in [Txs -> {"none", "tx", "empty"}] /\ rejected' \subseteq Txs
        BY DEF CleanRequest, TypeOK
    <2>2. locked' \in [Outs -> Txs \cup {NULL}]
        BY DEF CleanRequest, TypeOK
    <2> QED
        BY <1>1, <1>2, <2>1, <2>2 DEF TypeOK, chain
<1>5. CountedOnce'
    BY <1>1, <1>3 DEF CountedOnce
<1>6. SigsInv'
    <2> SUFFICES ASSUME NEW x \in Txs, NEW s \in lock[x].sigs
                 PROVE  /\ x # t => <<s.mn, x>> \in votes'
                        /\ Ranked(s.mn, s.height)
        BY <1>1 DEF SigsInv, Ranked
    <2>1. <<s.mn, x>> \in votes
        BY <1>3 DEF SigsInv
    <2>2. x # t => <<s.mn, x>> \in votes'
        BY <1>2, <2>1
    <2> QED
        BY <2>2 DEF SigsInv
<1>7. PendingInv'
    <2> SUFFICES ASSUME pc = "vote"
                 PROVE  /\ <<subject.mn, subject.tx>> \in votes'
                        /\ subject.tx # t => \A s \in lock[subject.tx].sigs : s.mn # subject.mn
        BY <1>1 DEF PendingInv
    <2>1. subject.tx \in Txs
        BY DEF TypeOK, Votes
    <2>2. \A s \in lock[subject.tx].sigs : s.mn # subject.mn
        BY <1>3, <2>1 DEF PendingInv
    <2>3. <<subject.mn, subject.tx>> \notin {<<s.mn, t>> : s \in lock[t].sigs}
        BY <2>2
    <2> QED
        BY <1>2, <2>2, <2>3 DEF PendingInv
<1>8. PoolInv' /\ HeldInv'
    BY <1>1, ChainFrame
<1> QED
    BY <1>4, <1>5, <1>6, <1>7, <1>8

\* The old lock goes, and its votes with it.
LEMMA CleanLockInv ==
    ASSUME Inv, CleanLock
    PROVE  Inv'
<1> USE DEF Inv
<1>1. cleaning \in Txs /\ cleaning' = NULL
    BY DEF CleanLock, TypeOK
<1>2. /\ lock' \in [Txs -> Locks \cup {NoLock}]
      /\ lock'[cleaning].sigs = {}
      /\ \A x \in Txs \ {cleaning} : lock'[x] = lock[x]
    BY <1>1 DEF CleanLock, TypeOK, NoLock
<1>3. TypeOK'
    BY <1>1, <1>2 DEF CleanLock, TypeOK, chain, handler
<1>4. CountedOnce'
    BY <1>2 DEF CountedOnce
<1>5. SigsInv'
    BY <1>2 DEF CleanLock, SigsInv, Ranked
<1>6. PendingInv'
    <2> SUFFICES ASSUME pc = "vote"
                 PROVE  PendingInv'
        BY DEF CleanLock, handler, PendingInv
    <2>1. subject.tx \in Txs
        BY DEF TypeOK, Votes
    <2> QED
        BY <1>2, <2>1 DEF CleanLock, handler, PendingInv
<1>7. PoolInv' /\ HeldInv'
    BY ChainFrame DEF CleanLock, handler
<1> QED
    BY <1>3, <1>4, <1>5, <1>6, <1>7

\* A step that changes nothing.
LEMMA StutterInv ==
    ASSUME Inv, UNCHANGED vars
    PROVE  Inv'
<1> USE DEF Inv
<1>1. UNCHANGED <<request, rejected, lock, votes, locked, pool, mined, lost, signed>>
    BY DEF vars, maps, chain
<1>2. UNCHANGED <<pc, subject, height, cleaning>>
    BY DEF vars, handler
<1>3. TypeOK'
    BY <1>1, <1>2 DEF TypeOK
<1>4. CountedOnce' /\ SigsInv' /\ PendingInv'
    BY <1>1, <1>2, CountedFrame, SigsFrame, PendingFrame DEF SigsKept
<1>5. PoolInv' /\ HeldInv'
    BY <1>1, <1>2, ChainFrame DEF chain
<1> QED
    BY <1>3, <1>4, <1>5

---------------------------------------------------------------------------
(* The theorems. *)

\* Every step preserves the invariant.
LEMMA NextInv == Inv /\ [Next]_vars => Inv'
<1> SUFFICES ASSUME Inv, [Next]_vars
             PROVE  Inv'
    OBVIOUS
<1> USE SwiftAssumption
<1>1. ASSUME NEW t \in Requested, RequestArrives(t) PROVE Inv'
    BY <1>1, RequestArrivesInv
<1>2. ASSUME NEW t \in Own, WalletRequest(t) PROVE Inv'
    BY <1>2, WalletRequestInv
<1>3. ASSUME NEW v \in Sent, VoteArrives(v) PROVE Inv'
    BY <1>3, VoteArrivesInv
<1>4. CASE MessageHandler
    BY <1>4, AcceptRequestInv, RequestAcceptedInv, RequestRefusedInv, DropVoteInv,
       CountVoteInv DEF MessageHandler
<1>5. CASE Cleaner
    BY <1>5, CleanLockInv, CleanRequestInv DEF Cleaner
<1>6. ASSUME NEW t \in Txs, TxArrives(t) \/ Mine(t) \/ Undo(t) \/ Expire(t) PROVE Inv'
    BY <1>6, TxArrivesInv, MineInv, UndoInv, ExpireInv
<1>7. CASE ClearPool \/ Restart
    BY <1>7, ClearPoolInv, RestartInv
<1>8. CASE Rest \/ UNCHANGED vars
    BY <1>8, StutterInv DEF Rest
<1> QED
    BY <1>1, <1>2, <1>3, <1>4, <1>5, <1>6, <1>7, <1>8 DEF Next

\* The inductive invariant of the transaction locks always holds.
THEOREM Invariance == Spec => []Inv
BY InitInv, NextInv, PTL DEF Spec

\* The lock maps, the handler and the votes keep their shape.
THEOREM TypeCorrect == Spec => []TypeOK
<1>1. Inv => TypeOK
    BY DEF Inv
<1> QED
    BY <1>1, Invariance, PTL

\* A masternode's vote counts once in a lock, however votes are repeated and forgotten.
THEOREM VotesCountOnce == Spec => []CountedOnce
<1>1. Inv => CountedOnce
    BY DEF Inv
<1> QED
    BY <1>1, Invariance, PTL

\* This node votes for two conflicting transactions that can both be mined only after it has
\* let one of them go.
THEOREM OwnVotesNeedLoss == Spec => []OwnVotesAgree
<1>1. Inv => OwnVotesAgree
    BY DEF Inv, HeldInv, Held, PoolInv, OwnVotesAgree
<1> QED
    BY <1>1, Invariance, PTL

\* The masternodes behind a complete lock: as many as it takes, of the quorum at its height,
\* and the node remembers a vote of each.
LEMMA Signers ==
    ASSUME Inv, NEW t \in Txs, t # cleaning, Complete(t)
    PROVE  \E M \in SUBSET Top[lock[t].height] :
             /\ IsFiniteSet(M)
             /\ Cardinality(M) >= Required
             /\ \A m \in M : <<m, t>> \in votes
<1> USE DEF Inv
<1> DEFINE h == lock[t].height
           S == {s \in lock[t].sigs : s.height = h}
           M == {s.mn : s \in S}
           f == [s \in S |-> s.mn]
<1>1. h \in Heights /\ Cardinality(S) >= Required
    BY DEF Complete, IsComplete
<1>2. \A s \in S : s.mn \in Top[h] /\ <<s.mn, t>> \in votes
    BY <1>1 DEF SigsInv, Ranked
<1>3. M \in SUBSET Top[h]
    BY <1>2
<1>4. IsFiniteSet(M)
    BY <1>1, <1>3, QuorumAssumption, FS_Subset
<1>5. f \in Injection(S, M)
    BY DEF CountedOnce, Injection, IsInjective
<1>6. f \in Surjection(S, M)
    BY DEF Surjection
<1>7. Cardinality(M) = Cardinality(S)
    <2> HIDE DEF f, M, S
    <2> QED
        BY <1>4, <1>5, <1>6, FS_Injection
<1>8. \A m \in M : <<m, t>> \in votes
    BY <1>2
<1> QED
    BY <1>1, <1>3, <1>4, <1>7, <1>8

\* Two conflicting transactions are locked at one height only if as many masternodes as two
\* quorums must share have voted for both, whoever they are and whatever they run.
THEOREM ConflictsShowVoters == Spec => []ConflictsShareVoters
<1>1. Inv => ConflictsShareVoters
    <2> SUFFICES ASSUME Inv,
                        NEW t \in Txs, NEW u \in Txs, t # cleaning, u # cleaning,
                        lock[u].height = lock[t].height, Complete(t), Complete(u)
                 PROVE  Cardinality(DoubleVoters(t, u, lock[t].height))
                            >= 2 * Required - Cardinality(Top[lock[t].height])
        BY DEF ConflictsShareVoters
    <2> DEFINE U == Top[lock[t].height]
               D == DoubleVoters(t, u, lock[t].height)
    <2>1. PICK M \in SUBSET U :
            /\ IsFiniteSet(M) /\ Cardinality(M) >= Required
            /\ \A m \in M : <<m, t>> \in votes
        BY Signers
    <2>2. PICK N \in SUBSET U :
            /\ IsFiniteSet(N) /\ Cardinality(N) >= Required
            /\ \A m \in N : <<m, u>> \in votes
        BY Signers
    <2>3. IsFiniteSet(U)
        BY QuorumAssumption DEF Complete, IsComplete
    <2>4. D \subseteq U /\ M \cap N \subseteq D /\ M \cup N \subseteq U
        BY <2>1, <2>2 DEF DoubleVoters
    <2> HIDE DEF U, D
    <2>5. /\ IsFiniteSet(M \cup N) /\ IsFiniteSet(M \cap N) /\ IsFiniteSet(D)
          /\ Cardinality(M \cap N) <= Cardinality(D)
          /\ Cardinality(M \cup N) <= Cardinality(U)
        BY <2>1, <2>2, <2>3, <2>4, FS_Subset, FS_Union, FS_Intersection
    <2>6. Cardinality(M \cup N) = Cardinality(M) + Cardinality(N) - Cardinality(M \cap N)
        BY <2>1, <2>2, FS_Union
    <2>7. /\ Cardinality(M) \in Nat /\ Cardinality(N) \in Nat /\ Cardinality(U) \in Nat
          /\ Cardinality(M \cap N) \in Nat /\ Cardinality(D) \in Nat /\ Required \in Nat
        BY <2>1, <2>2, <2>3, <2>5, FS_CardinalityType, SwiftAssumption
    <2>8. Cardinality(D) >= 2 * Required - Cardinality(U)
        BY <2>1, <2>2, <2>5, <2>6, <2>7
    <2> QED
        BY <2>8 DEF U, D
<1> QED
    BY <1>1, Invariance, PTL

=============================================================================
