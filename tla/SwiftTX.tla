------------------------------ MODULE SwiftTX ------------------------------
(***************************************************************************)
(* Transaction locks (swifttx.cpp) at one node, which may be a masternode. *)
(* A lock request ("ix") makes it lock a transaction's inputs once enough  *)
(* votes ("txlvote") of the masternodes that rank first at the             *)
(* transaction's height have come in.  Three threads work on the same maps *)
(* without a lock: the message handler, the Obfuscation thread, which      *)
(* erases old locks, and the wallet, which sends requests.                 *)
(*                                                                         *)
(* One action is what a thread does between two points where the other     *)
(* threads matter: a request is turned into a lock, then offered to the    *)
(* memory pool under cs_main, then voted on or refused; a vote is          *)
(* remembered, then checked and counted; an old lock loses what belongs to *)
(* it, then goes itself.  Operations on the maps are taken to be atomic.   *)
(*                                                                         *)
(* Messages are lost, repeated and reordered: a request or a vote may      *)
(* arrive at any time.  Blocks may be undone, CreateNewBlock may empty the *)
(* memory pool, and the node may restart, with every map and the pool      *)
(* empty, while its votes are out in the network.  Other masternodes vote  *)
(* as they like: nothing is assumed of their pools.                        *)
(*                                                                         *)
(* Simplifications: the masternodes that rank within                       *)
(* SWIFTTX_SIGNATURES_TOTAL at a height are the same everywhere (Top), and *)
(* transactions spend each other's outputs only when these are mined.      *)
(* ReprocessBlocks is in ChainState; the relay of votes, its spam filter   *)
(* and the script checks of a request are left out.                        *)
(***************************************************************************)
EXTENDS Integers, FiniteSets

CONSTANTS
    Txs, Outs,
    Inputs,        \* Inputs[t]: the outputs transaction t spends
    Masternodes,
    Me,            \* this node's masternode, or NULL
    Requested,     \* transactions whose senders ask for a lock
    Own,           \* those of this node's wallet
    Heights,       \* block heights at which masternodes are ranked
    LockHeights,   \* LockHeights[t]: what CreateNewLock can return for t
    Top,           \* Top[h]: masternodes of rank 1 .. SWIFTTX_SIGNATURES_TOTAL at h
    Required,      \* SWIFTTX_SIGNATURES_REQUIRED
    NULL

ASSUME SwiftAssumption ==
    /\ Inputs \in [Txs -> SUBSET Outs]
    /\ NULL \notin Txs \cup Masternodes
    /\ Me \in Masternodes \cup {NULL}
    /\ Own \subseteq Requested /\ Requested \subseteq Txs
    /\ Heights \subseteq Nat \ {0}
    /\ LockHeights \in [Txs -> SUBSET (Heights \cup {0})]
    /\ Top \in [Heights -> SUBSET Masternodes]
    /\ Required \in Nat

\* 10 masternodes, 6 votes.
ASSUME QuorumAssumption ==
    \A h \in Heights : IsFiniteSet(Top[h]) /\ Cardinality(Top[h]) < 2 * Required

VARIABLES
    request,     \* mapTxLockReq: no entry, the transaction, or an empty transaction
    rejected,    \* mapTxLockReqRejected
    lock,        \* mapTxLocks
    votes,       \* keys of mapTxLockVote: masternode and transaction
    locked,      \* mapLockedInputs: output -> transaction, or NULL
    pool,        \* the memory pool
    mined,       \* transactions in the active chain
    lost,        \* history: what this node has voted for and let go of since
    signed,      \* votes of this node's masternode, those before a restart too
    pc, subject, \* the message handler: where it is, and the transaction or vote
    height,      \* nBlockHeight in the handler of "ix"
    cleaning     \* the lock CleanTransactionLocksList is erasing, or NULL

maps == <<request, rejected, lock, votes, locked>>
chain == <<pool, mined, lost>>
handler == <<pc, subject, height>>
vars == <<maps, chain, signed, handler, cleaning>>

Votes == [mn : Masternodes, tx : Txs, height : Heights \cup {0}]

\* vecConsensusVotes as a set: again marks the second copy of a vote.
Entries == [mn : Masternodes, height : Heights \cup {0}, again : BOOLEAN]

\* due: nExpiration has passed.
Locks == [height : Heights \cup {0}, sigs : SUBSET Entries, due : BOOLEAN]

NoLock == [height |-> -1, sigs |-> {}, due |-> FALSE]

NoRequests == [t \in Txs |-> "none"]
NoLocks == [t \in Txs |-> NoLock]
NothingLocked == [o \in Outs |-> NULL]

Init ==
    /\ request = NoRequests
    /\ rejected = {}
    /\ lock = NoLocks
    /\ votes = {}
    /\ locked = NothingLocked
    /\ pool = {} /\ mined = {} /\ lost = {}
    /\ signed = {}
    /\ pc = "idle" /\ subject = NULL /\ height = 0
    /\ cleaning = NULL

---------------------------------------------------------------------------
(* Conflicts, the memory pool and the chain. *)

Conflict(t, u) == t # u /\ Inputs[t] \cap Inputs[u] # {}

\* A transaction the chain has made impossible.
Dead(t) == \E u \in mined : Conflict(t, u)

\* No input of t is locked for another transaction.
NotLockedOut(t) == \A o \in Inputs[t] : locked[o] \in {NULL, t}

\* Mistake: transactions of the pool are not looked at.
AcceptableToChain(t) ==
    /\ t \notin pool \cup mined
    /\ NotLockedOut(t)
    /\ \A u \in mined : ~Conflict(t, u)

\* AcceptToMemoryPool: t is not there yet, no input is locked for another transaction or
\* spent in the pool or the chain.
Acceptable(t) ==
    /\ t \notin pool \cup mined
    /\ NotLockedOut(t)
    /\ \A u \in pool \cup mined : ~Conflict(t, u)

\* What this node has voted for.
Voted == {v.tx : v \in signed}

\* t enters the pool.
Enter(t) ==
    /\ pool' = pool \cup {t}
    /\ lost' = lost \ {t}

\* An ordinary "tx" message, or a transaction the wallet offers again after a start.
TxArrives(t) ==
    /\ Acceptable(t)
    /\ Enter(t)
    /\ UNCHANGED <<maps, mined, signed, handler, cleaning>>

\* A block with t is connected.  CheckBlock refuses one that conflicts with a lock it sees,
\* but a lock may complete after the check, and the filter can be off.
Mine(t) ==
    /\ t \notin mined
    /\ ~Dead(t)
    /\ mined' = mined \cup {t}
    /\ pool' = {u \in pool : u # t /\ ~Conflict(u, t)}
    /\ lost' = lost \ {t}
    /\ UNCHANGED <<maps, signed, handler, cleaning>>

\* The block with t is disconnected, and t goes back to the pool if it takes it.  What t
\* had made impossible is possible again, but nobody brings it back.
Undo(t) ==
    /\ t \in mined
    /\ mined' = mined \ {t}
    /\ \/ NotLockedOut(t) /\ pool' = pool \cup {t}
       \/ UNCHANGED pool
    /\ lost' = (lost \cup {u \in Voted : u = t \/ Conflict(u, t)}) \ pool'
    /\ UNCHANGED <<maps, signed, handler, cleaning>>

\* CreateNewBlock made a block that is not valid, and empties the pool.
ClearPool ==
    /\ pool' = {}
    /\ lost' = lost \cup (pool \cap Voted)
    /\ UNCHANGED <<maps, mined, signed, handler, cleaning>>

---------------------------------------------------------------------------
(* Locks. *)

\* GetMasternodeRank(m, h) <= SWIFTTX_SIGNATURES_TOTAL; height 0 ranks at the tip, where
\* any masternode may come first.
Ranked(m, h) == h \in Heights => m \in Top[h]

\* Mistake: one vote less is taken to be enough.
OneVoteShort(lk, t) ==
    /\ lk[t].height \in Heights
    /\ Cardinality({s \in lk[t].sigs : s.height = lk[t].height}) >= Required - 1

\* CountSignatures() >= SWIFTTX_SIGNATURES_REQUIRED, in the state lk of mapTxLocks.
IsComplete(lk, t) ==
    /\ lk[t].height \in Heights
    /\ Cardinality({s \in lk[t].sigs : s.height = lk[t].height}) >= Required

Complete(t) == IsComplete(lock, t)

\* CreateNewLock: h is 0 when an input is unknown or too young, and the lock, new or
\* already there from votes, gets the height of the transaction otherwise.
CreateNewLock(t, h) ==
    lock' = IF h = 0 THEN lock
            ELSE IF lock[t] = NoLock
            THEN [lock EXCEPT ![t] = [height |-> h, sigs |-> {}, due |-> FALSE]]
            ELSE [lock EXCEPT ![t].height = h]

\* CheckForConflictingLocks of t, whose inputs are ins, under the locked inputs lk: the
\* transactions that hold them.
Holders(lk, ins, t) == {lk[o] : o \in ins} \ {NULL, t}

\* Two locks cancel out: both are made to expire.
ExpireBoth(lk, t, u) ==
    [x \in Txs |-> IF x \in {t, u} /\ lk[x] # NoLock THEN [lk[x] EXCEPT !.due = TRUE] ELSE lk[x]]

\* Inputs nobody holds are locked for t.
LockInputs(t) ==
    [o \in Outs |-> IF o \in Inputs[t] /\ locked[o] = NULL THEN t ELSE locked[o]]

---------------------------------------------------------------------------
(* The handler of "ix". *)

RequestArrives(t) ==
    /\ pc = "idle"
    /\ request[t] = "none"
    /\ t \notin rejected
    /\ \E h \in LockHeights[t] : CreateNewLock(t, h) /\ height' = h
    /\ pc' = "request" /\ subject' = t
    /\ UNCHANGED <<request, rejected, votes, locked, chain, signed, cleaning>>

\* The pool may refuse a transaction for reasons of its own: missing inputs, fees.
AcceptRequest ==
    /\ pc = "request"
    /\ \/ Acceptable(subject) /\ Enter(subject) /\ pc' = "accepted"
       \/ pc' = "refused" /\ UNCHANGED <<pool, lost>>
    /\ UNCHANGED <<maps, mined, signed, subject, height, cleaning>>

Done == pc' = "idle" /\ subject' = NULL /\ height' = 0

Insert(t) == request' = [request EXCEPT ![t] = IF @ = "none" THEN "tx" ELSE @]

\* DoConsensusVote: this node votes when its masternode ranks high enough, whatever it has
\* voted for before.  Its vote is remembered, but not added to its own lock.
Vote(t) ==
    /\ Me # NULL
    /\ Ranked(Me, height)
    /\ votes' = votes \cup {<<Me, t>>}
    /\ signed' = signed \cup {[mn |-> Me, tx |-> t, height |-> height]}
    /\ lost' = IF t \in pool \cup mined \/ Dead(t) THEN lost ELSE lost \cup {t}

\* Not a masternode, or not ranked, or the vote cannot be signed.
NoVote == UNCHANGED <<votes, signed, lost>>

RequestAccepted ==
    /\ pc = "accepted"
    /\ Vote(subject) \/ NoVote
    /\ Insert(subject)
    /\ Done
    /\ UNCHANGED <<rejected, lock, locked, pool, mined, cleaning>>

\* The pool does not take the transaction: its free inputs are locked all the same, and
\* if its lock is complete and nothing conflicts, ReprocessBlocks runs.
RequestRefused ==
    LET t == subject
        holders == Holders(LockInputs(t), Inputs[t], t)
    IN
    /\ pc = "refused"
    /\ rejected' = rejected \cup {t}
    /\ locked' = LockInputs(t)
    /\ \/ /\ ~Complete(t)
          /\ UNCHANGED <<lock, request>>
       \/ /\ Complete(t)
          /\ \E u \in holders : lock' = ExpireBoth(lock, t, u)
          /\ UNCHANGED request
       \/ /\ Complete(t)
          /\ holders = {}
          /\ Insert(t)
          /\ UNCHANGED lock
    /\ Done
    /\ UNCHANGED <<votes, chain, signed, cleaning>>

---------------------------------------------------------------------------
(* The handler of "txlvote". *)

\* What peers may send: this node's own votes, and any of the other masternodes, which vote
\* for what their pools take at the moment.
Sent == signed \cup {v \in Votes : v.mn # Me /\ v.tx \in Requested /\ v.height \in LockHeights[v.tx]}

\* Mistake: votes that are known already are processed again.
VoteArrivesAgain(v) ==
    /\ pc = "idle"
    /\ votes' = votes \cup {<<v.mn, v.tx>>}
    /\ pc' = "vote" /\ subject' = v
    /\ UNCHANGED <<request, rejected, lock, locked, chain, signed, height, cleaning>>

\* The vote is remembered before it is checked.
VoteArrives(v) ==
    /\ pc = "idle"
    /\ <<v.mn, v.tx>> \notin votes
    /\ votes' = votes \cup {<<v.mn, v.tx>>}
    /\ pc' = "vote" /\ subject' = v
    /\ UNCHANGED <<request, rejected, lock, locked, chain, signed, height, cleaning>>

\* ProcessConsensusVote gives up: this node does not list the masternode yet, or has
\* another key for it, or ranks it too low.
DropVote ==
    /\ pc = "vote"
    /\ Done
    /\ UNCHANGED <<maps, chain, signed, cleaning>>

\* The lock of v's transaction once AddSignature has run.
WithVote(v) ==
    LET old == IF lock[v.tx] = NoLock
               THEN [height |-> 0, sigs |-> {}, due |-> FALSE] ELSE lock[v.tx]
        twice == \E s \in old.sigs : s.mn = v.mn /\ s.height = v.height
        new == [old EXCEPT !.sigs = @ \cup {[mn |-> v.mn, height |-> v.height, again |-> twice]}]
    IN  [lock EXCEPT ![v.tx] = new]

\* ProcessConsensusVote.  When the lock is complete mapTxLockReq[hash] is read, which makes
\* an empty transaction of a missing entry: that one conflicts with nothing and has no
\* inputs to lock.
CountVote ==
    LET v == subject
        lk == WithVote(v)
        ins == IF request[v.tx] = "tx" THEN Inputs[v.tx] ELSE {}
        holders == Holders(locked, ins, v.tx)
    IN
    /\ pc = "vote"
    /\ Ranked(v.mn, v.height)
    /\ \/ /\ ~IsComplete(lk, v.tx)
          /\ lock' = lk
          /\ UNCHANGED <<request, locked>>
       \/ /\ IsComplete(lk, v.tx)
          /\ \E u \in holders : lock' = ExpireBoth(lk, v.tx, u)
          /\ UNCHANGED <<request, locked>>
       \/ /\ IsComplete(lk, v.tx)
          /\ holders = {}
          /\ lock' = lk
          /\ request' = [request EXCEPT ![v.tx] = IF @ = "none" THEN "empty" ELSE @]
          /\ locked' = IF request[v.tx] = "tx" THEN LockInputs(v.tx) ELSE locked
    /\ Done
    /\ UNCHANGED <<rejected, votes, chain, signed, cleaning>>

---------------------------------------------------------------------------
(* Expiry, the wallet and restarts. *)

\* An hour passes.
Expire(t) ==
    /\ lock[t] # NoLock
    /\ ~lock[t].due
    /\ lock' = [lock EXCEPT ![t].due = TRUE]
    /\ UNCHANGED <<request, rejected, votes, locked, chain, signed, handler, cleaning>>

\* CleanTransactionLocksList at an old lock: what belongs to it goes, if the request has an
\* entry.  Inputs of an empty transaction are none.
CleanRequest(t) ==
    /\ cleaning = NULL
    /\ lock[t] # NoLock /\ lock[t].due
    /\ cleaning' = t
    /\ IF request[t] = "none"
       THEN UNCHANGED <<request, rejected, votes, locked>>
       ELSE /\ locked' = [o \in Outs |->
                             IF request[t] = "tx" /\ o \in Inputs[t] THEN NULL ELSE locked[o]]
            /\ request' = [request EXCEPT ![t] = "none"]
            /\ rejected' = rejected \ {t}
            /\ votes' = votes \ {<<s.mn, t>> : s \in lock[t].sigs}
    /\ UNCHANGED <<lock, chain, signed, handler>>

CleanLock ==
    /\ cleaning # NULL
    /\ lock' = [lock EXCEPT ![cleaning] = NoLock]
    /\ cleaning' = NULL
    /\ UNCHANGED <<request, rejected, votes, locked, chain, signed, handler>>

\* CommitTransaction and RelayWalletTransaction("ix"): this node's own request.
WalletRequest(t) ==
    /\ Acceptable(t)
    /\ Enter(t)
    /\ Insert(t)
    /\ \E h \in LockHeights[t] : CreateNewLock(t, h)
    /\ UNCHANGED <<rejected, votes, locked, mined, signed, handler, cleaning>>

\* The node stops or crashes, and starts again: the maps and the pool are only in memory.
\* After a crash the chain is that of the last flush, which may be shorter.
Restart ==
    /\ request' = NoRequests
    /\ rejected' = {}
    /\ lock' = NoLocks
    /\ votes' = {}
    /\ locked' = NothingLocked
    /\ pool' = {}
    /\ mined' \in SUBSET mined
    /\ lost' = Voted \ mined'
    /\ Done
    /\ cleaning' = NULL
    /\ UNCHANGED signed

---------------------------------------------------------------------------
(* The specification. *)

MessageHandler ==
    \/ AcceptRequest
    \/ RequestAccepted
    \/ RequestRefused
    \/ DropVote
    \/ CountVote

Cleaner == CleanLock \/ \E t \in Txs : CleanRequest(t)

\* Nothing arrives.
Rest == pc = "idle" /\ cleaning = NULL /\ UNCHANGED vars

Next ==
    \/ \E t \in Requested : RequestArrives(t)
    \/ \E t \in Own : WalletRequest(t)
    \/ \E v \in Sent : VoteArrives(v)
    \/ MessageHandler
    \/ Cleaner
    \/ \E t \in Txs : TxArrives(t) \/ Mine(t) \/ Undo(t) \/ Expire(t)
    \/ ClearPool
    \/ Restart
    \/ Rest

Spec == Init /\ [][Next]_vars

\* The handler finishes what it began, time passes, and the Obfuscation thread runs.
Fairness ==
    /\ WF_vars(MessageHandler)
    /\ \A t \in Txs : WF_vars(Expire(t)) /\ WF_vars(CleanRequest(t))
    /\ WF_vars(CleanLock)

FairSpec == Spec /\ Fairness

---------------------------------------------------------------------------
(* What is checked. *)

TypeOK ==
    /\ request \in [Txs -> {"none", "tx", "empty"}]
    /\ rejected \subseteq Txs
    /\ lock \in [Txs -> Locks \cup {NoLock}]
    /\ votes \subseteq Masternodes \X Txs
    /\ locked \in [Outs -> Txs \cup {NULL}]
    /\ pool \subseteq Txs /\ mined \subseteq Txs /\ lost \subseteq Txs
    /\ signed \subseteq Votes
    /\ \/ pc = "idle" /\ subject = NULL
       \/ pc \in {"request", "accepted", "refused"} /\ subject \in Txs
       \/ pc = "vote" /\ subject \in Votes
    /\ height \in Heights \cup {0}
    /\ cleaning \in Txs \cup {NULL}

\* A masternode counts once in a lock, however often its vote is sent and whatever the
\* Obfuscation thread forgets; only a lock that is being erased may hold one twice.
CountedOnce ==
    \A t \in Txs \ {cleaning} :
        \A r, s \in lock[t].sigs : r.mn = s.mn => r = s

\* The masternodes of the quorum at h whose votes for t and for u this node remembers.
DoubleVoters(t, u, h) == {m \in Top[h] : <<m, t>> \in votes /\ <<m, u>> \in votes}

\* Two conflicting transactions are not both locked at one height unless masternodes of
\* their quorum, two of the ten if it takes six, have voted for both, and mapTxLockVote
\* shows which.
ConflictsShareVoters ==
    \A t, u \in Txs \ {cleaning} :
        LET h == lock[t].height IN
        Conflict(t, u) /\ lock[u].height = h /\ Complete(t) /\ Complete(u)
            => Cardinality(DoubleVoters(t, u, h)) >= 2 * Required - Cardinality(Top[h])

\* A node that runs this code is not one of them, although it does not look at its earlier
\* votes and its locks expire, unless it has let one of the two go: its pool was emptied, it
\* was restarted, or a block was undone.  Otherwise what it voted for is in its pool until
\* the chain decides.
OwnVotesAgree ==
    \A v, w \in signed :
        Conflict(v.tx, w.tx) => \/ Dead(v.tx) \/ Dead(w.tx)
                                \/ v.tx \in lost \/ w.tx \in lost

\* "Locks expire after 60 minutes": an input does not stay locked for ever.
LocksExpire == \A o \in Outs, t \in Txs : locked[o] = t ~> locked[o] # t

=============================================================================
