------------------------------ MODULE Mempool ------------------------------
(***************************************************************************)
(* The memory pool (txmempool.cpp) and the orphan transactions (main.cpp)  *)
(* beside the active chain.                                                *)
(*                                                                         *)
(* pcoinsTip is taken from module ChainState as what it is shown to be:    *)
(* the unspent outputs of the chain that ends in the block it stands at.   *)
(* Everything here happens under cs_main; a handler that changes the pool  *)
(* in several steps (a block being disconnected, orphans being tried) is   *)
(* several actions here, because mempool.check() looks in between.         *)
(*                                                                         *)
(* Simplifications.  A transaction that fits may still be refused: fees,   *)
(* priority, standardness, scripts, transaction locks and the size limit   *)
(* of orphans are that choice.  A refusal that changes nothing is a        *)
(* stuttering step.  mapDeltas, sizes and the fee estimator are left out.  *)
(***************************************************************************)
EXTENDS BlockTree, Sequences

CONSTANTS
    Txs,         \* transactions, by hash
    Of,          \* Of[o]: the transaction that output o belongs to
    Vin,         \* Vin[t]: the outputs t spends; none for a coinbase or a zerocoin spend
    BlockTxs,    \* BlockTxs[b]: vtx of block b
    Generated,   \* coinbases and coinstakes
    ZSpends,     \* zerocoin spends
    Serial,      \* Serial[z]: the serial number zerocoin spend z reveals
    Maturity,    \* COINBASE_MATURITY
    Peers,
    MaxOrphans,  \* -maxorphantx
    None

InBlock(b) == {BlockTxs[b][i] : i \in 1..Len(BlockTxs[b])}

Inputs(S) == UNION {Vin[t] : t \in S}

Outputs(S) == {o \in Outpoints : Of[o] \in S}

\* Transactions have distinct hashes, and a chain holds each at most once (BIP30).
ASSUME TxAssumption ==
    /\ IsFiniteSet(Txs) /\ None \notin Txs /\ None \notin Peers
    /\ Of \in [Outpoints -> Txs]
    /\ Vin \in [Txs -> SUBSET Outpoints]
    /\ Generated \subseteq Txs /\ ZSpends \subseteq Txs \ Generated
    /\ \A t \in Txs \ Generated : Vin[t] = {} <=> t \in ZSpends
    /\ BlockTxs \in [Blocks -> Seq(Txs)]
    /\ Creates[Genesis] \subseteq Outputs(InBlock(Genesis))
    /\ Inputs(InBlock(Genesis)) = {}
    /\ \A b \in Blocks \ {Genesis} :
          /\ Creates[b] = Outputs(InBlock(b)) \ Inputs(InBlock(b))
          /\ Spends[b] = Inputs(InBlock(b)) \ Outputs(InBlock(b))
          /\ \A a \in Chain[Parent[b]] : InBlock(a) \cap InBlock(b) = {}
    /\ Maturity \in Nat /\ MaxOrphans \in Nat

VARIABLES
    tip,       \* chainActive.Tip()
    best,      \* the block pcoinsTip stands at
    pool,      \* mapTx
    nextTx,    \* mapNextTx: the transaction of the pool that spends an output
    undo,      \* transactions of the block being disconnected, still to be resurrected
    orphans,   \* mapOrphanTransactions: the peer an orphan came from, or None
    byPrev,    \* mapOrphanTransactionsByPrev
    loop       \* the locals of the "tx" handler while it tries orphans, or None

chain == <<tip, best, undo>>
vars == <<chain, pool, nextTx, orphans, byPrev, loop>>

Init ==
    /\ tip = Genesis /\ best = Genesis /\ undo = <<>>
    /\ pool = {}
    /\ nextTx = [o \in Outpoints |-> None]
    /\ orphans = [t \in Txs |-> None]
    /\ byPrev = [t \in Txs |-> {}]
    /\ loop = None

\* No handler has cs_main.
Idle == tip = best /\ loop = None

---------------------------------------------------------------------------
(* pcoinsTip and the view of the pool on top of it (CCoinsViewMemPool). *)

Coins == UnspentAt(best)

ConfirmedAt(b) == UNION {InBlock(a) : a \in Chain[b]}

\* Transactions of the chain pcoinsTip stands at.
Confirmed == ConfirmedAt(best)

HaveCoins(t) == t \in pool \/ \E o \in Coins : Of[o] = t

HaveInputs(t) == \A o \in Vin[t] : Of[o] \in pool \/ o \in Coins

\* nSpendHeight - coins->nHeight >= COINBASE_MATURITY for a coin of the chain.  The coins
\* of the root are old.
Mature(o) ==
    Of[o] \in Generated =>
        \A b \in Chain[best] \ {Genesis} : o \in Creates[b] => (Height[best] + 1) - Height[b] >= Maturity

SerialSpent(s) == \E z \in ZSpends \cap Confirmed : Serial[z] = s

Conflicts(t) == {u \in Txs \ {t} : \E o \in Vin[t] : nextTx[o] = u}

---------------------------------------------------------------------------
(* AcceptToMemoryPool. *)

\* What is checked before the inputs are looked up.
Loose(t) == t \notin Generated /\ t \notin pool /\ Conflicts(t) = {}

MissingInputs(t) ==
    /\ Loose(t) /\ t \notin ZSpends
    /\ ~HaveCoins(t)
    /\ \E o \in Vin[t] : ~HaveCoins(Of[o])

Acceptable(t) ==
    /\ Loose(t)
    /\ IF t \in ZSpends
       THEN t \notin Confirmed /\ ~SerialSpent(Serial[t])
       ELSE /\ ~HaveCoins(t)
            /\ HaveInputs(t)
            /\ \A o \in Vin[t] : Of[o] \in pool \/ Mature(o)

\* addUnchecked
Add(t) ==
    /\ pool' = pool \cup {t}
    /\ nextTx' = [o \in Outpoints |-> IF o \in Vin[t] THEN t ELSE nextTx[o]]

\* sendrawtransaction, the wallet, an "ix" message: no orphans are tried.
AcceptLocal(t) ==
    /\ Idle /\ Acceptable(t)
    /\ Add(t)
    /\ UNCHANGED <<chain, orphans, byPrev, loop>>

---------------------------------------------------------------------------
(* CTxMemPool::remove and its callers. *)

Spenders(S) == {u \in Txs : \E o \in Outputs(S) : nextTx[o] = u}

\* Mistake: the children of a transaction that is not in the pool are not looked for.
ReachedInPool(S) ==
    {u \in pool :
        \A C \in SUBSET pool : S \cap pool \subseteq C /\ Spenders(C) \subseteq C => u \in C}

\* What a recursive removal of the transactions of S goes through: S, if it is in the
\* pool or not, and whatever spends an output of what it has reached.
Reached(S) ==
    {u \in S \cup pool :
        \A C \in SUBSET (S \cup pool) : S \subseteq C /\ Spenders(C) \subseteq C => u \in C}

\* Mistake: only the inputs of the transaction that was named are unlinked.
UnlinkFirst(R, S) == [o \in Outpoints |-> IF o \in Inputs(S \cap R) THEN None ELSE nextTx[o]]

\* mapNextTx.erase for the inputs of every removed transaction of R.
Unlink(R, S) == [o \in Outpoints |-> IF o \in Inputs(R \cap pool) THEN None ELSE nextTx[o]]

RemoveRecursive(S) ==
    /\ pool' = pool \ Reached(S)
    /\ nextTx' = Unlink(Reached(S), S)

\* Mistake: a transaction of the block is only looked at as a conflict of others.
ConflictsOnly(b) == UNION {Reached(Conflicts(t)) : t \in InBlock(b)}

\* removeForBlock: the block's transactions, and what conflicts with one of them with
\* everything that depends on it.
RemovedBy(b) == InBlock(b) \cup UNION {Reached(Conflicts(t)) : t \in InBlock(b)}

---------------------------------------------------------------------------
(* The chain moves. *)

\* ConnectBlock spends unspent outputs only, each once.
Connectable(b) ==
    /\ Spends[b] \subseteq Coins
    /\ \A i, j \in 1..Len(BlockTxs[b]) :
          i # j => /\ Vin[BlockTxs[b][i]] \cap Vin[BlockTxs[b][j]] = {}
                   /\ BlockTxs[b][i] # BlockTxs[b][j]
    /\ \A z, y \in InBlock(b) \cap ZSpends : z # y => Serial[z] # Serial[y]
    /\ \A z \in InBlock(b) \cap ZSpends : ~SerialSpent(Serial[z])

ConnectTip(b) ==
    /\ Idle
    /\ b # Genesis /\ Parent[b] = tip
    /\ Connectable(b)
    /\ pool' = pool \ RemovedBy(b)
    /\ nextTx' = Unlink(RemovedBy(b), InBlock(b))
    /\ tip' = b /\ best' = b
    /\ UNCHANGED <<undo, orphans, byPrev, loop>>

\* DisconnectTip up to the flush of pcoinsTip.
DisconnectTip ==
    /\ Idle
    /\ tip # Genesis
    /\ best' = Parent[tip]
    /\ undo' = BlockTxs[tip]
    /\ UNCHANGED <<tip, pool, nextTx, orphans, byPrev, loop>>

\* The loop of DisconnectTip over block.vtx.
Resurrect ==
    /\ undo # <<>>
    /\ LET t == Head(undo)
       IN  \/ Acceptable(t) /\ Add(t)
           \/ RemoveRecursive({t})
    /\ undo' = Tail(undo)
    /\ UNCHANGED <<tip, best, orphans, byPrev, loop>>

\* Mistake: removeCoinbaseSpends counts from the old tip.
MatureAtOldTip(o) ==
    Of[o] \in Generated =>
        \A b \in Chain[best] \ {Genesis} : o \in Creates[b] => (Height[tip] + 1) - Height[b] >= Maturity

MatureInPool(o) == Mature(o)

\* removeCoinbaseSpends: spends of coins that are immature again.  AccessCoins finds no
\* coins for a zerocoin spend, whose input is null, so every one of them goes as well.
CoinbaseSpends ==
    (ZSpends \cap pool)
    \cup {t \in pool : \E o \in Vin[t] : Of[o] \notin pool /\ ~MatureInPool(o)}

\* The rest of DisconnectTip.
FinishDisconnect ==
    /\ tip # best /\ undo = <<>>
    /\ RemoveRecursive(CoinbaseSpends)
    /\ tip' = best
    /\ UNCHANGED <<best, undo, orphans, byPrev, loop>>

\* CreateNewBlock: its template fails TestBlockValidity.
ClearPool ==
    /\ Idle
    /\ pool' = {}
    /\ nextTx' = [o \in Outpoints |-> None]
    /\ UNCHANGED <<chain, orphans, byPrev, loop>>

---------------------------------------------------------------------------
(* Orphans. *)

Known == {t \in Txs : orphans[t] # None}

Prevs(t) == {Of[o] : o \in Vin[t]}

\* Mistake: an orphan is taken from the sets of parents that are missing only.
StillMissing(t) == {u \in Prevs(t) : ~HaveCoins(u)}

\* The parents whose sets EraseOrphanTx takes t from.
Indexed(t) == Prevs(t)

\* EraseOrphanTx for every orphan of E.
EraseOrphans(E) ==
    /\ orphans' = [t \in Txs |-> IF t \in E THEN None ELSE orphans[t]]
    /\ byPrev' = [u \in Txs |-> byPrev[u] \ {t \in E \cap Known : u \in Indexed(t)}]

\* AddOrphanTx, then LimitOrphanTxSize, which evicts at random.
AddOrphan(t, p) ==
    LET from == IF t \in Known THEN orphans[t] ELSE p
        all == Known \cup {t}
    IN  \E E \in SUBSET all :
          /\ Cardinality(all \ E) <= MaxOrphans
          /\ \A x \in E : Cardinality(all \ E) + 1 > MaxOrphans
          /\ orphans' = [x \in Txs |-> IF x \in E THEN None ELSE IF x = t THEN from ELSE orphans[x]]
          /\ byPrev' = [u \in Txs |-> (byPrev[u] \cup {x \in {t} : u \in Prevs(x)})
                                          \ {x \in E : u \in Indexed(x)}]

\* The "tx" message.  An accepted transaction opens the loop over its orphans.
Tx(t, p) ==
    /\ Idle
    /\ \/ /\ Acceptable(t)
          /\ Add(t)
          /\ loop' = IF t \in ZSpends THEN None
                     ELSE [work |-> <<t>>, cur |-> {}, erase |-> {}, bad |-> {}]
          /\ UNCHANGED <<orphans, byPrev>>
       \/ /\ MissingInputs(t)
          /\ AddOrphan(t, p)
          /\ UNCHANGED <<pool, nextTx, loop>>
    /\ UNCHANGED chain

\* The next entry of vWorkQueue: the orphans that wait for it.
NextParent ==
    /\ loop # None /\ loop.cur = {} /\ loop.work # <<>>
    /\ loop' = [loop EXCEPT !.cur = byPrev[Head(loop.work)], !.work = Tail(loop.work)]
    /\ UNCHANGED <<chain, pool, nextTx, orphans, byPrev>>

\* One orphan of the set.  A peer whose orphan was invalid is not tried again.
TryOrphan(t) ==
    /\ loop # None /\ t \in loop.cur
    /\ \/ /\ orphans[t] \in loop.bad \/ MissingInputs(t)
          /\ loop' = [loop EXCEPT !.cur = @ \ {t}]
          /\ UNCHANGED <<pool, nextTx>>
       \/ /\ orphans[t] \notin loop.bad /\ Acceptable(t)
          /\ Add(t)
          /\ loop' = [work |-> Append(loop.work, t), cur |-> loop.cur \ {t},
                       erase |-> loop.erase \cup {t}, bad |-> loop.bad]
       \/ /\ orphans[t] \notin loop.bad
          /\ \E bad \in {loop.bad, loop.bad \cup {orphans[t]}} :
                loop' = [work |-> loop.work, cur |-> loop.cur \ {t},
                         erase |-> loop.erase \cup {t}, bad |-> bad]
          /\ UNCHANGED <<pool, nextTx>>
    /\ UNCHANGED <<chain, orphans, byPrev>>

\* vEraseQueue
FinishOrphans ==
    /\ loop # None /\ loop.cur = {} /\ loop.work = <<>>
    /\ EraseOrphans(loop.erase)
    /\ loop' = None
    /\ UNCHANGED <<chain, pool, nextTx>>

\* FinalizeNode: EraseOrphansFor.
PeerGone(p) ==
    /\ Idle
    /\ EraseOrphans({t \in Txs : orphans[t] = p})
    /\ UNCHANGED <<chain, pool, nextTx, loop>>

---------------------------------------------------------------------------

Next ==
    \/ \E t \in Txs : AcceptLocal(t)
    \/ \E t \in Txs, p \in Peers : Tx(t, p)
    \/ NextParent
    \/ \E t \in Txs : TryOrphan(t)
    \/ FinishOrphans
    \/ \E p \in Peers : PeerGone(p)
    \/ \E b \in Blocks : ConnectTip(b)
    \/ DisconnectTip
    \/ Resurrect
    \/ FinishDisconnect
    \/ ClearPool

Spec == Init /\ [][Next]_vars

---------------------------------------------------------------------------
(* What is checked. *)

Loops == [work : Seq(Txs), cur : SUBSET Txs, erase : SUBSET Txs, bad : SUBSET Peers]

TypeOK ==
    /\ tip \in Blocks /\ best \in Blocks /\ undo \in Seq(Txs)
    /\ pool \subseteq Txs
    /\ nextTx \in [Outpoints -> Txs \cup {None}]
    /\ orphans \in [Txs -> Peers \cup {None}]
    /\ byPrev \in [Txs -> SUBSET Txs]
    /\ loop = None \/ loop \in Loops

\* mapNextTx holds the inputs of the pool's transactions and nothing else, so no output is
\* spent twice in the pool, at every step of a reorganisation (CTxMemPool::check).
NextTxExact ==
    \A o \in Outpoints, t \in Txs : nextTx[o] = t <=> t \in pool /\ o \in Vin[t]

\* Every input of the pool is an output of the pool or an unspent coin of the active chain,
\* through conflicts, reorganisations and orphans (CTxMemPool::check).
InputsAvailable == tip = best => \A t \in pool : HaveInputs(t)

\* Nothing in the pool spends a coinbase or coinstake that is immature at the next height.
NoImmatureSpend ==
    tip = best => \A t \in pool : \A o \in Vin[t] : Of[o] \in pool \/ Mature(o)

\* A transaction of the chain is not in the pool, although AcceptToMemoryPool knows it only
\* by the outputs it has left unspent.
NotConfirmed == pool \cap Confirmed = {}

\* The index by parent is exact, an orphan is tried only while it is known, and the limit
\* holds (AddOrphanTx, EraseOrphanTx, the loop of the "tx" handler).
OrphanIndex ==
    /\ \A t, u \in Txs : t \in byPrev[u] <=> t \in Known /\ u \in Prevs(t)
    /\ loop # None => loop.cur \subseteq Known
    /\ Cardinality(Known) <= MaxOrphans

=============================================================================
