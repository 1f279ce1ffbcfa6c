--------------------------- MODULE Mempool_proofs ---------------------------
(***************************************************************************)
(* Proofs about the memory pool, for any transactions and any block tree.  *)
(*                                                                         *)
(* The invariant adds two things to what is checked: between the steps of  *)
(* a reorganisation an input may also belong to a transaction that is      *)
(* still to be resurrected, and the chain the node is at is sound.         *)
(***************************************************************************)
EXTENDS Mempool, FiniteSetTheorems, TLAPS

Members(s) == {s[i] : i \in 1..Len(s)}

Phase ==
    /\ SoundChain(tip) /\ SoundChain(best)
    /\ tip = best => undo = <<>>
    /\ tip # best => tip # Genesis /\ best = Parent[tip] /\ loop = None
    /\ Members(undo) \subseteq InBlock(tip)

Backed ==
    \A t \in pool : \A o \in Vin[t] : Of[o] \in pool \/ o \in Coins \/ Of[o] \in Members(undo)

PoolInv ==
    /\ Phase /\ Backed /\ NextTxExact /\ NotConfirmed /\ NoImmatureSpend
    /\ pool \cap Generated = {}

Inv == TypeOK /\ PoolInv /\ OrphanIndex

---------------------------------------------------------------------------
(* Chains and coins: what ChainState_proofs shows of them too. *)

\* A block's parent is a block, its chain is the block's chain without the block.
LEMMA ParentChain ==
    ASSUME NEW b \in Blocks \ {Genesis}
    PROVE  /\ Parent[b] \in Blocks
           /\ Chain[b] = Chain[Parent[b]] \cup {b}
           /\ b \notin Chain[Parent[b]]
           /\ Parent[b] \in Chain[b]
           /\ Chain[Parent[b]] = Chain[b] \ {b}
    BY TreeAssumption

\* What one more block adds to the outputs created and spent.
LEMMA OneMore ==
    ASSUME NEW b \in Blocks \ {Genesis}
    PROVE  /\ Created(b) = Created(Parent[b]) \cup Creates[b]
           /\ Spent(b) = Spent(Parent[b]) \cup Spends[b]
    BY ParentChain DEF Created, Spent

\* A sound chain spends nothing that it did not create.
LEMMA SpentIsCreated ==
    ASSUME NEW b \in Blocks, SoundChain(b)
    PROVE  Spent(b) \subseteq Created(b)
<1> SUFFICES ASSUME NEW a \in Chain[b], NEW o \in Spends[a]
             PROVE  o \in Created(b)
    BY DEF Spent
<1>1. a \in Blocks \ {Genesis}
    BY TreeAssumption, CoinAssumption
<1>2. o \in Created(Parent[a])
    BY <1>1 DEF SoundChain, UnspentAt
<1>3. Chain[Parent[a]] \subseteq Chain[b]
    BY <1>1, ParentChain, TreeAssumption
<1> QED
    BY <1>2, <1>3 DEF Created

\* A block creates nothing that its parent's chain created before.
LEMMA CreatedOnce ==
    ASSUME NEW b \in Blocks \ {Genesis}
    PROVE  Creates[b] \cap Created(Parent[b]) = {}
    BY CoinAssumption DEF Created

\* DisconnectBlock: undoing the last block of a sound chain gives the coins of the
\* parent's chain again.
LEMMA Undo ==
    ASSUME NEW b \in Blocks \ {Genesis}, SoundChain(b)
    PROVE  /\ SoundChain(Parent[b])
           /\ (UnspentAt(b) \ Creates[b]) \cup Spends[b] = UnspentAt(Parent[b])
<1>1. SoundChain(Parent[b])
    BY ParentChain DEF SoundChain
<1>2. Spends[b] \subseteq UnspentAt(Parent[b])
    BY ParentChain DEF SoundChain
<1> QED
    BY <1>1, <1>2, OneMore, CreatedOnce DEF UnspentAt

\* ConnectBlock: a block that spends unspent outputs only extends a sound chain to a
\* sound chain, and taking and adding its outputs gives that chain's coins.
LEMMA Redo ==
    ASSUME NEW b \in Blocks \ {Genesis}, SoundChain(Parent[b]),
           Spends[b] \subseteq UnspentAt(Parent[b])
    PROVE  /\ SoundChain(b)
           /\ (UnspentAt(Parent[b]) \ Spends[b]) \cup Creates[b] = UnspentAt(b)
<1>1. SoundChain(b)
    BY ParentChain DEF SoundChain
<1>2. Spent(Parent[b]) \subseteq Created(Parent[b])
    BY SpentIsCreated, ParentChain
<1>3. Spends[b] \subseteq Created(Parent[b])
    BY DEF UnspentAt
<1> QED
    BY <1>1, <1>2, <1>3, OneMore, CreatedOnce DEF UnspentAt

---------------------------------------------------------------------------
(* Transactions and blocks. *)

LEMMA FirstAndRest ==
    ASSUME NEW s \in Seq(Txs), s # <<>>
    PROVE  /\ Head(s) \in Members(s) /\ Tail(s) \in Seq(Txs)
           /\ Members(Tail(s)) \subseteq Members(s)
           /\ Members(s) = {Head(s)} \cup Members(Tail(s))
<1>1. Len(s) \in Nat \ {0} /\ Head(s) = s[1] /\ Tail(s) \in Seq(Txs)
  OBVIOUS
<1>2. Len(Tail(s)) = Len(s) - 1 /\ \A i \in 1..(Len(s) - 1) : Tail(s)[i] = s[i + 1]
  OBVIOUS
<1>3. ASSUME NEW x \in Members(Tail(s)) PROVE x \in Members(s)
  <2>1. PICK i \in 1..(Len(s) - 1) : x = Tail(s)[i]
    BY <1>2 DEF Members
  <2>2. x = s[i + 1] /\ i + 1 \in 1..Len(s)
    BY <1>1, <1>2, <2>1
  <2> QED BY <2>2 DEF Members
<1>4. ASSUME NEW x \in Members(s) PROVE x \in {Head(s)} \cup Members(Tail(s))
  <2>1. PICK i \in 1..Len(s) : x = s[i]
    BY DEF Members
  <2>2. CASE i = 1
    BY <1>1, <2>1, <2>2
  <2>3. CASE i # 1
    <3>1. i - 1 \in 1..(Len(s) - 1) /\ Tail(s)[i - 1] = s[i]
      BY <1>1, <1>2, <2>3
    <3> QED BY <1>2, <2>1, <3>1 DEF Members
  <2> QED BY <2>2, <2>3
<1>5. Head(s) \in Members(s)
  BY <1>1 DEF Members
<1> QED BY <1>1, <1>3, <1>4, <1>5

LEMMA InBlockTxs == \A b \in Blocks : InBlock(b) \subseteq Txs /\ Chain[b] \subseteq Blocks
<1>1. ASSUME NEW b \in Blocks PROVE InBlock(b) \subseteq Txs
  <2>1. BlockTxs[b] \in Seq(Txs)
    BY TxAssumption
  <2> QED BY <2>1 DEF InBlock
<1> QED BY <1>1, TreeAssumption

LEMMA OneMoreBlock ==
    ASSUME NEW b \in Blocks \ {Genesis}
    PROVE  /\ ConfirmedAt(b) = ConfirmedAt(Parent[b]) \cup InBlock(b)
           /\ ConfirmedAt(Parent[b]) \cap InBlock(b) = {}
<1>1. Chain[b] = Chain[Parent[b]] \cup {b}
  BY ParentChain
<1>2. ConfirmedAt(b) = ConfirmedAt(Parent[b]) \cup InBlock(b)
  BY <1>1 DEF ConfirmedAt
<1>3. ConfirmedAt(Parent[b]) \cap InBlock(b) = {}
  BY TxAssumption DEF ConfirmedAt
<1> QED BY <1>2, <1>3

\* An output that a block leaves behind belongs to a transaction of the block.
LEMMA Owner ==
    ASSUME NEW b \in Blocks, NEW o \in Creates[b]
    PROVE  Of[o] \in InBlock(b) /\ o \in Outpoints
<1>1. CASE b = Genesis
  BY <1>1, TxAssumption DEF Outputs
<1>2. CASE b # Genesis
  <2>1. o \in Outputs(InBlock(b))
    BY <1>2, TxAssumption
  <2> QED BY <2>1 DEF Outputs
<1> QED BY <1>1, <1>2

\* The inputs of a confirmed transaction are spent, and belong to confirmed transactions.
LEMMA InputGone ==
    ASSUME NEW b \in Blocks, SoundChain(b), NEW t \in ConfirmedAt(b), NEW o \in Vin[t]
    PROVE  o \notin UnspentAt(b) /\ Of[o] \in ConfirmedAt(b)
<1>1. PICK a \in Chain[b] : t \in InBlock(a)
  BY DEF ConfirmedAt
<1>2. a \in Blocks /\ t \in Txs
  BY <1>1, InBlockTxs
<1>3. o \in Inputs(InBlock(a))
  BY <1>1 DEF Inputs
<1>4. a # Genesis
  BY <1>3, TxAssumption
<1>5. CASE o \in Outputs(InBlock(a))
  <2>1. Of[o] \in InBlock(a)
    BY <1>5 DEF Outputs
  <2>2. ASSUME NEW c \in Chain[b], o \in Creates[c] PROVE FALSE
    <3>1. c \in Blocks /\ Of[o] \in InBlock(c)
      BY <2>2, InBlockTxs, Owner
    <3>2. c # a
      BY <1>2, <1>3, <1>4, <2>2, TxAssumption
    <3>3. CASE a \in Chain[c]
      <4>1. c # Genesis
        BY <1>4, <3>3, TreeAssumption
      <4>2. a \in Chain[Parent[c]]
        BY <3>1, <3>2, <3>3, <4>1, ParentChain
      <4> QED BY <2>1, <3>1, <4>1, <4>2, TxAssumption
    <3>4. CASE c \in Chain[a]
      <4>1. c \in Chain[Parent[a]]
        BY <1>2, <1>4, <3>2, <3>4, ParentChain
      <4> QED BY <1>2, <1>4, <2>1, <3>1, <4>1, TxAssumption
    <3> QED BY <3>3, <3>4, TreeAssumption
  <2>3. o \notin Created(b)
    BY <2>2 DEF Created
  <2> QED BY <1>1, <2>1, <2>3 DEF UnspentAt, ConfirmedAt
<1>6. CASE o \notin Outputs(InBlock(a))
  <2>1. o \in Spends[a]
    BY <1>2, <1>3, <1>4, <1>6, TxAssumption
  <2>2. o \in UnspentAt(Parent[a])
    BY <1>4, <2>1 DEF SoundChain
  <2>3. PICK c \in Chain[Parent[a]] : o \in Creates[c]
    BY <2>2 DEF UnspentAt, Created
  <2>4. Chain[Parent[a]] \subseteq Chain[b] /\ Parent[a] \in Blocks
    BY <1>2, <1>4, TreeAssumption
  <2>5. c \in Blocks /\ Of[o] \in InBlock(c)
    BY <2>3, <2>4, InBlockTxs, Owner
  <2> QED BY <2>1, <2>3, <2>4, <2>5 DEF UnspentAt, Spent, ConfirmedAt
<1> QED BY <1>5, <1>6

---------------------------------------------------------------------------
(* Adding to the pool and removing from it. *)

LEMMA AddExact ==
    ASSUME TypeOK, NextTxExact, NEW t \in Txs, Loose(t), Add(t)
    PROVE  /\ pool' \subseteq Txs /\ nextTx' \in [Outpoints -> Txs \cup {None}]
           /\ NextTxExact'
<1>1. \A o \in Vin[t] : nextTx[o] = None
  <2> TAKE o \in Vin[t]
  <2>1. o \in Outpoints /\ nextTx[o] \in Txs \cup {None}
    BY TxAssumption DEF TypeOK
  <2>2. nextTx[o] # t
    BY <2>1 DEF NextTxExact, Loose
  <2> QED BY <2>1, <2>2 DEF Loose, Conflicts
<1>2. pool' \subseteq Txs /\ nextTx' \in [Outpoints -> Txs \cup {None}]
  BY DEF Add, TypeOK
<1>3. \A o \in Outpoints, u \in Txs : nextTx'[o] = u <=> u \in pool' /\ o \in Vin[u]
  <2> TAKE o \in Outpoints, u \in Txs
  <2>1. nextTx'[o] = IF o \in Vin[t] THEN t ELSE nextTx[o]
    BY DEF Add
  <2>2. nextTx[o] = u <=> u \in pool /\ o \in Vin[u]
    BY DEF NextTxExact
  <2>3. None # u
    BY TxAssumption
  <2> QED BY <1>1, <2>1, <2>2, <2>3 DEF Add
<1> QED BY <1>2, <1>3 DEF NextTxExact

LEMMA RemoveExact ==
    ASSUME TypeOK, NextTxExact, NEW R, NEW S, pool' = pool \ R, nextTx' = Unlink(R, S)
    PROVE  /\ pool' \subseteq Txs /\ nextTx' \in [Outpoints -> Txs \cup {None}]
           /\ NextTxExact'
<1>1. \A o \in Outpoints :
         nextTx'[o] = IF \E r \in R \cap pool : o \in Vin[r] THEN None ELSE nextTx[o]
  BY DEF Unlink, Inputs
<1>2. pool' \subseteq Txs /\ nextTx' \in [Outpoints -> Txs \cup {None}]
  BY DEF Unlink, TypeOK
<1>3. \A o \in Outpoints, u \in Txs : nextTx'[o] = u <=> u \in pool' /\ o \in Vin[u]
  <2> TAKE o \in Outpoints, u \in Txs
  <2>1. \A v \in Txs : nextTx[o] = v <=> v \in pool /\ o \in Vin[v]
    BY DEF NextTxExact
  <2>2. None # u
    BY TxAssumption
  <2>3. pool \subseteq Txs
    BY DEF TypeOK
  <2>4. CASE \E r \in R \cap pool : o \in Vin[r]
    BY <1>1, <2>1, <2>2, <2>3, <2>4
  <2>5. CASE ~\E r \in R \cap pool : o \in Vin[r]
    BY <1>1, <2>1, <2>2, <2>3, <2>5
  <2> QED BY <2>4, <2>5
<1> QED BY <1>2, <1>3 DEF NextTxExact

\* A recursive removal reaches every transaction of the pool that depends on it.
LEMMA ReachedClosed ==
    ASSUME TypeOK, NextTxExact, NEW S
    PROVE  /\ S \subseteq Reached(S) /\ Reached(S) \subseteq S \cup pool
           /\ \A t \in pool : \A o \in Vin[t] : Of[o] \in Reached(S) => t \in Reached(S)
<1>1. S \subseteq Reached(S) /\ Reached(S) \subseteq S \cup pool
  BY DEF Reached
<1>2. ASSUME NEW t \in pool, NEW o \in Vin[t], Of[o] \in Reached(S) PROVE t \in Reached(S)
  <2>1. t \in Txs /\ o \in Outpoints
    BY TxAssumption DEF TypeOK
  <2>2. nextTx[o] = t
    BY <2>1 DEF NextTxExact
  <2>3. ASSUME NEW C \in SUBSET (S \cup pool), S \subseteq C, Spenders(C) \subseteq C PROVE t \in C
    <3>1. Of[o] \in C
      BY <1>2, <2>3 DEF Reached
    <3> QED BY <2>1, <2>2, <2>3, <3>1 DEF Spenders, Outputs
  <2> QED BY <2>3 DEF Reached
<1> QED BY <1>1, <1>2

\* What AcceptToMemoryPool accepts is not confirmed: its inputs would be spent.
LEMMA AcceptableNew ==
    ASSUME TypeOK, PoolInv, NEW t \in Txs, Acceptable(t)
    PROVE  /\ Loose(t) /\ t \notin Confirmed /\ HaveInputs(t)
           /\ \A o \in Vin[t] : Of[o] \in pool \/ Mature(o)
<1>1. CASE t \in ZSpends
  <2>1. Vin[t] = {} /\ t \notin Confirmed /\ Loose(t)
    BY <1>1, TxAssumption DEF Acceptable
  <2> QED BY <2>1 DEF HaveInputs
<1>2. CASE t \notin ZSpends
  <2>1. Loose(t) /\ HaveInputs(t) /\ \A o \in Vin[t] : Of[o] \in pool \/ Mature(o)
    BY <1>2 DEF Acceptable
  <2>2. PICK o \in Vin[t] : TRUE
    BY <1>2, <2>1, TxAssumption DEF Loose
  <2>3. ASSUME t \in Confirmed PROVE FALSE
    <3>1. o \notin Coins /\ Of[o] \in Confirmed
      BY <2>3, InputGone DEF TypeOK, PoolInv, Phase, Coins, Confirmed
    <3> QED BY <2>1, <3>1 DEF HaveInputs, PoolInv, NotConfirmed
  <2> QED BY <2>1, <2>3
<1> QED BY <1>1, <1>2

LEMMA AddKeeps ==
    ASSUME TypeOK, PoolInv, NEW t \in Txs, Acceptable(t), Add(t), UNCHANGED <<tip, best>>,
           Members(undo) \subseteq Members(undo') \cup {t}
    PROVE  Backed' /\ NotConfirmed' /\ NoImmatureSpend' /\ pool' \cap Generated = {}
<1>1. Loose(t) /\ t \notin Confirmed /\ HaveInputs(t)
  BY AcceptableNew
<1>2. \A o \in Vin[t] : Of[o] \in pool \/ Mature(o)
  BY AcceptableNew
<1>3. pool' = pool \cup {t} /\ Coins' = Coins /\ Confirmed' = Confirmed
  BY DEF Add, Coins, Confirmed
<1>4. Backed'
  BY <1>1, <1>3 DEF PoolInv, Backed, HaveInputs
<1>5. NotConfirmed' /\ pool' \cap Generated = {}
  BY <1>1, <1>3 DEF PoolInv, NotConfirmed, Loose
<1>6. \A o : Mature(o)' <=> Mature(o)
  BY DEF Mature
<1>7. NoImmatureSpend'
  BY <1>2, <1>3, <1>6 DEF PoolInv, NoImmatureSpend
<1> QED BY <1>4, <1>5, <1>7

LEMMA RemoveKeeps ==
    ASSUME TypeOK, PoolInv, NEW S, RemoveRecursive(S), UNCHANGED best,
           Members(undo) \subseteq Members(undo') \cup S
    PROVE  /\ Backed' /\ NotConfirmed' /\ pool' \cap Generated = {}
           /\ pool' = pool \ Reached(S)
           /\ \A t \in pool' : \A o \in Vin[t] : Of[o] \in pool => Of[o] \in pool'
<1>1. /\ S \subseteq Reached(S)
      /\ \A t \in pool : \A o \in Vin[t] : Of[o] \in Reached(S) => t \in Reached(S)
  BY ReachedClosed DEF PoolInv
<1>2. pool' = pool \ Reached(S) /\ Coins' = Coins /\ Confirmed' = Confirmed
  BY DEF RemoveRecursive, Coins, Confirmed
<1>3. Backed'
  BY <1>1, <1>2 DEF PoolInv, Backed
<1>4. NotConfirmed' /\ pool' \cap Generated = {}
  BY <1>2 DEF PoolInv, NotConfirmed
<1> QED BY <1>1, <1>2, <1>3, <1>4

---------------------------------------------------------------------------
(* The chain moves. *)

LEMMA ConnectStep == ASSUME TypeOK, PoolInv, NEW b \in Blocks, ConnectTip(b) PROVE PoolInv'
<1> DEFINE R == RemovedBy(b)
<1>1. /\ tip = best /\ undo = <<>> /\ undo' = <<>> /\ Members(undo) = {}
      /\ b \in Blocks \ {Genesis} /\ Parent[b] = best /\ tip' = b /\ best' = b
  BY DEF ConnectTip, Idle, PoolInv, Phase, Members
<1>2. /\ SoundChain(b)
      /\ (UnspentAt(best) \ Spends[b]) \cup Creates[b] = UnspentAt(b)
  BY <1>1, Redo DEF ConnectTip, Connectable, PoolInv, Phase, Coins
<1>3. Phase'
  BY <1>1, <1>2 DEF Phase, Members
<1>4. NextTxExact'
  BY RemoveExact DEF ConnectTip, PoolInv
<1>5. pool' = pool \ R /\ InBlock(b) \subseteq R /\ InBlock(b) \subseteq Txs
  BY InBlockTxs DEF ConnectTip, RemovedBy
<1>6. ASSUME NEW t \in pool', NEW o \in Vin[t], NEW s \in InBlock(b), o \in Vin[s] PROVE FALSE
  <2>1. t \in pool /\ t \in Txs /\ o \in Outpoints /\ t \notin R
    BY <1>5, TxAssumption DEF TypeOK
  <2>2. nextTx[o] = t /\ t # s
    BY <1>5, <2>1 DEF PoolInv, NextTxExact
  <2>3. t \in Conflicts(s)
    BY <1>6, <2>1, <2>2 DEF Conflicts
  <2>4. t \in Reached(Conflicts(s))
    BY <2>3, ReachedClosed DEF PoolInv
  <2> QED BY <2>1, <2>4 DEF RemovedBy
<1>7. /\ Creates[b] = Outputs(InBlock(b)) \ Inputs(InBlock(b))
      /\ Spends[b] = Inputs(InBlock(b)) \ Outputs(InBlock(b))
  BY <1>1, TxAssumption
<1>8. ASSUME NEW t \in pool', NEW o \in Vin[t]
      PROVE  \/ Of[o] \in pool /\ Of[o] \in pool'
             \/ Of[o] \in pool /\ Of[o] \in InBlock(b) /\ o \in UnspentAt(b)
             \/ Of[o] \notin pool /\ o \in UnspentAt(best) /\ o \in UnspentAt(b)
  <2>1. t \in pool /\ t \in Txs /\ o \in Outpoints /\ t \notin R
    BY <1>5, TxAssumption DEF TypeOK
  <2>2. o \notin Inputs(InBlock(b))
    BY <1>6 DEF Inputs
  <2>3. Of[o] \in pool \/ o \in UnspentAt(best)
    BY <1>1, <2>1 DEF PoolInv, Backed, Coins
  <2>4. CASE Of[o] \in pool /\ Of[o] \in R /\ Of[o] \notin InBlock(b)
    <3>1. PICK s \in InBlock(b) : Of[o] \in Reached(Conflicts(s))
      BY <2>4 DEF RemovedBy
    <3>2. t \in Reached(Conflicts(s))
      BY <2>1, <3>1, ReachedClosed DEF PoolInv
    <3> QED BY <2>1, <3>2 DEF RemovedBy
  <2>5. CASE Of[o] \in pool /\ Of[o] \in InBlock(b)
    <3>1. o \in Creates[b]
      BY <1>7, <2>1, <2>2, <2>5 DEF Outputs
    <3> QED BY <1>2, <2>5, <3>1
  <2>6. CASE Of[o] \notin pool
    BY <1>2, <1>7, <2>2, <2>3, <2>6
  <2> QED BY <1>5, <2>4, <2>5, <2>6
<1>9. Backed'
  BY <1>1, <1>8 DEF Backed, Coins
<1>10. Confirmed' = Confirmed \cup InBlock(b)
  BY <1>1, OneMoreBlock DEF Confirmed
<1>11. NotConfirmed' /\ pool' \cap Generated = {}
  BY <1>5, <1>10 DEF PoolInv, NotConfirmed
<1>12. ASSUME NEW t \in pool', NEW o \in Vin[t] PROVE Of[o] \in pool' \/ Mature(o)'
  <2>1. CASE Of[o] \in pool
    BY <1>8, <2>1 DEF Mature, PoolInv
  <2>2. CASE Of[o] \notin pool
    <3>1. Mature(o) /\ o \in UnspentAt(best)
      BY <1>1, <1>5, <1>8, <2>2 DEF PoolInv, NoImmatureSpend
    <3>2. o \notin Creates[b]
      BY <1>1, <3>1, CreatedOnce DEF UnspentAt
    <3>3. Chain[b] = Chain[best] \cup {b} /\ Height[b] = Height[best] + 1
      BY <1>1, ParentChain, MeasureAssumption
    <3>4. Height[best] \in Nat /\ Maturity \in Nat /\ best \in Blocks
      BY MeasureAssumption, TxAssumption DEF TypeOK
    <3>5. ASSUME Of[o] \in Generated, NEW c \in Chain[b] \ {Genesis}, o \in Creates[c]
          PROVE  (Height[b] + 1) - Height[c] >= Maturity
      <4>1. c \in Chain[best] \ {Genesis} /\ Height[c] \in Nat
        BY <3>2, <3>3, <3>4, <3>5, InBlockTxs, MeasureAssumption
      <4>2. (Height[best] + 1) - Height[c] >= Maturity
        BY <3>1, <3>5, <4>1 DEF Mature
      <4> QED BY <3>3, <3>4, <4>1, <4>2
    <3> QED BY <1>1, <3>5 DEF Mature
  <2> QED BY <2>1, <2>2
<1>13. NoImmatureSpend'
  BY <1>12 DEF NoImmatureSpend
<1> QED BY <1>3, <1>4, <1>9, <1>11, <1>13 DEF PoolInv

LEMMA DisconnectStep == ASSUME TypeOK, PoolInv, DisconnectTip PROVE PoolInv'
<1>1. /\ tip = best /\ undo = <<>> /\ Members(undo) = {} /\ loop = None
      /\ tip \in Blocks \ {Genesis} /\ best' = Parent[tip] /\ tip' = tip /\ loop' = loop
      /\ undo' = BlockTxs[tip] /\ pool' = pool /\ nextTx' = nextTx
  BY DEF DisconnectTip, Idle, PoolInv, Phase, Members, TypeOK
<1>2. /\ SoundChain(Parent[tip])
      /\ (UnspentAt(tip) \ Creates[tip]) \cup Spends[tip] = UnspentAt(Parent[tip])
  BY <1>1, Undo DEF PoolInv, Phase
<1>3. Members(undo') = InBlock(tip)
  BY <1>1 DEF Members, InBlock
<1>4. best' # tip'
  BY <1>1, ParentChain
<1>5. Phase'
  BY <1>1, <1>2, <1>3, <1>4 DEF Phase, PoolInv
<1>6. Backed'
  <2> SUFFICES ASSUME NEW t \in pool, NEW o \in Vin[t]
               PROVE  Of[o] \in pool \/ o \in UnspentAt(Parent[tip]) \/ Of[o] \in InBlock(tip)
    BY <1>1, <1>3 DEF Backed, Coins
  <2>1. Of[o] \in pool \/ o \in UnspentAt(tip)
    BY <1>1 DEF PoolInv, Backed, Coins
  <2>2. o \in Creates[tip] => Of[o] \in InBlock(tip)
    BY <1>1, Owner
  <2> QED BY <1>2, <2>1, <2>2
<1>7. Confirmed' \subseteq Confirmed
  BY <1>1, OneMoreBlock DEF Confirmed
<1>8. NotConfirmed' /\ NextTxExact' /\ NoImmatureSpend' /\ pool' \cap Generated = {}
  BY <1>1, <1>4, <1>7 DEF PoolInv, NotConfirmed, NextTxExact, NoImmatureSpend
<1> QED BY <1>5, <1>6, <1>8 DEF PoolInv

LEMMA ResurrectStep == ASSUME TypeOK, PoolInv, Resurrect PROVE PoolInv'
<1> DEFINE t == Head(undo)
<1>1. undo \in Seq(Txs) /\ undo # <<>> /\ undo' = Tail(undo) /\ UNCHANGED <<tip, best, loop>>
  BY DEF TypeOK, Resurrect
<1>2. t \in Members(undo) /\ Members(undo') \subseteq Members(undo)
      /\ Members(undo) = {t} \cup Members(undo')
  BY <1>1, FirstAndRest
<1>3. tip # best /\ t \in Txs
  BY <1>1, <1>2, InBlockTxs DEF PoolInv, Phase, TypeOK
<1>4. Phase'
  BY <1>1, <1>2, <1>3 DEF PoolInv, Phase
<1>5. CASE Acceptable(t) /\ Add(t)
  <2>1. Backed' /\ NotConfirmed' /\ NoImmatureSpend' /\ pool' \cap Generated = {}
    BY <1>1, <1>2, <1>3, <1>5, AddKeeps
  <2>2. NextTxExact'
    BY <1>3, <1>5, AddExact, AcceptableNew DEF PoolInv
  <2> QED BY <1>4, <2>1, <2>2 DEF PoolInv
<1>6. CASE RemoveRecursive({t})
  <2>1. Backed' /\ NotConfirmed' /\ pool' \cap Generated = {}
    BY <1>1, <1>2, <1>6, RemoveKeeps
  <2>2. NextTxExact'
    BY <1>6, RemoveExact DEF PoolInv, RemoveRecursive
  <2>3. NoImmatureSpend'
    BY <1>1, <1>3 DEF NoImmatureSpend
  <2> QED BY <1>4, <2>1, <2>2, <2>3 DEF PoolInv
<1> QED BY <1>5, <1>6 DEF Resurrect

LEMMA FinishStep == ASSUME TypeOK, PoolInv, FinishDisconnect PROVE PoolInv'
<1>1. tip # best /\ undo = <<>> /\ undo' = undo /\ tip' = best /\ best' = best /\ Members(undo) = {}
  BY DEF FinishDisconnect, Members
<1>2. /\ Backed' /\ NotConfirmed' /\ pool' \cap Generated = {}
      /\ pool' = pool \ Reached(CoinbaseSpends)
      /\ \A t \in pool' : \A o \in Vin[t] : Of[o] \in pool => Of[o] \in pool'
  BY <1>1, RemoveKeeps DEF FinishDisconnect
<1>3. NextTxExact'
  BY RemoveExact DEF PoolInv, RemoveRecursive, FinishDisconnect
<1>4. CoinbaseSpends \subseteq Reached(CoinbaseSpends)
  BY ReachedClosed DEF PoolInv
<1>5. \A t \in pool' : \A o \in Vin[t] : Of[o] \in pool' \/ Mature(o)
  BY <1>2, <1>4 DEF CoinbaseSpends, MatureInPool
<1>6. \A o : Mature(o)' <=> Mature(o)
  BY <1>1 DEF Mature
<1>7. NoImmatureSpend'
  BY <1>5, <1>6 DEF NoImmatureSpend
<1>8. Phase'
  BY <1>1 DEF PoolInv, Phase, Members
<1> QED BY <1>2, <1>3, <1>7, <1>8 DEF PoolInv

\* Steps that leave the pool and the chain alone.
LEMMA OrphanStep ==
    ASSUME PoolInv, UNCHANGED <<chain, pool, nextTx>>, tip # best => loop' = None
    PROVE  PoolInv'
<1>1. Coins' = Coins /\ Confirmed' = Confirmed /\ \A o : Mature(o)' <=> Mature(o)
  BY DEF chain, Coins, Confirmed, Mature
<1> QED BY <1>1 DEF chain, PoolInv, Phase, Backed, NextTxExact, NotConfirmed, NoImmatureSpend

\* A transaction is accepted outside of a reorganisation.
LEMMA AcceptStep ==
    ASSUME TypeOK, PoolInv, NEW t \in Txs, Acceptable(t), Add(t), UNCHANGED chain, tip = best
    PROVE  PoolInv'
<1>1. Backed' /\ NotConfirmed' /\ NoImmatureSpend' /\ pool' \cap Generated = {}
  BY AddKeeps DEF chain
<1>2. NextTxExact'
  BY AddExact, AcceptableNew DEF PoolInv
<1>3. Phase'
  BY DEF PoolInv, Phase, chain
<1> QED BY <1>1, <1>2, <1>3 DEF PoolInv

LEMMA ClearStep == ASSUME TypeOK, PoolInv, ClearPool PROVE PoolInv'
<1>1. /\ UNCHANGED <<tip, best, undo, loop>> /\ pool' = {} /\ nextTx' = [o \in Outpoints |-> None]
  BY DEF ClearPool, chain
<1>2. NextTxExact'
  BY <1>1, TxAssumption DEF NextTxExact
<1>3. Phase' /\ Backed' /\ NotConfirmed' /\ NoImmatureSpend' /\ pool' \cap Generated = {}
  BY <1>1 DEF PoolInv, Phase, Backed, NotConfirmed, NoImmatureSpend
<1> QED BY <1>2, <1>3 DEF PoolInv

---------------------------------------------------------------------------
(* Orphans. *)

LEMMA KnownFinite ==
    ASSUME TypeOK
    PROVE  Known \subseteq Txs /\ IsFiniteSet(Known) /\ Cardinality(Known) \in Nat
<1>1. Known \in SUBSET Txs
  BY DEF Known
<1> QED BY <1>1, TxAssumption, FS_Subset, FS_CardinalityType

\* A step that touches neither the orphans nor the sets of the loop that are still to come.
LEMMA SameOrphans ==
    ASSUME OrphanIndex, UNCHANGED <<orphans, byPrev>>,
           loop' # None => (loop # None /\ loop'.cur \subseteq loop.cur) \/ loop'.cur = {}
    PROVE  OrphanIndex'
<1>1. Known' = Known
  BY DEF Known
<1> QED BY <1>1 DEF OrphanIndex

LEMMA EraseStep ==
    ASSUME TypeOK, OrphanIndex, NEW E \in SUBSET Txs, EraseOrphans(E), loop' = None
    PROVE  /\ orphans' \in [Txs -> Peers \cup {None}] /\ byPrev' \in [Txs -> SUBSET Txs]
           /\ OrphanIndex'
<1>1. orphans' \in [Txs -> Peers \cup {None}] /\ byPrev' \in [Txs -> SUBSET Txs]
  BY DEF EraseOrphans, TypeOK
<1>2. Known' = Known \ E
  BY DEF EraseOrphans, Known
<1>3. \A t, u \in Txs : t \in byPrev'[u] <=> t \in Known' /\ u \in Prevs(t)
  <2> TAKE t, u \in Txs
  <2>1. byPrev'[u] = byPrev[u] \ {x \in E \cap Known : u \in Prevs(x)}
    BY DEF EraseOrphans, Indexed
  <2> QED BY <1>2, <2>1 DEF OrphanIndex
<1>4. Cardinality(Known') <= MaxOrphans
  <2>1. /\ Cardinality(Known') <= Cardinality(Known)
        /\ Cardinality(Known') \in Nat /\ Cardinality(Known) \in Nat
    <3>1. Known' \in SUBSET Known /\ IsFiniteSet(Known)
      BY <1>2, KnownFinite
    <3> QED BY <3>1, FS_Subset, FS_CardinalityType
  <2> QED BY <2>1, TxAssumption DEF OrphanIndex
<1> QED BY <1>1, <1>3, <1>4 DEF OrphanIndex

LEMMA AddOrphanStep ==
    ASSUME TypeOK, OrphanIndex, NEW t \in Txs, NEW p \in Peers, AddOrphan(t, p), loop' = None
    PROVE  /\ orphans' \in [Txs -> Peers \cup {None}] /\ byPrev' \in [Txs -> SUBSET Txs]
           /\ OrphanIndex'
<1> DEFINE from == IF t \in Known THEN orphans[t] ELSE p
           all == Known \cup {t}
<1>1. PICK E \in SUBSET all :
         /\ Cardinality(all \ E) <= MaxOrphans
         /\ orphans' = [x \in Txs |-> IF x \in E THEN None ELSE IF x = t THEN from ELSE orphans[x]]
         /\ byPrev' = [u \in Txs |-> (byPrev[u] \cup {x \in {t} : u \in Prevs(x)})
                                         \ {x \in E : u \in Indexed(x)}]
  BY DEF AddOrphan
<1>2. from \in Peers /\ from # None
  BY TxAssumption DEF TypeOK, Known
<1>3. all \subseteq Txs
  BY DEF Known
<1> HIDE DEF from
<1>4. orphans' \in [Txs -> Peers \cup {None}]
  BY <1>1, <1>2 DEF TypeOK
<1>5. byPrev' \in [Txs -> SUBSET Txs]
  BY <1>1 DEF TypeOK
<1>6. Known' = all \ E
  BY <1>1, <1>2, <1>3 DEF Known
<1>7. \A x, u \in Txs : x \in byPrev'[u] <=> x \in Known' /\ u \in Prevs(x)
  <2> TAKE x, u \in Txs
  <2>1. byPrev'[u] = (byPrev[u] \cup {y \in {t} : u \in Prevs(y)}) \ {y \in E : u \in Prevs(y)}
    BY <1>1 DEF Indexed
  <2>2. x \in byPrev[u] <=> x \in Known /\ u \in Prevs(x)
    BY DEF OrphanIndex
  <2> QED BY <1>6, <2>1, <2>2
<1> QED BY <1>1, <1>4, <1>5, <1>6, <1>7 DEF OrphanIndex

---------------------------------------------------------------------------
(* All steps together. *)

LEMMA InitInv == Init => Inv
<1> SUFFICES ASSUME Init PROVE Inv
  OBVIOUS
<1>1. Known = {} /\ Cardinality({}) = 0
  BY FS_EmptySet DEF Init, Known
<1>2. TypeOK
  BY TreeAssumption DEF Init, TypeOK
<1>3. SoundChain(Genesis)
  BY TreeAssumption DEF SoundChain
<1>4. PoolInv
  BY <1>3, TxAssumption
     DEF Init, PoolInv, Phase, Backed, NextTxExact, NotConfirmed, NoImmatureSpend, Members
<1>5. OrphanIndex
  BY <1>1, TxAssumption DEF Init, OrphanIndex
<1> QED BY <1>2, <1>4, <1>5 DEF Inv

LEMMA NextInv == Inv /\ [Next]_vars => Inv'
<1> SUFFICES ASSUME Inv, [Next]_vars PROVE Inv'
  OBVIOUS
<1>i. TypeOK /\ PoolInv /\ OrphanIndex
  BY DEF Inv
<1>1. CASE \E t \in Txs : AcceptLocal(t)
  <2> PICK t \in Txs : AcceptLocal(t)
    BY <1>1
  <2>1. tip = best /\ Acceptable(t) /\ Add(t) /\ UNCHANGED chain
        /\ UNCHANGED <<orphans, byPrev, loop>>
    BY DEF AcceptLocal, Idle
  <2>2. PoolInv'
    BY <1>i, <2>1, AcceptStep
  <2>3. OrphanIndex'
    BY <1>i, <2>1, SameOrphans
  <2>4. TypeOK'
    BY <1>i, <2>1, AddExact DEF TypeOK, chain, Acceptable, PoolInv
  <2> QED BY <2>2, <2>3, <2>4 DEF Inv
<1>2. CASE \E t \in Txs, p \in Peers : Tx(t, p)
  <2> PICK t \in Txs, p \in Peers : Tx(t, p)
    BY <1>2
  <2>1. tip = best /\ loop = None /\ UNCHANGED chain
    BY DEF Tx, Idle
  <2>2. CASE /\ Acceptable(t) /\ Add(t) /\ UNCHANGED <<orphans, byPrev>>
             /\ loop' = IF t \in ZSpends THEN None
                        ELSE [work |-> <<t>>, cur |-> {}, erase |-> {}, bad |-> {}]
    <3>1. PoolInv'
      BY <1>i, <2>1, <2>2, AcceptStep
    <3>2. OrphanIndex'
      BY <1>i, <2>1, <2>2, SameOrphans
    <3>3. loop' = None \/ loop' \in Loops
      BY <2>2 DEF Loops
    <3>4. TypeOK'
      BY <1>i, <2>1, <2>2, <3>3, AddExact DEF TypeOK, chain, Acceptable, PoolInv
    <3> QED BY <3>1, <3>2, <3>4 DEF Inv
  <2>3. CASE AddOrphan(t, p) /\ UNCHANGED <<pool, nextTx, loop>>
    <3>1. PoolInv'
      BY <1>i, <2>1, <2>3, OrphanStep
    <3>2. /\ orphans' \in [Txs -> Peers \cup {None}] /\ byPrev' \in [Txs -> SUBSET Txs]
          /\ OrphanIndex'
      BY <1>i, <2>1, <2>3, AddOrphanStep
    <3>3. TypeOK'
      BY <1>i, <2>1, <2>3, <3>2 DEF TypeOK, chain
    <3> QED BY <3>1, <3>2, <3>3 DEF Inv
  <2> QED BY <2>2, <2>3 DEF Tx
<1>3. CASE NextParent
  <2>1. /\ loop \in Loops /\ loop.work # <<>> /\ loop # None
        /\ UNCHANGED <<chain, pool, nextTx, orphans, byPrev>>
        /\ loop' = [loop EXCEPT !.cur = byPrev[Head(loop.work)], !.work = Tail(loop.work)]
    BY <1>3, <1>i DEF NextParent, TypeOK
  <2>2. loop.work \in Seq(Txs) /\ Head(loop.work) \in Txs /\ Tail(loop.work) \in Seq(Txs)
    BY <2>1 DEF Loops
  <2>3. loop' \in Loops /\ loop'.cur = byPrev[Head(loop.work)]
    BY <1>i, <2>1, <2>2 DEF Loops, TypeOK
  <2>4. TypeOK'
    BY <1>i, <2>1, <2>3 DEF TypeOK, chain
  <2>5. PoolInv'
    BY <1>i, <2>1, OrphanStep DEF PoolInv, Phase
  <2>6. Known' = Known
    BY <2>1 DEF Known
  <2>7. byPrev[Head(loop.work)] \subseteq Known
    BY <1>i, <2>2 DEF OrphanIndex, TypeOK
  <2>8. OrphanIndex'
    BY <1>i, <2>1, <2>3, <2>6, <2>7 DEF OrphanIndex
  <2> QED BY <2>4, <2>5, <2>8 DEF Inv
<1>4. CASE \E t \in Txs : TryOrphan(t)
  <2> PICK t \in Txs : TryOrphan(t)
    BY <1>4
  <2>1. /\ loop \in Loops /\ loop # None /\ t \in loop.cur /\ tip = best
        /\ UNCHANGED <<chain, orphans, byPrev>>
    BY <1>i DEF TryOrphan, TypeOK, PoolInv, Phase
  <2>0. t \in Txs /\ loop \in Loops
    BY <1>i, <2>1
  <2>2. orphans[t] \in Peers
    <3>1. t \in Known
      BY <1>i, <2>1 DEF OrphanIndex
    <3> QED BY <1>i, <3>1 DEF Known, TypeOK
  <2>3. CASE loop' = [loop EXCEPT !.cur = @ \ {t}] /\ UNCHANGED <<pool, nextTx>>
    <3>1. loop' \in Loops /\ loop'.cur \subseteq loop.cur
      BY <2>1, <2>3 DEF Loops
    <3>2. PoolInv'
      BY <1>i, <2>1, <2>3, OrphanStep
    <3>3. OrphanIndex'
      BY <1>i, <2>1, <3>1, SameOrphans
    <3>4. TypeOK'
      BY <1>i, <2>1, <2>3, <3>1 DEF TypeOK, chain
    <3> QED BY <3>2, <3>3, <3>4 DEF Inv
  <2>4. CASE /\ Acceptable(t) /\ Add(t)
             /\ loop' = [work |-> Append(loop.work, t), cur |-> loop.cur \ {t},
                         erase |-> loop.erase \cup {t}, bad |-> loop.bad]
    <3>1. loop' \in Loops /\ loop'.cur \subseteq loop.cur
      <4>1. loop.cur \subseteq Txs /\ loop.erase \subseteq Txs /\ loop.bad \subseteq Peers
            /\ loop.work \in Seq(Txs)
        BY <2>0 DEF Loops
      <4>2. Append(loop.work, t) \in Seq(Txs)
        BY <4>1
      <4> QED BY <2>4, <4>1, <4>2 DEF Loops
    <3>2. PoolInv'
      BY <1>i, <2>1, <2>4, AcceptStep
    <3>3. OrphanIndex'
      BY <1>i, <2>1, <3>1, SameOrphans
    <3>4. TypeOK'
      BY <1>i, <2>1, <2>4, <3>1, AddExact DEF TypeOK, chain, Acceptable, PoolInv
    <3> QED BY <3>2, <3>3, <3>4 DEF Inv
  <2>5. CASE /\ UNCHANGED <<pool, nextTx>>
             /\ \E bad \in {loop.bad, loop.bad \cup {orphans[t]}} :
                   loop' = [work |-> loop.work, cur |-> loop.cur \ {t},
                           erase |-> loop.erase \cup {t}, bad |-> bad]
    <3>1. loop' \in Loops /\ loop'.cur \subseteq loop.cur
      <4>1. loop.cur \subseteq Txs /\ loop.erase \subseteq Txs /\ loop.bad \subseteq Peers
            /\ loop.work \in Seq(Txs)
        BY <2>0 DEF Loops
      <4> QED BY <2>2, <2>5, <4>1 DEF Loops
    <3>2. PoolInv'
      BY <1>i, <2>1, <2>5, OrphanStep
    <3>3. OrphanIndex'
      BY <1>i, <2>1, <3>1, SameOrphans
    <3>4. TypeOK'
      BY <1>i, <2>1, <2>5, <3>1 DEF TypeOK, chain
    <3> QED BY <3>2, <3>3, <3>4 DEF Inv
  <2> QED BY <2>3, <2>4, <2>5 DEF TryOrphan
<1>5. CASE FinishOrphans
  <2>1. /\ loop \in Loops /\ EraseOrphans(loop.erase) /\ loop' = None
        /\ UNCHANGED <<chain, pool, nextTx>>
    BY <1>5, <1>i DEF FinishOrphans, TypeOK
  <2>2. loop.erase \in SUBSET Txs
    BY <2>1 DEF Loops
  <2>3. /\ orphans' \in [Txs -> Peers \cup {None}] /\ byPrev' \in [Txs -> SUBSET Txs]
        /\ OrphanIndex'
    BY <1>i, <2>1, <2>2, EraseStep
  <2>4. PoolInv'
    BY <1>i, <2>1, OrphanStep
  <2>5. TypeOK'
    BY <1>i, <2>1, <2>3 DEF TypeOK, chain
  <2> QED BY <2>3, <2>4, <2>5 DEF Inv
<1>6. CASE \E p \in Peers : PeerGone(p)
  <2> PICK p \in Peers : PeerGone(p)
    BY <1>6
  <2> DEFINE E == {t \in Txs : orphans[t] = p}
  <2>1. /\ E \in SUBSET Txs /\ EraseOrphans(E) /\ loop' = None
        /\ UNCHANGED <<chain, pool, nextTx>>
    BY DEF PeerGone, Idle
  <2>2. /\ orphans' \in [Txs -> Peers \cup {None}] /\ byPrev' \in [Txs -> SUBSET Txs]
        /\ OrphanIndex'
    BY <1>i, <2>1, EraseStep
  <2>3. PoolInv'
    BY <1>i, <2>1, OrphanStep
  <2>4. TypeOK'
    BY <1>i, <2>1, <2>2 DEF TypeOK, chain
  <2> QED BY <2>2, <2>3, <2>4 DEF Inv
<1>7. CASE \E b \in Blocks : ConnectTip(b)
  <2> PICK b \in Blocks : ConnectTip(b)
    BY <1>7
  <2>1. PoolInv'
    BY <1>i, ConnectStep
  <2>2. OrphanIndex'
    BY <1>i, SameOrphans DEF ConnectTip, Idle
  <2>3. TypeOK'
    BY <1>i, RemoveExact DEF ConnectTip, TypeOK, PoolInv
  <2> QED BY <2>1, <2>2, <2>3 DEF Inv
<1>8. CASE DisconnectTip
  <2>1. PoolInv'
    BY <1>i, <1>8, DisconnectStep
  <2>2. OrphanIndex'
    BY <1>i, <1>8, SameOrphans DEF DisconnectTip, Idle
  <2>3. Parent[tip] \in Blocks /\ BlockTxs[tip] \in Seq(Txs)
    BY <1>i, <1>8, TxAssumption, ParentChain DEF DisconnectTip, TypeOK
  <2>4. TypeOK'
    BY <1>i, <1>8, <2>3 DEF DisconnectTip, TypeOK
  <2> QED BY <2>1, <2>2, <2>4 DEF Inv
<1>9. CASE Resurrect
  <2>1. PoolInv'
    BY <1>i, <1>9, ResurrectStep
  <2>2. loop = None /\ loop' = None /\ UNCHANGED <<orphans, byPrev>>
    BY <1>i, <1>9 DEF Resurrect, PoolInv, Phase
  <2>3. OrphanIndex'
    BY <1>i, <2>2, SameOrphans
  <2>4. undo' \in Seq(Txs) /\ Head(undo) \in Txs
    BY <1>i, <1>9 DEF Resurrect, TypeOK
  <2>5. pool' \subseteq Txs /\ nextTx' \in [Outpoints -> Txs \cup {None}]
    <3>1. CASE Acceptable(Head(undo)) /\ Add(Head(undo))
      BY <1>i, <2>4, <3>1, AddExact DEF Acceptable, PoolInv
    <3>2. CASE RemoveRecursive({Head(undo)})
      BY <1>i, <3>2, RemoveExact DEF RemoveRecursive, PoolInv
    <3> QED BY <1>9, <3>1, <3>2 DEF Resurrect
  <2>6. TypeOK'
    BY <1>i, <1>9, <2>2, <2>4, <2>5 DEF TypeOK, Resurrect
  <2> QED BY <2>1, <2>3, <2>6 DEF Inv
<1>10. CASE FinishDisconnect
  <2>1. PoolInv'
    BY <1>i, <1>10, FinishStep
  <2>2. loop = None /\ loop' = None /\ UNCHANGED <<orphans, byPrev, best, undo>> /\ tip' = best
    BY <1>i, <1>10 DEF FinishDisconnect, PoolInv, Phase
  <2>3. OrphanIndex'
    BY <1>i, <2>2, SameOrphans
  <2>4. pool' \subseteq Txs /\ nextTx' \in [Outpoints -> Txs \cup {None}]
    BY <1>i, <1>10, RemoveExact DEF FinishDisconnect, RemoveRecursive, PoolInv
  <2>5. TypeOK'
    BY <1>i, <2>2, <2>4 DEF TypeOK
  <2> QED BY <2>1, <2>3, <2>5 DEF Inv
<1>11. CASE ClearPool
  <2>1. PoolInv'
    BY <1>i, <1>11, ClearStep
  <2>2. OrphanIndex'
    BY <1>i, <1>11, SameOrphans DEF ClearPool, Idle
  <2>3. TypeOK'
    BY <1>i, <1>11 DEF ClearPool, TypeOK, chain
  <2> QED BY <2>1, <2>2, <2>3 DEF Inv
<1>12. CASE UNCHANGED vars
  <2>1. UNCHANGED <<chain, pool, nextTx, orphans, byPrev, loop>>
    BY <1>12 DEF vars
  <2>2. PoolInv'
    BY <1>i, <2>1, OrphanStep DEF PoolInv, Phase
  <2>3. OrphanIndex'
    BY <1>i, <2>1, SameOrphans
  <2>4. TypeOK'
    BY <1>i, <2>1 DEF TypeOK, chain
  <2> QED BY <2>2, <2>3, <2>4 DEF Inv
<1> QED BY <1>1, <1>2, <1>3, <1>4, <1>5, <1>6, <1>7, <1>8, <1>9, <1>10, <1>11, <1>12 DEF Next

LEMMA SpecInv == Spec => []Inv
<1> QED BY InitInv, NextInv, PTL DEF Spec

---------------------------------------------------------------------------
(* The theorems. *)

\* Every variable has its type.
THEOREM TypeCorrect == Spec => []TypeOK
<1>1. Inv => TypeOK
  BY DEF Inv
<1> QED BY <1>1, SpecInv, PTL

\* mapNextTx is exact at every step of addUnchecked, remove and their callers.
THEOREM PoolSpendsOnce == Spec => []NextTxExact
<1>1. Inv => NextTxExact
  BY DEF Inv, PoolInv
<1> QED BY <1>1, SpecInv, PTL

\* What CreateNewBlock says of the pool: every transaction connects to the chain or to the
\* pool, after any sequence of blocks connected and disconnected.
THEOREM PoolConnects == Spec => []InputsAvailable
<1>1. Inv => InputsAvailable
  <2> SUFFICES ASSUME Inv, tip = best, NEW t \in pool, NEW o \in Vin[t]
               PROVE  Of[o] \in pool \/ o \in Coins
    BY DEF InputsAvailable, HaveInputs
  <2>1. Members(undo) = {}
    BY DEF Inv, PoolInv, Phase, Members
  <2> QED BY <2>1 DEF Inv, PoolInv, Backed
<1> QED BY <1>1, SpecInv, PTL

\* A reorganisation leaves no spend of an immature coinbase or coinstake in the pool.
THEOREM PoolMature == Spec => []NoImmatureSpend
<1>1. Inv => NoImmatureSpend
  BY DEF Inv, PoolInv
<1> QED BY <1>1, SpecInv, PTL

\* AcceptToMemoryPool refuses every transaction of the chain, spent or not.
THEOREM PoolUnconfirmed == Spec => []NotConfirmed
<1>1. Inv => NotConfirmed
  BY DEF Inv, PoolInv
<1> QED BY <1>1, SpecInv, PTL

\* The two maps of the orphans agree, and the loop of the "tx" handler meets known ones.
THEOREM OrphansIndexed == Spec => []OrphanIndex
<1>1. Inv => OrphanIndex
  BY DEF Inv
<1> QED BY <1>1, SpecInv, PTL

=============================================================================
