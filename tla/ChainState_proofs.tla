------------------------- MODULE ChainState_proofs -------------------------
(***************************************************************************)
(* The invariants of ChainState, for every block tree, every number of     *)
(* threads and every set of locks.                                         *)
(*                                                                         *)
(* Inv is the inductive invariant.  To the properties it adds what makes   *)
(* them inductive: who may be where when cs_main is held (ThreadInv), that *)
(* the coins are those of the tip's chain and that chain is stored,        *)
(* connected and sound (ChainInv), and that a failed block is in the       *)
(* active chain only while InvalidateBlock is taking it out (FailedInv).   *)
(* BestInv, at the end, does the same for the candidates and the best      *)
(* chain.                                                                  *)
(***************************************************************************)
EXTENDS ChainState, FiniteSetTheorems, TLAPS

---------------------------------------------------------------------------
(* Chains, and the outputs they leave unspent (module BlockTree).          *)

\* A block's parent is a block, its chain is the block's chain without the block.
LEMMA ParentChain ==
    ASSUME NEW b \in Blocks \ {Genesis}
    PROVE  /\ Parent[b] \in Blocks
           /\ Chain[b] = Chain[Parent[b]] \cup {b}
           /\ b \notin Chain[Parent[b]]
           /\ Parent[b] \in Chain[b]
           /\ Chain[Parent[b]] = Chain[b] \ {b}
    BY TreeAssumption

\* Of two blocks of one chain the one that is not in the other's chain is above it.
LEMMA Above ==
    ASSUME NEW c \in Blocks, NEW x \in Chain[c], NEW y \in Chain[c], y \notin Chain[x]
    PROVE  x \in Chain[y]
    BY TreeAssumption

\* What one more block adds to the outputs created and spent.
LEMMA OneMore ==
    ASSUME NEW b \in Blocks \ {Genesis}
    PROVE  /\ Created(b) = Created(Parent[b]) \cup Creates[b]
           /\ Spent(b) = Spent(Parent[b]) \cup Spends[b]
    BY ParentChain DEF Created, Spent

\* A sound chain spends nothing that it did not create.
LEMMA SpentIsCreated ==
    ASSUME NEW b \in Blocks, SoundChain(b)
    PROVE  Spent(b) \subseteq Created(b)
<1> SUFFICES ASSUME NEW a \in Chain[b], NEW o \in Spends[a]
             PROVE  o \in Created(b)
    BY DEF Spent
<1>1. a \in Blocks \ {Genesis}
    BY TreeAssumption, CoinAssumption
<1>2. o \in Created(Parent[a])
    BY <1>1 DEF SoundChain, UnspentAt
<1>3. Chain[Parent[a]] \subseteq Chain[b]
    BY <1>1, ParentChain, TreeAssumption
<1> QED
    BY <1>2, <1>3 DEF Created

\* A block creates nothing that its parent's chain created before.
LEMMA CreatedOnce ==
    ASSUME NEW b \in Blocks \ {Genesis}
    PROVE  Creates[b] \cap Created(Parent[b]) = {}
    BY CoinAssumption DEF Created

\* DisconnectBlock: undoing the last block of a sound chain gives the coins of the
\* parent's chain again.
LEMMA Undo ==
    ASSUME NEW b \in Blocks \ {Genesis}, SoundChain(b)
    PROVE  /\ SoundChain(Parent[b])
           /\ (UnspentAt(b) \ Creates[b]) \cup Spends[b] = UnspentAt(Parent[b])
<1>1. SoundChain(Parent[b])
    BY ParentChain DEF SoundChain
<1>2. Spends[b] \subseteq UnspentAt(Parent[b])
    BY ParentChain DEF SoundChain
<1> QED
    BY <1>1, <1>2, OneMore, CreatedOnce DEF UnspentAt

\* ConnectBlock: a block that spends unspent outputs only extends a sound chain to a
\* sound chain, and taking and adding its outputs gives that chain's coins.
LEMMA Redo ==
    ASSUME NEW b \in Blocks \ {Genesis}, SoundChain(Parent[b]),
           Spends[b] \subseteq UnspentAt(Parent[b])
    PROVE  /\ SoundChain(b)
           /\ (UnspentAt(Parent[b]) \ Spends[b]) \cup Creates[b] = UnspentAt(b)
<1>1. SoundChain(b)
    BY ParentChain DEF SoundChain
<1>2. Spent(Parent[b]) \subseteq Created(Parent[b])
    BY SpentIsCreated, ParentChain
<1>3. Spends[b] \subseteq Created(Parent[b])
    BY DEF UnspentAt
<1> QED
    BY <1>1, <1>2, <1>3, OneMore, CreatedOnce DEF UnspentAt

\* No output is spent twice along a sound chain.
LEMMA SpentOnce ==
    ASSUME NEW c \in Blocks, SoundChain(c), NEW a \in Chain[c], NEW b \in Chain[c], a # b
    PROVE  Spends[a] \cap Spends[b] = {}
<1>1. ASSUME NEW x \in Chain[c], NEW y \in Chain[c], x # y, x \in Chain[y]
      PROVE  Spends[x] \cap Spends[y] = {}
    <2>1. y \in Blocks \ {Genesis}
        BY <1>1, TreeAssumption
    <2>2. x \in Chain[Parent[y]]
        BY <1>1, <2>1, ParentChain
    <2>3. Spends[y] \cap Spent(Parent[y]) = {}
        BY <2>1 DEF SoundChain, UnspentAt
    <2> QED
        BY <2>2, <2>3 DEF Spent
<1> QED
    BY <1>1, TreeAssumption

---------------------------------------------------------------------------
(* The order of the candidates.                                            *)

\* Work grows along a chain.  (A block that breaks this with the smallest chain would have
\* a parent that breaks it.)
LEMMA ChainWork ==
    ASSUME NEW b \in Blocks, NEW a \in Chain[b], a # b
    PROVE  Work[a] < Work[b]
<1> DEFINE Odd == {z \in Blocks : a \in Chain[z] /\ a # z /\ ~(Work[a] < Work[z])}
           Bad == {Chain[y] : y \in Odd}
<1>1. a \in Blocks
    BY TreeAssumption
<1> SUFFICES ASSUME Bad # {}
             PROVE  FALSE
    OBVIOUS
<1>2. Bad \subseteq FiniteSubsetsOf(Blocks)
    <2>1. Bad \subseteq SUBSET Blocks
        BY TreeAssumption
    <2>2. FiniteSubsetsOf(Blocks) = SUBSET Blocks
        BY TreeAssumption, FS_FiniteSubsetsOfFinite
    <2> QED
        BY <2>1, <2>2
<1>3. PICK m \in Bad : \A n \in Bad : <<n, m>> \notin StrictSubsetOrdering(Blocks)
    <2> HIDE DEF Bad
    <2> QED
        BY <1>2, FS_StrictSubsetOrderingWellFounded, WFMin
<1>4. PICK y \in Blocks : m = Chain[y] /\ a \in Chain[y] /\ a # y /\ ~(Work[a] < Work[y])
    BY <1>3
<1>5. y # Genesis
    BY <1>4, TreeAssumption
<1>6. /\ Parent[y] \in Blocks
      /\ a \in Chain[Parent[y]]
      /\ Chain[Parent[y]] \subseteq Chain[y] /\ Chain[Parent[y]] # Chain[y]
    BY <1>4, <1>5, ParentChain
<1>7. Work[Parent[y]] < Work[y] /\ Work[a] \in Nat /\ Work[y] \in Nat /\ Work[Parent[y]] \in Nat
    BY <1>1, <1>5, <1>6, MeasureAssumption
<1>8. a # Parent[y] /\ ~(Work[a] < Work[Parent[y]])
    BY <1>4, <1>7
<1>9. Chain[Parent[y]] \in Bad
    BY <1>6, <1>8
<1>10. <<Chain[Parent[y]], Chain[y]>> \in StrictSubsetOrdering(Blocks)
    BY <1>6, TreeAssumption DEF StrictSubsetOrdering
<1> QED
    BY <1>3, <1>4, <1>9, <1>10

\* CBlockIndexWorkComparator is a strict total order.
LEMMA WorseIrreflexive ==
    ASSUME NEW s \in [Blocks -> Nat], NEW a \in Blocks
    PROVE  ~Worse(s, a, a)
    BY MeasureAssumption DEF Worse

LEMMA WorseTotal ==
    ASSUME NEW s \in [Blocks -> Nat], NEW a \in Blocks, NEW b \in Blocks, a # b
    PROVE  Worse(s, a, b) \/ Worse(s, b, a)
    BY MeasureAssumption DEF Worse

LEMMA WorseAsymmetric ==
    ASSUME NEW s \in [Blocks -> Nat], NEW a \in Blocks, NEW b \in Blocks, Worse(s, a, b)
    PROVE  ~Worse(s, b, a)
    BY MeasureAssumption DEF Worse

LEMMA NotWorseTransitive ==
    ASSUME NEW s \in [Blocks -> Nat], NEW a \in Blocks, NEW b \in Blocks, NEW c \in Blocks,
           ~Worse(s, a, b), ~Worse(s, b, c)
    PROVE  ~Worse(s, a, c)
    BY MeasureAssumption DEF Worse

\* An ancestor is worse, whatever the sequence numbers.
LEMMA AncestorWorse ==
    ASSUME NEW s, NEW b \in Blocks, NEW a \in Chain[b], a # b
    PROVE  Worse(s, a, b)
    BY ChainWork DEF Worse

---------------------------------------------------------------------------
(* The inductive invariant.                                                *)

\* The labels a thread is at only while it holds cs_main.
Critical == {"find", "step", "invalidate", "disconnect"}

ThreadInv ==
    /\ \A t \in Threads :
          /\ pc[t] \in Critical <=> csMain = t
          /\ pc[t] \in {"accept", "invalidate"} => blk[t] \in Blocks \ {Genesis}
          /\ pc[t] = "step" => /\ most[t] \in linked
                               /\ oldTip[t] \in Blocks
                               /\ (Chain[most[t]] \ Chain[tip]) \cap Failed = {}

ChainInv ==
    /\ tip \in linked
    /\ Chain[tip] \ {Genesis} \subseteq scripts
    /\ coins = UnspentAt(tip)
    /\ SoundChain(tip)

FailedInv ==
    \A x \in Chain[tip] \cap Failed :
        \E t \in Threads : pc[t] = "invalidate" /\ blk[t] \in Chain[x]

Inv ==
    /\ TypeOK
    /\ IndexConsistent
    /\ ThreadInv
    /\ ChainInv
    /\ FailedInv
    /\ StakeSpentSound

---------------------------------------------------------------------------
(* Consequences of the invariant used under several actions.               *)

\* cs_main is free or somebody else's: no call is inside InvalidateBlock but t's.
LEMMA OnlyHolder ==
    ASSUME ThreadInv, NULL \notin Threads, NEW t \in Threads, csMain \in {NULL, t},
           NEW u \in Threads, u # t
    PROVE  pc[u] \notin Critical
    BY DEF ThreadInv

\* With no call inside InvalidateBlock the active chain holds no failed block.
LEMMA ActiveUnfailed ==
    ASSUME FailedInv, \A t \in Threads : pc[t] # "invalidate"
    PROVE  Chain[tip] \cap Failed = {}
    BY DEF FailedInv

\* DisconnectTip goes to the parent's chain and its coins, and forgets its spends.
LEMMA DisconnectTipEffect ==
    ASSUME TypeOK, ChainInv, IndexConsistent, StakeSpentSound, tip # Genesis, DisconnectTip
    PROVE  /\ tip' \in Blocks \cap linked
           /\ tip' = Parent[tip]
           /\ Chain[tip'] = Chain[tip] \ {tip}
           /\ coins' = UnspentAt(tip')
           /\ SoundChain(tip')
           /\ coins' \subseteq Outpoints
           /\ stakeSpent' \in [Outpoints -> Nat \cup {Absent}]
           /\ StakeSpentSound'
<1>1. tip \in Blocks \ {Genesis}
    BY DEF TypeOK
<1>2. /\ tip' \in Blocks
      /\ tip' = Parent[tip]
      /\ Chain[tip'] = Chain[tip] \ {tip}
    BY <1>1, ParentChain DEF DisconnectTip
<1>3. tip' \in linked
    BY <1>1, <1>2 DEF ChainInv, IndexConsistent
<1>4. coins' = UnspentAt(tip') /\ SoundChain(tip')
    BY <1>1, <1>2, Undo DEF DisconnectTip, ChainInv
<1>5. coins' \subseteq Outpoints
    BY <1>1, CoinAssumption DEF DisconnectTip, TypeOK
<1>6. stakeSpent' \in [Outpoints -> Nat \cup {Absent}]
    BY DEF DisconnectTip, TypeOK
<1>7. StakeSpentSound'
    <2> SUFFICES ASSUME NEW o \in Outpoints, stakeSpent'[o] # Absent
                 PROVE  \E b \in Chain[tip'] : o \in Spends[b] /\ Height[b] = stakeSpent'[o]
        BY DEF StakeSpentSound
    <2>1. o \notin Spends[tip] /\ stakeSpent'[o] = stakeSpent[o]
        BY DEF DisconnectTip
    <2> QED
        BY <1>2, <2>1 DEF StakeSpentSound
<1> QED
    BY <1>2, <1>3, <1>4, <1>5, <1>6, <1>7

\* ConnectTip goes to the child's chain and its coins.
LEMMA ConnectTipEffect ==
    ASSUME TypeOK, ChainInv, StakeSpentSound,
           NEW b \in Blocks \ {Genesis}, Parent[b] = tip, Spends[b] \subseteq coins,
           tip' = b,
           coins' = (coins \ Spends[b]) \cup Creates[b],
           stakeSpent' = StakeSpentWith(b)
    PROVE  /\ Chain[tip'] = Chain[tip] \cup {b}
           /\ b \notin Chain[tip]
           /\ coins' = UnspentAt(tip')
           /\ SoundChain(tip')
           /\ coins' \subseteq Outpoints
           /\ stakeSpent' \in [Outpoints -> Nat \cup {Absent}]
           /\ StakeSpentSound'
<1>1. Chain[tip'] = Chain[tip] \cup {b} /\ b \notin Chain[tip]
    BY ParentChain
<1>2. coins' = UnspentAt(tip') /\ SoundChain(tip')
    BY Redo DEF ChainInv
<1>3. coins' \subseteq Outpoints
    BY CoinAssumption DEF TypeOK
<1>4. Height[b] \in Nat
    BY MeasureAssumption
<1>5. stakeSpent' \in [Outpoints -> Nat \cup {Absent}]
    BY <1>4 DEF StakeSpentWith, TypeOK
<1>6. StakeSpentSound'
    <2> SUFFICES ASSUME NEW o \in Outpoints, stakeSpent'[o] # Absent
                 PROVE  \E c \in Chain[tip'] : o \in Spends[c] /\ Height[c] = stakeSpent'[o]
        BY DEF StakeSpentSound
    <2>1. CASE o \in Spends[b] /\ stakeSpent[o] = Absent
        BY <1>1, <2>1 DEF StakeSpentWith
    <2>2. CASE ~(o \in Spends[b] /\ stakeSpent[o] = Absent)
        <3>1. stakeSpent'[o] = stakeSpent[o] /\ stakeSpent[o] # Absent
            BY <2>2 DEF StakeSpentWith
        <3> QED
            BY <1>1, <3>1 DEF StakeSpentSound
    <2> QED
        BY <2>1, <2>2
<1> QED
    BY <1>1, <1>2, <1>3, <1>5, <1>6

---------------------------------------------------------------------------
(* What keeps each part of the invariant, whatever the action.             *)

\* The index stays consistent while its status sets stand still and candidates stay linked.
LEMMA IndexFrame ==
    ASSUME IndexConsistent, UNCHANGED <<known, data, linked, scripts, unlinked>>,
           candidates' \subseteq linked
    PROVE  IndexConsistent'
    BY DEF IndexConsistent

\* What mapStakeSpent promises depends on the active chain and mapStakeSpent alone.
LEMMA StakeFrame ==
    ASSUME StakeSpentSound, UNCHANGED chainVars
    PROVE  StakeSpentSound'
    BY DEF StakeSpentSound, chainVars

\* What is promised of the tip and its coins survives any growth of the index.
LEMMA ChainFrame ==
    ASSUME ChainInv, UNCHANGED chainVars, linked \subseteq linked', scripts \subseteq scripts'
    PROVE  ChainInv'
    BY DEF ChainInv, chainVars

\* Nothing becomes failed, and a thread leaves InvalidateBlock only when it may.
LEMMA FailedFrame ==
    ASSUME FailedInv, UNCHANGED tip, Failed' \subseteq Failed,
           \A t \in Threads : pc[t] = "invalidate" => pc'[t] = pc[t] /\ blk'[t] = blk[t]
    PROVE  FailedInv'
    BY DEF FailedInv

\* A thread that does not hold cs_main moves between labels outside the critical ones.
LEMMA ThreadFrame ==
    ASSUME TypeOK, ThreadInv, NULL \notin Threads, NEW t \in Threads,
           pc[t] \notin Critical, pc'[t] \notin Critical, csMain' = csMain,
           pc'[t] = "accept" => blk'[t] \in Blocks \ {Genesis},
           \A u \in Threads \ {t} : /\ pc'[u] = pc[u]
                                    /\ blk'[u] = blk[u]
                                    /\ most'[u] = most[u]
                                    /\ oldTip'[u] = oldTip[u],
           UNCHANGED tip, linked \subseteq linked',
           \A u \in Threads : pc[u] # "step" \/ Failed' \subseteq Failed
    PROVE  ThreadInv'
    BY DEF ThreadInv, TypeOK, Critical

\* The holder of cs_main gives it up, or a thread that found it free does not keep it.
LEMMA ThreadRelease ==
    ASSUME TypeOK, ThreadInv, NULL \notin Threads, NEW t \in Threads,
           csMain \in {NULL, t}, csMain' = NULL,
           pc'[t] \notin Critical \cup {"accept"},
           \A u \in Threads \ {t} : pc'[u] = pc[u] /\ blk'[u] = blk[u]
    PROVE  ThreadInv'
    BY OnlyHolder DEF ThreadInv, TypeOK, Critical

\* The call of a thread that holds cs_main, or found it free, returns.
LEMMA ThreadReturn ==
    ASSUME TypeOK, ThreadInv, NEW t \in Threads, csMain \in {NULL, t}, Return(t)
    PROVE  ThreadInv'
<1>1. \A u \in Threads \ {t} : pc'[u] = pc[u] /\ blk'[u] = blk[u]
    BY DEF Return, TypeOK
<1>2. pc'[t] \notin Critical \cup {"accept"}
    BY DEF Return, TypeOK, Critical
<1>3. csMain' = NULL /\ NULL \notin Threads
    BY ChainStateAssumption DEF Return
<1> QED
    BY <1>1, <1>2, <1>3, ThreadRelease

\* A thread takes cs_main, or goes on under it.
LEMMA ThreadHold ==
    ASSUME TypeOK, ThreadInv, NULL \notin Threads, NEW t \in Threads,
           csMain \in {NULL, t}, csMain' = t,
           pc'[t] \in Critical,
           \A u \in Threads \ {t} : pc'[u] = pc[u] /\ blk'[u] = blk[u],
           pc'[t] = "invalidate" => blk'[t] \in Blocks \ {Genesis},
           pc'[t] = "step" => /\ most'[t] \in linked'
                            /\ oldTip'[t] \in Blocks
                            /\ (Chain[most'[t]] \ Chain[tip']) \cap Failed' = {}
    PROVE  ThreadInv'
    BY OnlyHolder DEF ThreadInv, TypeOK, Critical

---------------------------------------------------------------------------
(* One lemma per action.                                                   *)

\* The node starts with the root block stored, active and the only candidate.
LEMMA InitInv == Init => Inv
<1> SUFFICES ASSUME Init PROVE Inv
    OBVIOUS
<1>1. TypeOK
    BY TreeAssumption, CoinAssumption DEF Init, TypeOK, PCs
<1>2. IndexConsistent
    BY TreeAssumption DEF Init, IndexConsistent
<1>3. ThreadInv
    BY ChainStateAssumption DEF Init, ThreadInv, Critical
<1>4. ChainInv
    BY TreeAssumption, CoinAssumption
    DEF Init, ChainInv, UnspentAt, Created, Spent, SoundChain
<1>5. FailedInv
    BY DEF Init, FailedInv, Failed
<1>6. StakeSpentSound
    BY DEF Init, StakeSpentSound
<1> QED
    BY <1>1, <1>2, <1>3, <1>4, <1>5, <1>6 DEF Inv

\* Taking a block from a peer, the miner or submitblock changes no shared state.
LEMMA ReceiveBlockInv ==
    ASSUME Inv, NEW t \in Threads, NEW b \in Blocks, ReceiveBlock(t, b)
    PROVE  Inv'
<1> USE DEF Inv
<1>1. UNCHANGED <<known, data, linked, scripts, failedValid, failedChild, unlinked,
                  candidates, tip, most, oldTip, csMain>>
    BY DEF ReceiveBlock, Goto, indexVars, chainVars
<1>2. TypeOK'
    BY <1>1 DEF ReceiveBlock, Offered, Goto, TypeOK, PCs, indexVars, chainVars, lockVars
<1>3. IndexConsistent'
    BY <1>1, IndexFrame DEF IndexConsistent
<1>4. ThreadInv'
    BY <1>1, ThreadFrame, ChainStateAssumption
    DEF ReceiveBlock, Offered, Goto, Critical, Failed, TypeOK
<1>5. ChainInv'
    BY <1>1, ChainFrame DEF ReceiveBlock
<1>6. FailedInv'
    BY <1>1, FailedFrame DEF ReceiveBlock, Offered, Goto, Failed, TypeOK
<1>7. StakeSpentSound'
    BY StakeFrame DEF ReceiveBlock
<1> QED
    BY <1>2, <1>3, <1>4, <1>5, <1>6, <1>7

\* A block refused for a transaction lock is only noted in mapRejectedBlocks.
LEMMA RefuseBlockInv ==
    ASSUME Inv, NEW t \in Threads, NEW b \in Blocks, RefuseBlock(t, b)
    PROVE  Inv'
<1> USE DEF Inv
<1>1. /\ UNCHANGED <<known, data, linked, scripts, failedValid, failedChild, unlinked,
                     candidates, tip, pc, blk, most, oldTip, csMain>>
      /\ UNCHANGED chainVars
    BY DEF RefuseBlock, indexVars, chainVars, localVars
<1>2. TypeOK'
    BY DEF RefuseBlock, TypeOK, indexVars, chainVars, localVars
<1>3. IndexConsistent'
    BY <1>1, IndexFrame DEF IndexConsistent
<1>4. ThreadInv'
    BY <1>1 DEF ThreadInv, Failed
<1>5. ChainInv'
    BY <1>1, ChainFrame
<1>6. FailedInv'
    BY <1>1, FailedFrame DEF Failed
<1>7. StakeSpentSound'
    BY <1>1, StakeFrame
<1> QED
    BY <1>2, <1>3, <1>4, <1>5, <1>6, <1>7

\* AcceptBlockHeader turns the block away before it gets an index entry.
LEMMA AcceptTurnedAwayInv ==
    ASSUME Inv, NEW t \in Threads, AcceptTurnedAway(t)
    PROVE  Inv'
<1> USE DEF Inv
<1>1. /\ UNCHANGED <<known, data, linked, scripts, failedValid, failedChild, unlinked,
                     candidates, tip>>
      /\ UNCHANGED chainVars
    BY DEF AcceptTurnedAway, indexVars, chainVars
<1>2. TypeOK'
    BY DEF AcceptTurnedAway, Return, TypeOK, PCs, indexVars, chainVars, lockVars
<1>3. IndexConsistent'
    BY <1>1, IndexFrame DEF IndexConsistent
<1>4. ThreadInv'
    BY ThreadReturn DEF AcceptTurnedAway, AtAccept
<1>5. ChainInv'
    BY <1>1, ChainFrame
<1>6. FailedInv'
    BY <1>1, FailedFrame DEF AcceptTurnedAway, AtAccept, Return, Failed, TypeOK
<1>7. StakeSpentSound'
    BY <1>1, StakeFrame
<1> QED
    BY <1>2, <1>3, <1>4, <1>5, <1>6, <1>7

\* AcceptBlock finds the block stored already.
LEMMA AcceptDuplicateInv ==
    ASSUME Inv, NEW t \in Threads, AcceptDuplicate(t)
    PROVE  Inv'
<1> USE DEF Inv
<1>1. /\ UNCHANGED <<known, data, linked, scripts, failedValid, failedChild, unlinked,
                     candidates, tip, blk, most, oldTip, csMain>>
      /\ UNCHANGED chainVars
    BY DEF AcceptDuplicate, Goto, indexVars, chainVars, localVars
<1>2. TypeOK'
    BY DEF AcceptDuplicate, Goto, TypeOK, PCs, indexVars, chainVars, lockVars, localVars
<1>3. IndexConsistent'
    BY <1>1, IndexFrame DEF IndexConsistent
<1>4. ThreadInv'
    BY <1>1, ThreadFrame, ChainStateAssumption
    DEF AcceptDuplicate, AtAccept, Goto, Critical, Failed, TypeOK
<1>5. ChainInv'
    BY <1>1, ChainFrame
<1>6. FailedInv'
    BY <1>1, FailedFrame DEF AcceptDuplicate, AtAccept, Goto, Failed, TypeOK
<1>7. StakeSpentSound'
    BY <1>1, StakeFrame
<1> QED
    BY <1>2, <1>3, <1>4, <1>5, <1>6, <1>7

\* A block that is accepted far enough to get an entry has a parent with an entry.
LEMMA EntryAdded ==
    ASSUME IndexConsistent, ThreadInv, NEW t \in Threads, pc[t] = "accept",
           ~TurnedAway(blk[t])
    PROVE  /\ blk[t] \in Blocks \ {Genesis}
           /\ \A x \in known \cup {blk[t]} : Chain[x] \subseteq known \cup {blk[t]}
    BY ParentChain DEF IndexConsistent, ThreadInv, TurnedAway

\* A block that fails ContextualCheckBlock gets a failed entry, off the active chain.
LEMMA AcceptInvalidInv ==
    ASSUME Inv, NEW t \in Threads, AcceptInvalid(t)
    PROVE  Inv'
<1> USE DEF Inv
<1>1. /\ UNCHANGED <<data, linked, scripts, failedChild, unlinked, candidates, tip>>
      /\ UNCHANGED chainVars
    BY DEF AcceptInvalid, chainVars
<1>2. blk[t] \in Blocks \ {Genesis} /\ blk[t] \notin data
    BY EntryAdded DEF AcceptInvalid, AtAccept
<1>3. TypeOK'
    BY <1>2 DEF AcceptInvalid, Return, TypeOK, PCs, chainVars, lockVars
<1>4. IndexConsistent'
    BY <1>1, EntryAdded DEF AcceptInvalid, AtAccept, IndexConsistent
<1>5. ThreadInv'
    BY ThreadReturn DEF AcceptInvalid, AtAccept
<1>6. ChainInv'
    BY <1>1, ChainFrame
<1>7. FailedInv'
    <2>1. blk[t] \notin Chain[tip]
        BY <1>2 DEF ChainInv, IndexConsistent
    <2>2. Chain[tip] \cap Failed' = Chain[tip] \cap Failed
        BY <1>1, <2>1 DEF AcceptInvalid, Failed
    <2>3. \A u \in Threads : pc[u] # "invalidate"
        BY ChainStateAssumption DEF AcceptInvalid, AtAccept, ThreadInv, Critical
    <2> QED
        BY <1>1, <2>2, <2>3, ActiveUnfailed DEF FailedInv
<1>8. StakeSpentSound'
    BY <1>1, StakeFrame
<1> QED
    BY <1>3, <1>4, <1>5, <1>6, <1>7, <1>8

\* A block that fails the coinstake check leaves a header behind and nothing more.
LEMMA AcceptStakeSpentInv ==
    ASSUME Inv, NEW t \in Threads, AcceptStakeSpent(t)
    PROVE  Inv'
<1> USE DEF Inv
<1>1. /\ UNCHANGED <<data, linked, scripts, failedValid, failedChild, unlinked,
                     candidates, tip>>
      /\ UNCHANGED chainVars
    BY DEF AcceptStakeSpent, chainVars
<1>2. TypeOK'
    BY EntryAdded
    DEF AcceptStakeSpent, AtAccept, Return, TypeOK, PCs, chainVars, lockVars
<1>3. IndexConsistent'
    BY <1>1, EntryAdded DEF AcceptStakeSpent, AtAccept, IndexConsistent
<1>4. ThreadInv'
    BY ThreadReturn DEF AcceptStakeSpent, AtAccept
<1>5. ChainInv'
    BY <1>1, ChainFrame
<1>6. FailedInv'
    BY <1>1, FailedFrame DEF AcceptStakeSpent, AtAccept, Return, Failed, TypeOK
<1>7. StakeSpentSound'
    BY <1>1, StakeFrame
<1> QED
    BY <1>2, <1>3, <1>4, <1>5, <1>6, <1>7

\* What ReceivedBlockTransactions and FindMostWorkChain keep of the index, whatever is
\* known of the ancestors.
Sorted ==
    /\ linked = {b \in Blocks : Chain[b] \subseteq data}
    /\ unlinked = data \ linked
    /\ candidates \subseteq linked

\* ReceivedBlockTransactions on a block with a linked parent links exactly the blocks
\* whose chains the new block completes.
LEMMA LinkIndex ==
    ASSUME Sorted, data \subseteq Blocks, linked \subseteq Blocks,
           NEW b \in Blocks \ {Genesis}, b \notin data, Parent[b] \in linked, Link(b),
           data' = data \cup {b}
    PROVE  /\ linked' = {x \in Blocks : Chain[x] \subseteq data'}
           /\ linked \subseteq linked'
           /\ unlinked' = data' \ linked'
           /\ candidates' \subseteq linked'
<1> DEFINE S == Cascade(b)
<1>1. /\ linked' = linked \cup S
      /\ unlinked' = unlinked \ S
      /\ candidates' \subseteq candidates \cup S
    BY DEF Link, NewCandidates
<1>2. b \in S /\ S \subseteq Blocks
    BY DEF Cascade, Sorted
<1>3. Chain[b] \subseteq data'
    BY ParentChain DEF Sorted
<1>4. ASSUME NEW x \in linked \cup S
      PROVE  Chain[x] \subseteq data'
    BY <1>3 DEF Cascade, Sorted
<1>5. ASSUME NEW x \in Blocks, Chain[x] \subseteq data', x \notin linked, x # b
      PROVE  x \in S
    <2>1. b \in Chain[x] /\ x \in unlinked
        BY <1>5, TreeAssumption DEF Sorted
    <2>2. ASSUME NEW y \in Chain[x] \ Chain[b]
          PROVE  y \in unlinked
        <3>1. b \in Chain[y]
            BY <2>1, Above
        <3>2. y \in data /\ y \notin linked
            BY <1>5, <3>1, TreeAssumption DEF Sorted
        <3> QED
            BY <3>2 DEF Sorted
    <2> QED
        BY <2>1, <2>2 DEF Cascade
<1>6. linked' = {x \in Blocks : Chain[x] \subseteq data'}
    <2> HIDE DEF S
    <2>1. \A x \in Blocks : Chain[x] \subseteq data' => x \in linked'
        BY <1>1, <1>2, <1>5
    <2>2. \A x \in linked' : Chain[x] \subseteq data'
        BY <1>1, <1>4
    <2>3. linked' \subseteq Blocks
        BY <1>1, <1>2
    <2> QED
        BY <2>1, <2>2, <2>3
<1>7. unlinked' = data' \ linked'
    <2> HIDE DEF S
    <2> QED
        BY <1>1, <1>2 DEF Sorted
<1>8. candidates' \subseteq linked'
    BY <1>1 DEF Sorted
<1> QED
    BY <1>1, <1>6, <1>7, <1>8

\* Without a linked parent the new block completes no chain.
LEMMA WaitIndex ==
    ASSUME Sorted, data \subseteq Blocks,
           NEW b \in Blocks \ {Genesis}, b \notin data, Parent[b] \notin linked, Wait(b),
           data' = data \cup {b}
    PROVE  /\ linked' = {x \in Blocks : Chain[x] \subseteq data'}
           /\ linked' = linked
           /\ unlinked' = data' \ linked'
           /\ candidates' \subseteq linked'
<1>1. linked' = linked /\ unlinked' = unlinked \cup {b} /\ candidates' = candidates
    BY DEF Wait
<1>2. ASSUME NEW x \in Blocks, Chain[x] \subseteq data'
      PROVE  b \notin Chain[x]
    <2> SUFFICES ASSUME b \in Chain[x] PROVE FALSE
        OBVIOUS
    <2>1. Chain[b] \subseteq data'
        BY <1>2, TreeAssumption
    <2>2. Chain[Parent[b]] \subseteq data
        BY <2>1, ParentChain
    <2> QED
        BY <2>2, ParentChain DEF Sorted
<1>3. linked' = {x \in Blocks : Chain[x] \subseteq data'}
    BY <1>1, <1>2 DEF Sorted
<1>4. b \notin linked
    BY TreeAssumption DEF Sorted
<1> QED
    BY <1>1, <1>3, <1>4 DEF Sorted

\* The sequence numbers ReceivedBlockTransactions hands out are natural numbers.
LEMMA LinkTypes ==
    ASSUME linked \subseteq Blocks, unlinked \subseteq Blocks, candidates \subseteq Blocks,
           seq \in [Blocks -> Nat], nextSeq \in Nat, NEW b \in Blocks, Link(b)
    PROVE  /\ linked' \subseteq Blocks
           /\ unlinked' \subseteq Blocks
           /\ candidates' \subseteq Blocks
           /\ seq' \in [Blocks -> Nat]
           /\ nextSeq' \in Nat
<1> DEFINE S == Cascade(b)
<1>1. S \subseteq Blocks
    BY DEF Cascade
<1>2. Cardinality(S) \in Nat
    BY <1>1, TreeAssumption, FS_Subset, FS_CardinalityType
<1>3. PICK f \in VisitOrders(S) :
          LET s == [x \in Blocks |-> IF x \in S THEN nextSeq + f[x] ELSE seq[x]] IN
          /\ linked' = linked \cup S
          /\ seq' = s
          /\ nextSeq' = nextSeq + Cardinality(S)
          /\ candidates' = candidates \cup NewCandidates(s, S)
          /\ unlinked' = unlinked \ S
    BY DEF Link
<1>4. f \in [S -> 0 .. Cardinality(S) - 1]
    BY DEF VisitOrders
<1> HIDE DEF S
<1>5. linked' \subseteq Blocks /\ unlinked' \subseteq Blocks
    BY <1>1, <1>3
<1>6. candidates' \subseteq Blocks
    BY <1>1, <1>3 DEF NewCandidates
<1>7. \A x \in S : f[x] \in Nat
    BY <1>2, <1>4
<1>8. seq' \in [Blocks -> Nat]
    BY <1>3, <1>7
<1>9. nextSeq' \in Nat
    BY <1>2, <1>3
<1> QED
    BY <1>5, <1>6, <1>8, <1>9

\* Storing a block, with the cascade of ReceivedBlockTransactions, keeps nChainTx,
\* mapBlocksUnlinked and the candidates in step.
LEMMA AcceptStoreInv ==
    ASSUME Inv, NEW t \in Threads, AcceptStore(t)
    PROVE  Inv'
<1> USE DEF Inv
<1> DEFINE b == blk[t]
<1>1. /\ UNCHANGED <<scripts, failedValid, failedChild, tip, blk, most, oldTip, csMain>>
      /\ UNCHANGED chainVars
      /\ known' = known \cup {b}
      /\ data' = data \cup {b}
    BY DEF AcceptStore, Goto, chainVars, localVars
<1>2. /\ b \in Blocks \ {Genesis}
      /\ b \notin data
      /\ \A x \in known' : Chain[x] \subseteq known'
    BY <1>1, EntryAdded DEF AcceptStore, AtAccept
<1>3. IF Parent[b] \in linked THEN Link(b) ELSE Wait(b)
    BY DEF AcceptStore
<1>4. /\ linked' = {x \in Blocks : Chain[x] \subseteq data'}
      /\ linked \subseteq linked'
      /\ unlinked' = data' \ linked'
      /\ candidates' \subseteq linked'
    BY <1>1, <1>2, <1>3, LinkIndex, WaitIndex DEF TypeOK, IndexConsistent, Sorted
<1>5. /\ linked' \subseteq Blocks
      /\ unlinked' \subseteq Blocks
      /\ candidates' \subseteq Blocks
      /\ seq' \in [Blocks -> Nat]
      /\ nextSeq' \in Nat
    <2>1. CASE Parent[b] \in linked
        BY <1>2, <1>3, <2>1, LinkTypes DEF TypeOK
    <2>2. CASE Parent[b] \notin linked
        BY <1>2, <1>3, <2>2 DEF Wait, TypeOK
    <2> QED
        BY <2>1, <2>2
<1>6. TypeOK'
    BY <1>1, <1>2, <1>5 DEF AcceptStore, Goto, TypeOK, PCs, chainVars, lockVars, localVars
<1>7. IndexConsistent'
    BY <1>1, <1>2, <1>4 DEF IndexConsistent
<1>8. ThreadInv'
    BY <1>1, <1>4, ThreadFrame, ChainStateAssumption
    DEF AcceptStore, AtAccept, Goto, Critical, Failed, TypeOK
<1>9. ChainInv'
    BY <1>1, <1>4, ChainFrame
<1>10. FailedInv'
    BY <1>1, FailedFrame DEF AcceptStore, AtAccept, Goto, Failed, TypeOK
<1>11. StakeSpentSound'
    BY <1>1, StakeFrame
<1> QED
    BY <1>6, <1>7, <1>8, <1>9, <1>10, <1>11

\* Taking cs_main in ActivateBestChain.
LEMMA TryLockInv ==
    ASSUME Inv, NEW t \in Threads, TryLock(t)
    PROVE  Inv'
<1> USE DEF Inv
<1>1. /\ UNCHANGED <<known, data, linked, scripts, failedValid, failedChild, unlinked,
                     candidates, tip, blk>>
      /\ UNCHANGED chainVars
    BY DEF TryLock, indexVars, chainVars, localVars
<1>2. TypeOK'
    BY DEF TryLock, Acquire, TypeOK, PCs, indexVars, chainVars, lockVars, localVars
<1>3. IndexConsistent'
    BY <1>1, IndexFrame DEF IndexConsistent
<1>4. ThreadInv'
    BY <1>1, ThreadHold, ChainStateAssumption DEF TryLock, Acquire, Critical, TypeOK
<1>5. ChainInv'
    BY <1>1, ChainFrame
<1>6. FailedInv'
    BY <1>1, FailedFrame DEF TryLock, Acquire, Failed, TypeOK
<1>7. StakeSpentSound'
    BY <1>1, StakeFrame
<1> QED
    BY <1>2, <1>3, <1>4, <1>5, <1>6, <1>7

\* What FindMostWorkChain drops lies above a failed block outside the active chain: no
\* data is ever missing on a candidate's path, and nothing active is marked.
LEMMA DroppedAreInactive ==
    ASSUME Sorted, data \subseteq Blocks, tip \in Blocks,
           NEW c \in candidates, NEW x \in Unusable(c)
    PROVE  /\ c \in Blocks
           /\ x \in Failed
           /\ (Chain[c] \ Chain[x]) \cap Chain[tip] = {}
<1>1. c \in Blocks /\ Chain[c] \subseteq data
    BY DEF Sorted
<1>2. x \in Chain[c] /\ x \notin Chain[tip] /\ x \in Failed
    BY <1>1 DEF Unusable
<1>3. ASSUME NEW y \in Chain[c] \ Chain[x], y \in Chain[tip]
      PROVE  FALSE
    <2>1. x \in Chain[y]
        BY <1>1, <1>2, Above
    <2> QED
        BY <1>2, <1>3, <2>1, TreeAssumption
<1> QED
    BY <1>1, <1>2, <1>3

\* FindMostWorkChain's marking of a failed branch touches no block of the active chain
\* and moves no linked block to mapBlocksUnlinked.
LEMMA FindDropInv ==
    ASSUME Inv, NEW t \in Threads, FindDrop(t)
    PROVE  Inv'
<1> USE DEF Inv
<1>1. /\ UNCHANGED <<known, data, linked, scripts, failedValid, seq, nextSeq, tip, csMain,
                     pc, blk, most, oldTip, left>>
      /\ UNCHANGED chainVars
      /\ UNCHANGED lockVars
    BY DEF FindDrop, chainVars, lockVars, localVars
<1>2. PICK c \in candidates : \E x \in Unusable(c) :
          LET above == Chain[c] \ Chain[x] IN
          /\ failedChild' = IF x \in Failed THEN failedChild \cup above ELSE failedChild
          /\ unlinked' = IF x \in Failed THEN unlinked ELSE unlinked \cup above
          /\ candidates' = candidates \ (above \cup {x})
    BY DEF FindDrop
<1>3. PICK x \in Unusable(c) :
          LET above == Chain[c] \ Chain[x] IN
          /\ failedChild' = IF x \in Failed THEN failedChild \cup above ELSE failedChild
          /\ unlinked' = IF x \in Failed THEN unlinked ELSE unlinked \cup above
          /\ candidates' = candidates \ (above \cup {x})
    BY <1>2
<1>4. /\ c \in Blocks
      /\ x \in Failed
      /\ (Chain[c] \ Chain[x]) \cap Chain[tip] = {}
    BY DroppedAreInactive DEF TypeOK, IndexConsistent, Sorted
<1>5. /\ failedChild' = failedChild \cup (Chain[c] \ Chain[x])
      /\ unlinked' = unlinked
      /\ candidates' \subseteq candidates
    BY <1>3, <1>4
<1>6. Chain[c] \subseteq Blocks
    BY <1>4, TreeAssumption
<1>7. TypeOK'
    BY <1>1, <1>5, <1>6 DEF TypeOK, chainVars, lockVars
<1>8. IndexConsistent'
    BY <1>1, <1>5, IndexFrame DEF IndexConsistent
<1>9. ThreadInv'
    BY <1>1, ChainStateAssumption DEF FindDrop, Holds, ThreadInv, Critical
<1>10. ChainInv'
    BY <1>1, ChainFrame
<1>11. FailedInv'
    <2>1. Chain[tip] \cap Failed' = Chain[tip] \cap Failed
        BY <1>1, <1>4, <1>5 DEF Failed
    <2> QED
        BY <1>1, <2>1 DEF FailedInv
<1>12. StakeSpentSound'
    BY <1>1, StakeFrame
<1> QED
    BY <1>7, <1>8, <1>9, <1>10, <1>11, <1>12

\* FindMostWorkChain finds nothing better than the tip.
LEMMA FindNoneInv ==
    ASSUME Inv, NEW t \in Threads, FindNone(t)
    PROVE  Inv'
<1> USE DEF Inv
<1>1. /\ UNCHANGED <<known, data, linked, scripts, failedValid, failedChild, unlinked,
                     candidates, tip>>
      /\ UNCHANGED chainVars
    BY DEF FindNone, indexVars, chainVars
<1>2. TypeOK'
    BY DEF FindNone, Return, TypeOK, PCs, indexVars, chainVars, lockVars
<1>3. IndexConsistent'
    BY <1>1, IndexFrame DEF IndexConsistent
<1>4. ThreadInv'
    BY ThreadReturn DEF FindNone, Holds
<1>5. ChainInv'
    BY <1>1, ChainFrame
<1>6. FailedInv'
    BY <1>1, FailedFrame DEF FindNone, Holds, Return, Failed, TypeOK
<1>7. StakeSpentSound'
    BY <1>1, StakeFrame
<1> QED
    BY <1>2, <1>3, <1>4, <1>5, <1>6, <1>7

\* A candidate FindMostWorkChain returns is linked, and not failed above the fork.
LEMMA FindPickInv ==
    ASSUME Inv, NEW t \in Threads, FindPick(t)
    PROVE  Inv'
<1> USE DEF Inv
<1>1. /\ UNCHANGED <<known, data, linked, scripts, failedValid, failedChild, unlinked,
                     candidates, tip, blk>>
      /\ UNCHANGED chainVars
    BY DEF FindPick, indexVars, chainVars
<1>2. PICK c \in candidates : Unusable(c) = {} /\ most' = [most EXCEPT ![t] = c]
    BY DEF FindPick
<1>3. c \in linked /\ c \in Blocks
    BY DEF IndexConsistent, TypeOK
<1>4. TypeOK'
    BY <1>2, <1>3 DEF FindPick, Goto, TypeOK, PCs, indexVars, chainVars, lockVars
<1>5. IndexConsistent'
    BY <1>1, IndexFrame DEF IndexConsistent
<1>6. ThreadInv'
    <2>1. most'[t] = c /\ oldTip'[t] = tip /\ pc'[t] = "step" /\ csMain = t /\ csMain' = t
        BY <1>2 DEF FindPick, Goto, Holds, TypeOK
    <2>2. (Chain[c] \ Chain[tip]) \cap Failed = {}
        BY <1>2 DEF Unusable
    <2>3. \A u \in Threads \ {t} : pc'[u] = pc[u] /\ blk'[u] = blk[u]
        BY <1>1 DEF FindPick, Goto, TypeOK
    <2>4. pc'[t] \in Critical /\ pc'[t] # "invalidate"
        BY <2>1 DEF Critical
    <2>5. tip \in Blocks /\ Failed' = Failed /\ NULL \notin Threads
        BY <1>1, ChainStateAssumption DEF TypeOK, Failed
    <2> QED
        BY <1>1, <1>3, <2>1, <2>2, <2>3, <2>4, <2>5, ThreadHold
<1>7. ChainInv'
    BY <1>1, ChainFrame
<1>8. FailedInv'
    BY <1>1, FailedFrame DEF FindPick, Holds, Goto, Failed, TypeOK
<1>9. StakeSpentSound'
    BY <1>1, StakeFrame
<1> QED
    BY <1>4, <1>5, <1>6, <1>7, <1>8, <1>9

\* DisconnectTip on the way down to the fork: the coins are those of the parent again.
LEMMA StepDisconnectInv ==
    ASSUME Inv, NEW t \in Threads, StepDisconnect(t)
    PROVE  Inv'
<1> USE DEF Inv
<1>1. /\ UNCHANGED <<known, data, linked, scripts, failedValid, failedChild, unlinked,
                     candidates, blk, most, oldTip>>
      /\ UNCHANGED indexVars
      /\ UNCHANGED lockVars
      /\ UNCHANGED localVars
    BY DEF StepDisconnect, indexVars, localVars
<1>2. most[t] \in linked /\ most[t] \in Blocks /\ csMain = t
    BY DEF StepDisconnect, Holds, ThreadInv, TypeOK
<1>3. tip # Genesis
    BY <1>2, TreeAssumption DEF StepDisconnect
<1>4. /\ tip' \in Blocks \cap linked
      /\ tip' = Parent[tip]
      /\ Chain[tip'] = Chain[tip] \ {tip}
      /\ coins' = UnspentAt(tip')
      /\ SoundChain(tip')
      /\ coins' \subseteq Outpoints
      /\ stakeSpent' \in [Outpoints -> Nat \cup {Absent}]
      /\ StakeSpentSound'
    BY <1>3, DisconnectTipEffect DEF StepDisconnect
<1>5. \/ csMain' = NULL /\ pc' = [pc EXCEPT ![t] = "test"]
      \/ csMain' = t /\ pc' = [pc EXCEPT ![t] = "step"]
    BY <1>2 DEF StepDisconnect, Release, Goto
<1>6. TypeOK'
    BY <1>1, <1>4, <1>5 DEF TypeOK, PCs, indexVars, lockVars, localVars
<1>7. IndexConsistent'
    BY <1>1, IndexFrame DEF IndexConsistent
<1>8. ThreadInv'
    <2>1. \A u \in Threads \ {t} : pc'[u] = pc[u] /\ blk'[u] = blk[u]
        BY <1>1, <1>5 DEF TypeOK
    <2>2. CASE csMain' = NULL /\ pc' = [pc EXCEPT ![t] = "test"]
        BY <1>2, <2>1, <2>2, ThreadRelease, ChainStateAssumption DEF Critical, TypeOK
    <2>3. CASE csMain' = t /\ pc' = [pc EXCEPT ![t] = "step"]
        <3>1. (Chain[most[t]] \ Chain[tip]) \cap Failed = {}
            BY DEF StepDisconnect, Holds, ThreadInv
        <3>2. (Chain[most'[t]] \ Chain[tip']) \cap Failed' = {}
            BY <1>1, <1>4, <3>1 DEF StepDisconnect, Failed
        <3>3. pc'[t] = "step"
            BY <2>3 DEF TypeOK
        <3>4. most'[t] \in linked' /\ oldTip'[t] \in Blocks
            BY <1>1 DEF StepDisconnect, Holds, ThreadInv
        <3>5. NULL \notin Threads
            BY ChainStateAssumption
        <3> QED
            BY <1>2, <2>1, <2>3, <3>2, <3>3, <3>4, <3>5, ThreadHold DEF Critical
    <2> QED
        BY <1>5, <2>2, <2>3
<1>9. ChainInv'
    BY <1>1, <1>4 DEF ChainInv
<1>10. FailedInv'
    <2>1. \A u \in Threads : pc[u] # "invalidate"
        BY <1>2, OnlyHolder, ChainStateAssumption DEF StepDisconnect, Holds, Critical
    <2> QED
        BY <1>1, <1>4, <2>1, ActiveUnfailed DEF FailedInv, Failed
<1> QED
    BY <1>4, <1>6, <1>7, <1>8, <1>9, <1>10

\* ConnectTip: a block none of whose ancestors failed joins the active chain, and the
\* coins and mapStakeSpent follow it.
LEMMA StepConnectInv ==
    ASSUME Inv, NEW t \in Threads, StepConnect(t)
    PROVE  Inv'
<1> USE DEF Inv
<1>1. /\ UNCHANGED <<known, data, linked, failedValid, failedChild, seq, nextSeq, unlinked,
                     blk, most, oldTip, left>>
      /\ UNCHANGED lockVars
    BY DEF StepConnect, localVars
<1>2. most[t] \in linked /\ most[t] \in Blocks /\ csMain = t
    BY DEF StepConnect, Holds, ThreadInv, TypeOK
<1>3. PICK b \in Blocks :
          /\ IsNext(t, b)
          /\ Connects(t, b)
          /\ tip' = b
          /\ coins' = (coins \ Spends[b]) \cup Creates[b]
          /\ stakeSpent' = StakeSpentWith(b)
          /\ scripts' = scripts \cup {b}
          /\ candidates' = NotWorseThan(b)
          /\ IF b = most[t] \/ Work[b] > Work[oldTip[t]]
             THEN Release(t, "test")
             ELSE Goto(t, "step")
    BY DEF StepConnect
<1>4. /\ b \in Chain[most[t]]
      /\ b \in Blocks \ {Genesis}
      /\ Parent[b] = tip
      /\ Spends[b] \subseteq coins
    BY <1>3 DEF IsNext, Connects
<1>5. /\ Chain[tip'] = Chain[tip] \cup {b}
      /\ b \notin Chain[tip]
      /\ coins' = UnspentAt(tip')
      /\ SoundChain(tip')
      /\ coins' \subseteq Outpoints
      /\ stakeSpent' \in [Outpoints -> Nat \cup {Absent}]
      /\ StakeSpentSound'
    BY <1>3, <1>4, ConnectTipEffect
<1>6. b \in linked
    BY <1>2, <1>4, TreeAssumption DEF IndexConsistent
<1>7. \/ csMain' = NULL /\ pc' = [pc EXCEPT ![t] = "test"]
      \/ csMain' = t /\ pc' = [pc EXCEPT ![t] = "step"]
    BY <1>2, <1>3 DEF Release, Goto
<1>8. TypeOK'
    BY <1>1, <1>3, <1>5, <1>7 DEF TypeOK, PCs, lockVars, NotWorseThan
<1>9. IndexConsistent'
    <2>1. candidates' \subseteq linked
        BY <1>3 DEF NotWorseThan, IndexConsistent
    <2>2. \A x \in scripts' : Chain[x] \ {Genesis} \subseteq scripts'
        BY <1>3, <1>5 DEF ChainInv, IndexConsistent
    <2> QED
        BY <1>1, <2>1, <2>2 DEF IndexConsistent
<1>10. (Chain[most[t]] \ Chain[tip]) \cap Failed = {}
    BY DEF StepConnect, Holds, ThreadInv
<1>11. ThreadInv'
    <2>1. \A u \in Threads \ {t} : pc'[u] = pc[u] /\ blk'[u] = blk[u]
        BY <1>1, <1>7 DEF TypeOK
    <2>2. CASE csMain' = NULL /\ pc' = [pc EXCEPT ![t] = "test"]
        BY <1>2, <2>1, <2>2, ThreadRelease, ChainStateAssumption DEF Critical, TypeOK
    <2>3. CASE csMain' = t /\ pc' = [pc EXCEPT ![t] = "step"]
        <3>1. (Chain[most'[t]] \ Chain[tip']) \cap Failed' = {}
            BY <1>1, <1>5, <1>10 DEF Failed
        <3>2. pc'[t] = "step"
            BY <2>3 DEF TypeOK
        <3>3. most'[t] \in linked' /\ oldTip'[t] \in Blocks
            BY <1>1 DEF StepConnect, Holds, ThreadInv
        <3>4. NULL \notin Threads
            BY ChainStateAssumption
        <3> QED
            BY <1>2, <2>1, <2>3, <3>1, <3>2, <3>3, <3>4, ThreadHold DEF Critical
    <2> QED
        BY <1>7, <2>2, <2>3
<1>12. ChainInv'
    BY <1>1, <1>3, <1>5, <1>6 DEF ChainInv
<1>13. FailedInv'
    <2>1. \A u \in Threads : pc[u] # "invalidate"
        BY <1>2, OnlyHolder, ChainStateAssumption DEF StepConnect, Holds, Critical
    <2>2. b \notin Failed
        BY <1>4, <1>5, <1>10
    <2> QED
        BY <1>1, <1>5, <2>1, <2>2, ActiveUnfailed DEF FailedInv, Failed
<1> QED
    BY <1>5, <1>8, <1>9, <1>11, <1>12, <1>13

\* InvalidBlockFound marks a block above the tip, never one of the active chain.
LEMMA StepConnectFailsInv ==
    ASSUME Inv, NEW t \in Threads, StepConnectFails(t)
    PROVE  Inv'
<1> USE DEF Inv
<1>1. /\ UNCHANGED <<known, data, linked, scripts, failedChild, unlinked, tip, blk>>
      /\ UNCHANGED chainVars
    BY DEF StepConnectFails, chainVars, localVars
<1>2. PICK b \in Blocks :
          /\ IsNext(t, b)
          /\ InvalidBlockFound(b)
          /\ rejected' = IF Rechecked(t, b) /\ b \in refused THEN rejected \cup {b} ELSE rejected
    BY DEF StepConnectFails
<1>3. b \notin Chain[tip]
    BY <1>2, ParentChain DEF IsNext
<1>4. TypeOK'
    BY <1>2 DEF StepConnectFails, InvalidBlockFound, Release, TypeOK, PCs, chainVars, localVars
<1>5. IndexConsistent'
    BY <1>1, <1>2, IndexFrame DEF InvalidBlockFound, IndexConsistent
<1>6. ThreadInv'
    <2>1. csMain = t /\ csMain' = NULL /\ NULL \notin Threads
        BY ChainStateAssumption DEF StepConnectFails, Holds, Release
    <2>2. \A u \in Threads \ {t} : pc'[u] = pc[u] /\ blk'[u] = blk[u]
        BY <1>1 DEF StepConnectFails, Release, TypeOK
    <2>3. pc'[t] \notin Critical \cup {"accept"}
        BY DEF StepConnectFails, Release, TypeOK, Critical
    <2> QED
        BY <2>1, <2>2, <2>3, ThreadRelease
<1>7. ChainInv'
    BY <1>1, ChainFrame
<1>8. FailedInv'
    <2>1. \A u \in Threads : pc[u] # "invalidate"
        BY OnlyHolder, ChainStateAssumption DEF StepConnectFails, Holds, Critical
    <2>2. Chain[tip'] \cap Failed' = Chain[tip] \cap Failed
        BY <1>1, <1>2, <1>3 DEF InvalidBlockFound, Failed
    <2> QED
        BY <2>1, <2>2, ActiveUnfailed DEF FailedInv
<1>9. StakeSpentSound'
    BY <1>1, StakeFrame
<1> QED
    BY <1>4, <1>5, <1>6, <1>7, <1>8, <1>9

\* The loop condition of ActivateBestChain changes locals only.
LEMMA LoopTestInv ==
    ASSUME Inv, NEW t \in Threads, LoopTest(t)
    PROVE  Inv'
<1> USE DEF Inv
<1>1. /\ UNCHANGED <<known, data, linked, scripts, failedValid, failedChild, unlinked,
                     candidates, tip, csMain>>
      /\ UNCHANGED chainVars
    BY DEF LoopTest, indexVars, chainVars
<1>2. TypeOK'
    BY DEF LoopTest, TypeOK, PCs, indexVars, chainVars, lockVars
<1>3. IndexConsistent'
    BY <1>1, IndexFrame DEF IndexConsistent
<1>4. ThreadInv'
    <2>1. pc[t] \notin Critical /\ pc'[t] \notin Critical /\ pc'[t] # "accept"
        BY DEF LoopTest, TypeOK, Critical
    <2>2. \A u \in Threads \ {t} : /\ pc'[u] = pc[u]
                                   /\ blk'[u] = blk[u]
                                   /\ most'[u] = most[u]
                                   /\ oldTip'[u] = oldTip[u]
        BY DEF LoopTest, TypeOK
    <2> QED
        BY <1>1, <2>1, <2>2, ThreadFrame, ChainStateAssumption DEF Failed
<1>5. ChainInv'
    BY <1>1, ChainFrame
<1>6. FailedInv'
    BY <1>1, FailedFrame DEF LoopTest, Failed, TypeOK
<1>7. StakeSpentSound'
    BY <1>1, StakeFrame
<1> QED
    BY <1>2, <1>3, <1>4, <1>5, <1>6, <1>7

\* InvalidateBlock marks its block, which may be active: cs_main is held from here on.
LEMMA InvalidateInv ==
    ASSUME Inv, NEW t \in Threads, NEW b \in Invalidatable, Invalidate(t, b)
    PROVE  Inv'
<1> USE DEF Inv
<1>1. /\ UNCHANGED <<known, data, linked, scripts, failedChild, unlinked, tip>>
      /\ UNCHANGED chainVars
      /\ failedValid' = failedValid \cup {b}
      /\ candidates' \subseteq candidates
    BY DEF Invalidate, chainVars
<1>2. b \in Blocks \ {Genesis}
    BY ChainStateAssumption
<1>3. TypeOK'
    BY <1>2 DEF Invalidate, Acquire, TypeOK, PCs, chainVars, lockVars
<1>4. IndexConsistent'
    BY <1>1, IndexFrame DEF IndexConsistent
<1>5. csMain = NULL /\ csMain' = t /\ pc'[t] = "invalidate" /\ blk'[t] = b
    BY DEF Invalidate, Acquire, TypeOK
<1>6. ThreadInv'
    <2>1. \A u \in Threads \ {t} : pc'[u] = pc[u] /\ blk'[u] = blk[u]
        BY DEF Invalidate, Acquire, TypeOK
    <2> QED
        BY <1>2, <1>5, <2>1, ThreadHold, ChainStateAssumption DEF Critical
<1>7. ChainInv'
    BY <1>1, ChainFrame
<1>8. FailedInv'
    <2>1. \A u \in Threads : pc[u] # "invalidate"
        BY <1>5, ChainStateAssumption DEF ThreadInv, Critical
    <2>2. Chain[tip'] \cap Failed' \subseteq {b}
        BY <1>1, <2>1, ActiveUnfailed DEF Failed
    <2> QED
        BY <1>2, <1>5, <2>2, TreeAssumption DEF FailedInv
<1>9. StakeSpentSound'
    BY <1>1, StakeFrame
<1> QED
    BY <1>3, <1>4, <1>6, <1>7, <1>8, <1>9

\* InvalidateBlock marks the tip and disconnects it.
LEMMA InvalidateDisconnectInv ==
    ASSUME Inv, NEW t \in Threads, InvalidateDisconnect(t)
    PROVE  Inv'
<1> USE DEF Inv
<1>1. /\ UNCHANGED <<known, data, linked, scripts, failedValid, unlinked, csMain, pc, blk,
                     most, oldTip, left>>
      /\ UNCHANGED lockVars
      /\ candidates' \subseteq candidates
      /\ failedChild' = failedChild \cup {tip}
    BY DEF InvalidateDisconnect, localVars
<1>2. pc[t] = "invalidate" /\ csMain = t /\ blk[t] \in Blocks \ {Genesis}
    BY DEF InvalidateDisconnect, Holds, ThreadInv
<1>3. tip # Genesis
    BY <1>2, TreeAssumption DEF InvalidateDisconnect
<1>4. /\ tip' \in Blocks \cap linked
      /\ tip' = Parent[tip]
      /\ Chain[tip'] = Chain[tip] \ {tip}
      /\ coins' = UnspentAt(tip')
      /\ SoundChain(tip')
      /\ coins' \subseteq Outpoints
      /\ stakeSpent' \in [Outpoints -> Nat \cup {Absent}]
      /\ StakeSpentSound'
    BY <1>3, DisconnectTipEffect DEF InvalidateDisconnect
<1>5. TypeOK'
    BY <1>1, <1>4 DEF InvalidateDisconnect, TypeOK, lockVars
<1>6. IndexConsistent'
    BY <1>1, IndexFrame DEF IndexConsistent
<1>7. ThreadInv'
    BY <1>1, <1>2 DEF ThreadInv, Critical
<1>8. ChainInv'
    BY <1>1, <1>4 DEF ChainInv
<1>9. FailedInv'
    <2>1. Chain[tip'] \cap Failed' \subseteq Chain[tip] \cap Failed
        BY <1>1, <1>4 DEF Failed
    <2> QED
        BY <1>1, <2>1 DEF FailedInv
<1> QED
    BY <1>4, <1>5, <1>6, <1>7, <1>8, <1>9

\* When InvalidateBlock gives cs_main up no failed block is left in the active chain,
\* and the candidates it restores are linked.
LEMMA InvalidateFinishInv ==
    ASSUME Inv, NEW t \in Threads, InvalidateFinish(t)
    PROVE  Inv'
<1> USE DEF Inv
<1>1. /\ UNCHANGED <<known, data, linked, scripts, failedValid, failedChild, unlinked, tip>>
      /\ UNCHANGED chainVars
      /\ candidates' = candidates \cup Restored
    BY DEF InvalidateFinish, indexVars, chainVars
<1>2. pc[t] = "invalidate" /\ csMain = t /\ NULL \notin Threads
    BY ChainStateAssumption DEF InvalidateFinish, Holds
<1>3. TypeOK'
    BY DEF InvalidateFinish, Restored, Release, TypeOK, PCs, indexVars, chainVars, lockVars
<1>4. IndexConsistent'
    BY <1>1, IndexFrame DEF Restored, IndexConsistent
<1>5. ThreadInv'
    <2>1. \A u \in Threads \ {t} : pc'[u] = pc[u] /\ blk'[u] = blk[u]
        BY DEF InvalidateFinish, Release, TypeOK
    <2>2. csMain' = NULL /\ pc'[t] \notin Critical \cup {"accept"}
        BY DEF InvalidateFinish, Release, TypeOK, Critical
    <2> QED
        BY <1>2, <2>1, <2>2, ThreadRelease
<1>6. ChainInv'
    BY <1>1, ChainFrame
<1>7. FailedInv'
    <2>1. \A u \in Threads : pc[u] = "invalidate" => u = t
        BY <1>2, OnlyHolder DEF Critical
    <2>2. ASSUME NEW x \in Chain[tip] \cap Failed
          PROVE  FALSE
        <3>1. blk[t] \in Chain[x]
            BY <2>1, <2>2 DEF FailedInv
        <3>2. Chain[x] \subseteq Chain[tip]
            BY <2>2, TreeAssumption DEF TypeOK
        <3> QED
            BY <3>1, <3>2 DEF InvalidateFinish
    <2> QED
        BY <1>1, <2>2 DEF FailedInv, Failed
<1>8. StakeSpentSound'
    BY <1>1, StakeFrame
<1> QED
    BY <1>3, <1>4, <1>5, <1>6, <1>7, <1>8

\* ReconsiderBlock clears failure marks and adds linked blocks to the candidates.
LEMMA ReconsiderEffect ==
    ASSUME TypeOK, IndexConsistent, NEW b \in Blocks, ReconsiderBlock(b)
    PROVE  /\ failedValid' \subseteq failedValid
           /\ failedChild' \subseteq failedChild
           /\ Failed' \subseteq Failed
           /\ candidates' \subseteq linked
    BY DEF ReconsiderBlock, IndexConsistent, Failed

\* ReconsiderBlock only clears marks, and only linked blocks become candidates.
LEMMA ReconsiderInv ==
    ASSUME Inv, NEW t \in Threads, NEW b \in Invalidatable, Reconsider(t, b)
    PROVE  Inv'
<1> USE DEF Inv
<1>1. /\ UNCHANGED <<known, data, linked, scripts, unlinked, tip, csMain, blk, most, oldTip>>
      /\ UNCHANGED chainVars
    BY DEF Reconsider, Goto, chainVars, localVars
<1>2. /\ failedValid' \subseteq failedValid
      /\ failedChild' \subseteq failedChild
      /\ Failed' \subseteq Failed
      /\ candidates' \subseteq linked
    BY ReconsiderEffect, ChainStateAssumption DEF Reconsider
<1>3. TypeOK'
    BY <1>2 DEF Reconsider, Goto, TypeOK, PCs, chainVars, lockVars, localVars
<1>4. IndexConsistent'
    BY <1>1, <1>2, IndexFrame
<1>5. ThreadInv'
    <2>1. pc[t] \notin Critical /\ pc'[t] \notin Critical /\ pc'[t] # "accept"
        BY DEF Reconsider, Goto, TypeOK, Critical
    <2>2. \A u \in Threads \ {t} : pc'[u] = pc[u]
        BY DEF Reconsider, Goto, TypeOK
    <2> QED
        BY <1>1, <1>2, <2>1, <2>2, ThreadFrame, ChainStateAssumption
<1>6. ChainInv'
    BY <1>1, ChainFrame
<1>7. FailedInv'
    BY <1>1, <1>2, FailedFrame DEF Reconsider, Goto, TypeOK
<1>8. StakeSpentSound'
    BY <1>1, StakeFrame
<1> QED
    BY <1>3, <1>4, <1>5, <1>6, <1>7, <1>8

\* Transaction locks come and go without touching the chain.
LEMMA ChangeLocksInv ==
    ASSUME Inv, NEW S \in SUBSET Lockable, ChangeLocks(S)
    PROVE  Inv'
<1> USE DEF Inv
<1>1. /\ UNCHANGED <<known, data, linked, scripts, failedValid, failedChild, unlinked,
                     candidates, tip, csMain, pc, blk, most, oldTip>>
      /\ UNCHANGED chainVars
    BY DEF ChangeLocks, indexVars, chainVars, localVars
<1>2. TypeOK'
    BY ChainStateAssumption DEF ChangeLocks, TypeOK, indexVars, chainVars, localVars
<1>3. IndexConsistent'
    BY <1>1, IndexFrame DEF IndexConsistent
<1>4. ThreadInv'
    BY <1>1 DEF ThreadInv, Failed
<1>5. ChainInv'
    BY <1>1, ChainFrame
<1>6. FailedInv'
    BY <1>1, FailedFrame DEF Failed
<1>7. StakeSpentSound'
    BY <1>1, StakeFrame
<1> QED
    BY <1>2, <1>3, <1>4, <1>5, <1>6, <1>7

\* ReprocessBlocks begins.
LEMMA ReprocessInv ==
    ASSUME Inv, NEW t \in Threads, NEW n \in ReprocessDepths, Reprocess(t, n)
    PROVE  Inv'
<1> USE DEF Inv
<1>1. /\ UNCHANGED <<known, data, linked, scripts, failedValid, failedChild, unlinked,
                     candidates, tip, csMain, blk, most, oldTip>>
      /\ UNCHANGED chainVars
    BY DEF Reprocess, Goto, indexVars, chainVars
<1>2. n + 1 \in Nat
    BY ChainStateAssumption
<1>3. TypeOK'
    BY <1>2 DEF Reprocess, Goto, TypeOK, PCs, indexVars, chainVars, lockVars
<1>4. IndexConsistent'
    BY <1>1, IndexFrame DEF IndexConsistent
<1>5. ThreadInv'
    <2>1. pc[t] \notin Critical /\ pc'[t] \notin Critical /\ pc'[t] # "accept"
        BY DEF Reprocess, Goto, TypeOK, Critical
    <2>2. \A u \in Threads \ {t} : pc'[u] = pc[u]
        BY DEF Reprocess, Goto, TypeOK
    <2> QED
        BY <1>1, <2>1, <2>2, ThreadFrame, ChainStateAssumption DEF Failed
<1>6. ChainInv'
    BY <1>1, ChainFrame
<1>7. FailedInv'
    BY <1>1, FailedFrame DEF Reprocess, Goto, Failed, TypeOK
<1>8. StakeSpentSound'
    BY <1>1, StakeFrame
<1> QED
    BY <1>3, <1>4, <1>5, <1>6, <1>7, <1>8

\* ReprocessBlocks reconsiders one rejected block.
LEMMA ReprocessReconsiderInv ==
    ASSUME Inv, NEW t \in Threads, NEW b \in Blocks, ReprocessReconsider(t, b)
    PROVE  Inv'
<1> USE DEF Inv
<1>1. /\ UNCHANGED <<known, data, linked, scripts, unlinked, tip, csMain, pc, blk, most,
                     oldTip>>
      /\ UNCHANGED chainVars
    BY DEF ReprocessReconsider, chainVars, localVars
<1>2. /\ failedValid' \subseteq failedValid
      /\ failedChild' \subseteq failedChild
      /\ Failed' \subseteq Failed
      /\ candidates' \subseteq linked
    BY ReconsiderEffect DEF ReprocessReconsider
<1>3. TypeOK'
    BY <1>2 DEF ReprocessReconsider, TypeOK, chainVars, lockVars, localVars
<1>4. IndexConsistent'
    BY <1>1, <1>2, IndexFrame
<1>5. ThreadInv'
    BY <1>1, <1>2 DEF ThreadInv
<1>6. ChainInv'
    BY <1>1, ChainFrame
<1>7. FailedInv'
    BY <1>1, <1>2, FailedFrame
<1>8. StakeSpentSound'
    BY <1>1, StakeFrame
<1> QED
    BY <1>3, <1>4, <1>5, <1>6, <1>7, <1>8

\* ReprocessBlocks takes cs_main.
LEMMA ReprocessBeginInv ==
    ASSUME Inv, NEW t \in Threads, ReprocessBegin(t)
    PROVE  Inv'
<1> USE DEF Inv
<1>1. /\ UNCHANGED <<known, data, linked, scripts, failedValid, failedChild, unlinked,
                     candidates, tip, blk>>
      /\ UNCHANGED chainVars
    BY DEF ReprocessBegin, indexVars, chainVars, localVars
<1>2. TypeOK'
    BY DEF ReprocessBegin, Acquire, TypeOK, PCs, indexVars, chainVars, lockVars, localVars
<1>3. IndexConsistent'
    BY <1>1, IndexFrame DEF IndexConsistent
<1>4. ThreadInv'
    BY <1>1, ThreadHold, ChainStateAssumption DEF ReprocessBegin, Acquire, Critical, TypeOK
<1>5. ChainInv'
    BY <1>1, ChainFrame
<1>6. FailedInv'
    BY <1>1, FailedFrame DEF ReprocessBegin, Acquire, Failed, TypeOK
<1>7. StakeSpentSound'
    BY <1>1, StakeFrame
<1> QED
    BY <1>2, <1>3, <1>4, <1>5, <1>6, <1>7

\* DisconnectBlocksAndReprocess takes one block off the active chain.
LEMMA ReprocessDisconnectInv ==
    ASSUME Inv, NEW t \in Threads, ReprocessDisconnect(t)
    PROVE  Inv'
<1> USE DEF Inv
<1>1. /\ UNCHANGED <<known, data, linked, scripts, failedValid, failedChild, unlinked,
                     candidates, csMain, pc, blk, most, oldTip>>
      /\ UNCHANGED indexVars
    BY DEF ReprocessDisconnect, indexVars
<1>2. pc[t] = "disconnect" /\ csMain = t /\ NULL \notin Threads
    BY ChainStateAssumption DEF ReprocessDisconnect, Holds
<1>3. /\ tip' \in Blocks \cap linked
      /\ tip' = Parent[tip]
      /\ Chain[tip'] = Chain[tip] \ {tip}
      /\ coins' = UnspentAt(tip')
      /\ SoundChain(tip')
      /\ coins' \subseteq Outpoints
      /\ stakeSpent' \in [Outpoints -> Nat \cup {Absent}]
      /\ StakeSpentSound'
    BY DisconnectTipEffect DEF ReprocessDisconnect
<1>4. TypeOK'
    BY <1>1, <1>3 DEF ReprocessDisconnect, TypeOK, indexVars, lockVars
<1>5. IndexConsistent'
    BY <1>1, IndexFrame DEF IndexConsistent
<1>6. ThreadInv'
    BY <1>1, <1>2 DEF ThreadInv, Critical
<1>7. ChainInv'
    BY <1>1, <1>3 DEF ChainInv
<1>8. FailedInv'
    <2>1. \A u \in Threads : pc[u] # "invalidate"
        BY <1>2, OnlyHolder DEF Critical
    <2> QED
        BY <1>1, <1>3, <2>1, ActiveUnfailed DEF FailedInv, Failed
<1> QED
    BY <1>3, <1>4, <1>5, <1>6, <1>7, <1>8

\* DisconnectBlocksAndReprocess gives cs_main up.
LEMMA ReprocessFinishInv ==
    ASSUME Inv, NEW t \in Threads, ReprocessFinish(t)
    PROVE  Inv'
<1> USE DEF Inv
<1>1. /\ UNCHANGED <<known, data, linked, scripts, failedValid, failedChild, unlinked,
                     candidates, tip, blk>>
      /\ UNCHANGED chainVars
    BY DEF ReprocessFinish, indexVars, chainVars
<1>2. TypeOK'
    BY DEF ReprocessFinish, Release, TypeOK, PCs, indexVars, chainVars, lockVars
<1>3. IndexConsistent'
    BY <1>1, IndexFrame DEF IndexConsistent
<1>4. ThreadInv'
    <2>1. csMain = t /\ csMain' = NULL /\ NULL \notin Threads
        BY ChainStateAssumption DEF ReprocessFinish, Holds, Release
    <2>2. \A u \in Threads \ {t} : pc'[u] = pc[u] /\ blk'[u] = blk[u]
        BY <1>1 DEF ReprocessFinish, Release, TypeOK
    <2>3. pc'[t] \notin Critical \cup {"accept"}
        BY DEF ReprocessFinish, Release, TypeOK, Critical
    <2> QED
        BY <2>1, <2>2, <2>3, ThreadRelease
<1>5. ChainInv'
    BY <1>1, ChainFrame
<1>6. FailedInv'
    BY <1>1, FailedFrame DEF ReprocessFinish, Holds, Release, Failed, TypeOK
<1>7. StakeSpentSound'
    BY <1>1, StakeFrame
<1> QED
    BY <1>2, <1>3, <1>4, <1>5, <1>6, <1>7

\* Steps that change nothing.
LEMMA StutterInv ==
    ASSUME Inv, UNCHANGED vars
    PROVE  Inv'
<1> USE DEF vars, indexVars, chainVars, lockVars, localVars
<1>1. TypeOK' /\ IndexConsistent' /\ StakeSpentSound'
    BY DEF Inv, TypeOK, IndexConsistent, StakeSpentSound
<1>2. ThreadInv' /\ ChainInv' /\ FailedInv'
    BY DEF Inv, ThreadInv, ChainInv, FailedInv, Failed
<1> QED
    BY <1>1, <1>2 DEF Inv

---------------------------------------------------------------------------
(* The theorems.                                                           *)

\* Every step of every thread preserves the invariant.
LEMMA NextInv ==
    ASSUME Inv, [Next]_vars
    PROVE  Inv'
<1>1. ASSUME NEW t \in Threads, Begin(t)
      PROVE  Inv'
    BY <1>1, ReceiveBlockInv, RefuseBlockInv, InvalidateInv, ReconsiderInv, ReprocessInv
    DEF Begin
<1>2. ASSUME NEW t \in Threads, Accept(t)
      PROVE  Inv'
    BY <1>2, AcceptTurnedAwayInv, AcceptDuplicateInv, AcceptInvalidInv,
       AcceptStakeSpentInv, AcceptStoreInv
    DEF Accept
<1>3. ASSUME NEW t \in Threads, Activation(t)
      PROVE  Inv'
    BY <1>3, TryLockInv, FindDropInv, FindNoneInv, FindPickInv, StepDisconnectInv,
       StepConnectInv, StepConnectFailsInv, LoopTestInv
    DEF Activation
<1>4. ASSUME NEW t \in Threads, Continue(t)
      PROVE  Inv'
    BY <1>2, <1>3, <1>4, InvalidateDisconnectInv, InvalidateFinishInv, ReprocessBeginInv,
       ReprocessDisconnectInv, ReprocessFinishInv
    DEF Continue
<1>5. CASE UNCHANGED vars \/ Rest
    BY <1>5, StutterInv DEF Rest
<1> QED
    BY <1>1, <1>4, <1>5, ReprocessReconsiderInv, ChangeLocksInv DEF Next

\* The inductive invariant holds in every reachable state of the node.
THEOREM Invariance == Spec => []Inv
<1>1. Init => Inv
    BY InitInv
<1>2. Inv /\ [Next]_vars => Inv'
    BY NextInv
<1> QED
    BY <1>1, <1>2, PTL DEF Spec

\* The variables keep their types: the heights mapStakeSpent keeps are heights, and the
\* sequence numbers handed out are numbers.
THEOREM TypeCorrect == Spec => []TypeOK
<1>1. Inv => TypeOK
    BY DEF Inv
<1> QED
    BY <1>1, Invariance, PTL

\* The index agrees with itself, in whatever order blocks and their parents arrive.
THEOREM IndexAlwaysConsistent == Spec => []IndexConsistent
<1>1. Inv => IndexConsistent
    BY DEF Inv
<1> QED
    BY <1>1, Invariance, PTL

\* The active chain is stored and was connected, and free of failed blocks whenever
\* cs_main is free.
THEOREM ActiveChainAlwaysValid == Spec => []ActiveChainValid
<1>1. Inv => ActiveChainValid
    <2> SUFFICES ASSUME Inv PROVE ActiveChainValid
        OBVIOUS
    <2>1. tip \in linked /\ Chain[tip] \ {Genesis} \subseteq scripts
        BY DEF Inv, ChainInv
    <2>2. ASSUME csMain = NULL
          PROVE  Chain[tip] \cap Failed = {}
        <3>1. \A t \in Threads : pc[t] # "invalidate"
            BY <2>2, ChainStateAssumption DEF Inv, ThreadInv, Critical
        <3> QED
            BY <3>1, ActiveUnfailed DEF Inv
    <2> QED
        BY <2>1, <2>2 DEF ActiveChainValid
<1> QED
    BY <1>1, Invariance, PTL

\* mapStakeSpent never describes a spend that is not on the active chain.
THEOREM StakeSpentAlwaysSound == Spec => []StakeSpentSound
<1>1. Inv => StakeSpentSound
    BY DEF Inv
<1> QED
    BY <1>1, Invariance, PTL

---------------------------------------------------------------------------
(* The detailed specification implements the ledger.                       *)

\* The ledger counts unspent outputs the way the block tree does.
LEMMA SameCoins ==
    ASSUME NEW b
    PROVE  L!UnspentAt(b) = UnspentAt(b)
    BY DEF L!UnspentAt, L!Created, L!Spent, UnspentAt, Created, Spent

\* A step that goes down to the parent retracts a block.
LEMMA DownIsRetract ==
    ASSUME Inv', tip # Genesis, DisconnectTip
    PROVE  L!Next
    BY SameCoins DEF Inv, ChainInv, DisconnectTip, L!Next, L!Retract

\* A step of t moves the tip as the ledger does, or leaves it alone.
LEMMA ThreadStep ==
    ASSUME Inv, Inv', NEW t \in Threads, Begin(t) \/ Continue(t)
    PROVE  L!Next \/ UNCHANGED <<tip, coins>>
<1>1. CASE Begin(t)
    BY <1>1 DEF Begin, ReceiveBlock, RefuseBlock, Invalidate, Reconsider, Reprocess, chainVars
<1>2. CASE Accept(t)
    BY <1>2 DEF Accept, AcceptTurnedAway, AcceptDuplicate, AcceptInvalid, AcceptStakeSpent,
               AcceptStore, chainVars
<1>3. CASE StepDisconnect(t)
    <2>1. most[t] \in Blocks
        BY <1>3 DEF StepDisconnect, Holds, Inv, ThreadInv, TypeOK
    <2>2. tip # Genesis
        BY <1>3, <2>1, TreeAssumption DEF StepDisconnect
    <2> QED
        BY <1>3, <2>2, DownIsRetract DEF StepDisconnect
<1>4. CASE StepConnect(t)
    <2>1. PICK b \in Blocks : IsNext(t, b) /\ Connects(t, b) /\ tip' = b
        BY <1>4 DEF StepConnect
    <2>2. coins' = UnspentAt(b)
        BY <2>1 DEF Inv, ChainInv
    <2> QED
        BY <2>1, <2>2, SameCoins DEF IsNext, Connects, L!Next, L!Extend
<1>5. CASE InvalidateDisconnect(t)
    <2>1. blk[t] \in Blocks \ {Genesis}
        BY <1>5 DEF InvalidateDisconnect, Holds, Inv, ThreadInv
    <2>2. tip # Genesis
        BY <1>5, <2>1, TreeAssumption DEF InvalidateDisconnect
    <2> QED
        BY <1>5, <2>2, DownIsRetract DEF InvalidateDisconnect
<1>6. CASE ReprocessDisconnect(t)
    BY <1>6, DownIsRetract DEF ReprocessDisconnect
<1>7. CASE TryLock(t) \/ FindDrop(t) \/ FindNone(t) \/ FindPick(t) \/ LoopTest(t)
    BY <1>7 DEF TryLock, FindDrop, FindNone, FindPick, LoopTest, chainVars
<1>8. CASE StepConnectFails(t)
    BY <1>8 DEF StepConnectFails, chainVars
<1>9. CASE InvalidateFinish(t) \/ ReprocessBegin(t) \/ ReprocessFinish(t)
    BY <1>9 DEF InvalidateFinish, ReprocessBegin, ReprocessFinish, chainVars
<1> QED
    BY <1>1, <1>2, <1>3, <1>4, <1>5, <1>6, <1>7, <1>8, <1>9 DEF Continue, Activation

\* Every reorganisation, invalidation and reprocessing, however the threads interleave,
\* moves the active chain one block at a time and leaves exactly that chain's coins.
THEOREM LedgerImplemented == Spec => ImplementsLedger
<1>1. Init => L!Init
    BY InitInv, SameCoins DEF Init, Inv, ChainInv, L!Init
<1>2. Inv /\ Inv' /\ [Next]_vars => [L!Next]_<<tip, coins>>
    <2> SUFFICES ASSUME Inv, Inv', [Next]_vars
                 PROVE  L!Next \/ UNCHANGED <<tip, coins>>
        OBVIOUS
    <2>1. CASE \E t \in Threads : Begin(t) \/ Continue(t)
        BY <2>1, ThreadStep
    <2>2. CASE \E t \in Threads, b \in Blocks : ReprocessReconsider(t, b)
        BY <2>2 DEF ReprocessReconsider, chainVars
    <2>3. CASE \E S \in SUBSET Lockable : ChangeLocks(S)
        BY <2>3 DEF ChangeLocks, chainVars
    <2>4. CASE Rest \/ UNCHANGED vars
        BY <2>4 DEF Rest, vars, chainVars
    <2> QED
        BY <2>1, <2>2, <2>3, <2>4 DEF Next
<1> QED
    BY <1>1, <1>2, Invariance, PTL DEF Spec, ImplementsLedger, L!Spec

\* The active chain spends no output twice.
THEOREM NoDoubleSpend == Spec => []L!NoDoubleSpend
<1>1. Inv => L!NoDoubleSpend
    <2> SUFFICES ASSUME Inv, NEW a \in Chain[tip], NEW b \in Chain[tip], a # b
                 PROVE  Spends[a] \cap Spends[b] = {}
        BY DEF L!NoDoubleSpend
    <2>1. tip \in Blocks /\ SoundChain(tip)
        BY DEF Inv, TypeOK, ChainInv
    <2> QED
        BY <2>1, SpentOnce
<1> QED
    BY <1>1, Invariance, PTL

---------------------------------------------------------------------------
(* The candidates and the best chain.                                      *)
(*                                                                         *)
(* LookInv and BestInv are what makes NoCandidateLeft, and CandidatesExact *)
(* and MostWorkActive, inductive: they speak of every state, the           *)
(* properties of those without a call in progress.  LookInv, that somebody *)
(* will look at the candidates there are, holds whatever happens.  That    *)
(* they are all the candidates there should be, BestInv, does not.  Blocks *)
(* pruned while a better tip was active are missing from the candidates as *)
(* long as the tip is worse again, so completeness is relative to a floor, *)
(* a block that was connected once and that no reorganisation can fail to  *)
(* come back to.  There is one while no lock conflicts with a block that   *)
(* was connected (it could be refused when it is connected again) and      *)
(* while ReconsiderBlock clears no marks. Without either condition the     *)
(* properties fail.                                                        *)

\* No block of b's chain is marked failed.
Usable(b) == Chain[b] \cap Failed = {}

\* No candidate is worse than the tip.
NoneWorse == \A c \in candidates : ~Worse(seq, c, tip)

\* The candidates are complete from p upwards, and p itself can always be connected.
Floor(p) ==
    /\ SoundChain(p)
    /\ Chain[p] \ {Genesis} \subseteq scripts
    /\ Usable(p)
    /\ \A b \in linked : Usable(b) /\ ~Worse(seq, b, p) => b \in candidates

FloorInv == (\E t \in Threads : pc[t] = "invalidate") \/ (\E p \in linked : Floor(p))

\* Every mark on a descendant goes back to a block that was found or declared invalid.
MarksGrounded ==
    /\ \A b \in failedChild : Chain[b] \cap failedValid # {}
    /\ \A t \in Threads : pc[t] = "invalidate" => blk[t] \in failedValid

\* A step is on its way to the best candidate.
StepBest ==
    \A t \in Threads : pc[t] = "step" => /\ most[t] \in candidates
                                         /\ most[t] \notin Chain[tip]
                                         /\ \A c \in candidates : ~Worse(seq, most[t], c)

\* t will look for a better candidate before its call returns.
Pending(t) ==
    \/ pc[t] \in {"activate", "find", "step", "invalidate", "reconsider", "disconnect"}
    \/ pc[t] = "test" /\ most[t] # tip

TipBest == \A c \in candidates : ~Worse(seq, tip, c)

\* Somebody will still look, or there is nothing better.
Settled == (\E t \in Threads : Pending(t)) \/ TipBest

LookInv == NoneWorse /\ StepBest /\ Settled

BestInv == LookInv /\ FloorInv /\ MarksGrounded

\* No lock conflicts with a block that was connected before.  Locks may keep any other
\* block out.
Calm == refused \cap scripts = {}

\* The step clears no failure mark.  Only ReconsiderBlock does, called by the operator or
\* by ReprocessBlocks, and only if it finds one.
MarksStay == failedValid \subseteq failedValid' /\ failedChild \subseteq failedChild'

---------------------------------------------------------------------------

\* What the lemmas below need of the index and the threads; module ChainDisk_proofs knows
\* no more while the process is up.
Base ==
    /\ seq \in [Blocks -> Nat] /\ nextSeq \in Nat
    /\ data \subseteq Blocks /\ tip \in Blocks
    /\ pc \in [Threads -> PCs]
    /\ blk \in [Threads -> Blocks \cup {NULL}]
    /\ most \in [Threads -> Blocks \cup {NULL}]
    /\ Sorted
    /\ \A t \in Threads :
          /\ pc[t] \in Critical <=> csMain = t
          /\ pc[t] \in {"accept", "invalidate"} => blk[t] \in Blocks \ {Genesis}
          /\ pc[t] = "step" => most[t] \in linked

LEMMA InvBase ==
    ASSUME Inv
    PROVE  Base
    BY DEF Inv, TypeOK, IndexConsistent, ThreadInv, Base, Sorted

\* cs_main is free or held by t: no other thread is where it would hold it.
LEMMA Alone ==
    ASSUME Base, NEW t \in Threads, csMain \in {NULL, t}, NEW u \in Threads, u # t
    PROVE  pc[u] \notin Critical
    BY ChainStateAssumption DEF Base

\* With cs_main free or held by t outside InvalidateBlock there is a floor, and it is a
\* candidate.
LEMMA FloorHere ==
    ASSUME Base, FloorInv, NEW t \in Threads, csMain \in {NULL, t}, pc[t] # "invalidate"
    PROVE  \E p \in linked : Floor(p) /\ p \in candidates /\ p \in Blocks
<1>1. \A u \in Threads : pc[u] # "invalidate"
    BY Alone DEF Critical
<1>2. PICK p \in linked : Floor(p)
    BY <1>1 DEF FloorInv
<1>3. p \in Blocks /\ seq \in [Blocks -> Nat]
    BY DEF Base, Sorted
<1>4. p \in candidates
    BY <1>2, <1>3, WorseIrreflexive DEF Floor
<1> QED
    BY <1>2, <1>3, <1>4

\* A floor stays one while only unusable blocks leave the candidates and none of its own
\* chain becomes failed.
LEMMA FloorFrame ==
    ASSUME NEW p, Floor(p), UNCHANGED <<linked, seq>>, scripts \subseteq scripts',
           Failed \subseteq Failed',
           Chain[p] \cap Failed' = {},
           \A b \in candidates : b \notin candidates' => ~Usable(b)'
    PROVE  Floor(p)'
    BY DEF Floor, Usable

\* Pruning with b as the tip takes the floor away only if it is worse than b, and then b is
\* a floor, if it can always be connected.
LEMMA FloorPruned ==
    ASSUME seq \in [Blocks -> Nat], linked \subseteq Blocks,
           NEW p \in linked, Floor(p), NEW b \in linked,
           SoundChain(b), Chain[b] \ {Genesis} \subseteq scripts', Usable(b),
           scripts \subseteq scripts', UNCHANGED <<linked, seq, failedValid, failedChild>>,
           candidates' = NotWorseThan(b)
    PROVE  \E q \in linked' : Floor(q)'
<1>1. candidates' = {c \in candidates : ~Worse(seq, c, b)}
    BY DEF NotWorseThan
<1>2. CASE Worse(seq, p, b)
    <2>1. ~Worse(seq, b, p)
        BY <1>2, WorseAsymmetric
    <2>2. ASSUME NEW x \in linked, Usable(x), ~Worse(seq, x, b)
          PROVE  x \in candidates'
        BY <1>1, <2>1, <2>2, NotWorseTransitive DEF Floor
    <2>3. Floor(b)'
        BY <2>2 DEF Floor, Usable, Failed
    <2> QED
        BY <2>3
<1>3. CASE ~Worse(seq, p, b)
    <2>1. ASSUME NEW x \in linked, Usable(x), ~Worse(seq, x, p)
          PROVE  x \in candidates'
        BY <1>1, <1>3, <2>1, NotWorseTransitive DEF Floor
    <2>2. Floor(p)'
        BY <2>1 DEF Floor, Usable, Failed
    <2> QED
        BY <2>2
<1> QED
    BY <1>2, <1>3

\* The tip goes to its parent.
LEMMA NoneWorseDown ==
    ASSUME Base, NoneWorse, tip # Genesis, tip' = Parent[tip], UNCHANGED seq,
           candidates' \subseteq candidates
    PROVE  NoneWorse'
<1> SUFFICES ASSUME NEW c \in candidates
             PROVE  ~Worse(seq, c, tip')
    BY DEF NoneWorse
<1>1. c \in Blocks /\ tip \in Blocks \ {Genesis} /\ seq \in [Blocks -> Nat] /\ ~Worse(seq, c, tip)
    BY DEF Base, Sorted, NoneWorse
<1>2. tip' \in Blocks /\ tip' \in Chain[tip] /\ tip' # tip
    BY <1>1, ParentChain, TreeAssumption
<1>3. ~Worse(seq, tip, tip')
    BY <1>1, <1>2, AncestorWorse, WorseAsymmetric
<1> QED
    BY <1>1, <1>2, <1>3, NotWorseTransitive

---------------------------------------------------------------------------
(* What the actions do to the four parts that speak of the search for the  *)
(* best candidate.                                                         *)

\* A step that touches neither candidates nor tip nor marks, of a thread that is not done
\* with looking unless nothing is better.
LEMMA StillSearch ==
    ASSUME NEW t \in Threads,
           UNCHANGED <<linked, scripts, seq, candidates, failedValid, failedChild, tip>>,
           \A u \in Threads \ {t} : pc'[u] = pc[u] /\ most'[u] = most[u],
           pc[t] # "invalidate", pc'[t] \notin {"step", "invalidate"},
           Pending(t) => Pending(t)' \/ TipBest
    PROVE  /\ NoneWorse => NoneWorse'
           /\ FloorInv => FloorInv'
           /\ StepBest => StepBest'
           /\ Settled => Settled'
<1>1. NoneWorse => NoneWorse'
    BY DEF NoneWorse
<1>2. FloorInv => FloorInv'
    BY DEF FloorInv, Floor, Usable, Failed
<1>3. StepBest => StepBest'
    BY DEF StepBest
<1>4. Settled => Settled'
    <2>1. CASE \E u \in Threads \ {t} : Pending(u)
        BY <2>1 DEF Pending, Settled
    <2>2. CASE Pending(t) \/ TipBest
        BY <2>2 DEF Settled, TipBest
    <2> QED
        BY <2>1, <2>2 DEF Settled
<1> QED
    BY <1>1, <1>2, <1>3, <1>4

\* The steps of that kind.
LEMMA StillActions ==
    ASSUME Base, NEW t \in Threads,
           \/ \E b \in Blocks : ReceiveBlock(t, b)
           \/ AcceptTurnedAway(t) \/ AcceptDuplicate(t) \/ AcceptStakeSpent(t)
           \/ AtAccept(t) /\ Return(t) /\ UNCHANGED <<indexVars, candidates, chainVars>>
           \/ TryLock(t) \/ FindNone(t) \/ LoopTest(t)
    PROVE  /\ NoneWorse => NoneWorse'
           /\ FloorInv => FloorInv'
           /\ StepBest => StepBest'
           /\ Settled => Settled'
<1>0. pc \in [Threads -> PCs] /\ most \in [Threads -> Blocks \cup {NULL}]
    BY DEF Base
<1>1. UNCHANGED <<linked, scripts, seq, candidates, failedValid, failedChild, tip>>
    BY DEF ReceiveBlock, AcceptTurnedAway, AcceptDuplicate, AcceptStakeSpent, TryLock,
           FindNone, LoopTest, indexVars, chainVars
<1>2. CASE \E b \in Blocks : ReceiveBlock(t, b)
    <2>1. /\ pc[t] = "idle" /\ pc'[t] = "accept"
          /\ \A u \in Threads \ {t} : pc'[u] = pc[u] /\ most'[u] = most[u]
        BY <1>0, <1>2 DEF ReceiveBlock, Offered, Goto
    <2> QED
        BY <1>1, <2>1, StillSearch DEF Pending
<1>3. CASE \/ AcceptTurnedAway(t) \/ AcceptDuplicate(t) \/ AcceptStakeSpent(t)
           \/ AtAccept(t) /\ Return(t) /\ UNCHANGED <<indexVars, candidates, chainVars>>
    <2>1. /\ pc[t] = "accept" /\ pc'[t] \in {"idle", "activate"}
          /\ \A u \in Threads \ {t} : pc'[u] = pc[u] /\ most'[u] = most[u]
        BY <1>0, <1>3 DEF AcceptTurnedAway, AcceptDuplicate, AcceptStakeSpent, AtAccept,
                          Return, Goto, localVars
    <2> QED
        BY <1>1, <2>1, StillSearch DEF Pending
<1>4. CASE TryLock(t)
    <2>1. /\ pc[t] = "activate" /\ pc'[t] = "find"
          /\ \A u \in Threads \ {t} : pc'[u] = pc[u] /\ most'[u] = most[u]
        BY <1>0, <1>4 DEF TryLock, Acquire, localVars
    <2> QED
        BY <1>1, <2>1, StillSearch DEF Pending
<1>5. CASE FindNone(t)
    <2>1. /\ pc[t] = "find" /\ pc'[t] = "idle"
          /\ \A u \in Threads \ {t} : pc'[u] = pc[u] /\ most'[u] = most[u]
        BY <1>0, <1>5 DEF FindNone, Holds, Return
    <2>2. TipBest
        BY <1>5 DEF FindNone, IsBest, TipBest
    <2> QED
        BY <1>1, <2>1, <2>2, StillSearch
<1>6. CASE LoopTest(t)
    <2>1. /\ pc[t] = "test"
          /\ pc'[t] = IF most[t] = tip THEN "idle" ELSE "activate"
          /\ \A u \in Threads \ {t} : pc'[u] = pc[u] /\ most'[u] = most[u]
        BY <1>0, <1>6 DEF LoopTest
    <2> QED
        BY <1>1, <2>1, StillSearch DEF Pending
<1> QED
    BY <1>2, <1>3, <1>4, <1>5, <1>6

\* FindPick heads for the best candidate, which is not on the active chain.
LEMMA FindPickSearch ==
    ASSUME Base, NEW t \in Threads, FindPick(t)
    PROVE  /\ NoneWorse => NoneWorse' /\ StepBest'
           /\ FloorInv => FloorInv'
           /\ Settled'
<1>0. /\ UNCHANGED <<linked, scripts, seq, candidates, failedValid, failedChild, tip, blk>>
      /\ pc[t] = "find" /\ pc'[t] = "step" /\ csMain = t
      /\ \A u \in Threads \ {t} : pc'[u] = pc[u] /\ most'[u] = most[u]
    BY DEF FindPick, Holds, Goto, indexVars, chainVars, Base
<1>1. NoneWorse => NoneWorse'
    BY <1>0 DEF NoneWorse
<1>2. FloorInv => FloorInv'
    BY <1>0, FloorHere DEF FloorInv, Floor, Usable, Failed
<1>3. NoneWorse => StepBest'
    <2> SUFFICES ASSUME NoneWorse PROVE StepBest'
        OBVIOUS
    <2>1. PICK c \in candidates : IsBest(c) /\ c # tip /\ most' = [most EXCEPT ![t] = c]
        BY DEF FindPick
    <2>2. c \in Blocks /\ tip \in Blocks /\ seq \in [Blocks -> Nat] /\ most'[t] = c
        BY <2>1 DEF Base, Sorted
    <2>3. c \notin Chain[tip]
        BY <2>1, <2>2, AncestorWorse DEF NoneWorse
    <2>4. \A u \in Threads \ {t} : pc[u] # "step"
        BY <1>0, Alone DEF Critical
    <2> QED
        BY <1>0, <2>1, <2>2, <2>3, <2>4 DEF StepBest, IsBest
<1>4. Settled'
    BY <1>0 DEF Settled, Pending
<1> QED
    BY <1>1, <1>2, <1>3, <1>4

\* A block that fails ContextualCheckBlock is not stored, so it is on no linked chain.
LEMMA AcceptInvalidSearch ==
    ASSUME Base, NEW t \in Threads, AcceptInvalid(t)
    PROVE  /\ NoneWorse => NoneWorse'
           /\ FloorInv => FloorInv'
           /\ StepBest => StepBest'
           /\ Settled => Settled'
<1>0. /\ UNCHANGED <<linked, scripts, seq, candidates, failedChild, tip>>
      /\ failedValid' = failedValid \cup {blk[t]} /\ blk[t] \notin data
      /\ pc[t] = "accept" /\ pc'[t] = "idle" /\ csMain = NULL
      /\ \A u \in Threads \ {t} : pc'[u] = pc[u] /\ most'[u] = most[u] /\ blk'[u] = blk[u]
    BY DEF AcceptInvalid, AtAccept, Return, chainVars, Base
<1>1. NoneWorse => NoneWorse'
    BY <1>0 DEF NoneWorse
<1>2. FloorInv => FloorInv'
    <2> SUFFICES ASSUME FloorInv PROVE FloorInv'
        OBVIOUS
    <2>1. PICK p \in linked : Floor(p)
        BY <1>0, FloorHere
    <2>2. Chain[p] \cap Failed' = {}
        BY <1>0, <2>1 DEF Floor, Usable, Failed, Base, Sorted
    <2>3. Floor(p)'
        BY <1>0, <2>1, <2>2, FloorFrame DEF Failed
    <2> QED
        BY <1>0, <2>3 DEF FloorInv
<1>3. StepBest => StepBest'
    BY <1>0 DEF StepBest
<1>4. Settled => Settled'
    BY <1>0 DEF Settled, Pending, TipBest
<1> QED
    BY <1>1, <1>2, <1>3, <1>4

\* Storing a block, and linking what waited for it, adds every candidate there is to add.
LEMMA AcceptStoreSearch ==
    ASSUME Base, Base', NEW t \in Threads, AcceptStore(t), NoneWorse, tip \in linked
    PROVE  NoneWorse' /\ (FloorInv => FloorInv') /\ StepBest' /\ Settled'
<1>0. /\ UNCHANGED <<scripts, failedValid, failedChild, tip, most, blk>>
      /\ pc[t] = "accept" /\ pc'[t] = "activate" /\ csMain = NULL
      /\ \A u \in Threads \ {t} : pc'[u] = pc[u]
    BY DEF AcceptStore, AtAccept, Goto, chainVars, localVars, Base
<1>1. \A u \in Threads : pc[u] \notin {"step", "invalidate"}
    BY <1>0, ChainStateAssumption DEF Base, Critical
<1>2. StepBest' /\ Settled'
    BY <1>0, <1>1 DEF StepBest, Settled, Pending
<1>3. CASE UNCHANGED <<linked, seq, candidates>>
    BY <1>0, <1>1, <1>2, <1>3 DEF NoneWorse, FloorInv, Floor, Usable, Failed
<1>4. CASE Link(blk[t])
    <2> DEFINE S == Cascade(blk[t])
    <2>1. /\ linked' = linked \cup S
          /\ candidates' = candidates \cup {x \in S : ~Worse(seq', x, tip)}
          /\ \A x \in Blocks \ S : seq'[x] = seq[x]
        BY <1>4 DEF Link, NewCandidates
    <2>2. S \cap linked = {}
        <3>1. blk[t] \notin data /\ blk[t] \in Blocks
            BY <1>0 DEF AcceptStore, Base
        <3> QED
            BY <3>1, TreeAssumption DEF Cascade, Base, Sorted
    <2>3. linked \subseteq Blocks /\ tip \in linked /\ candidates \subseteq linked
          /\ seq \in [Blocks -> Nat] /\ seq' \in [Blocks -> Nat] /\ linked' \subseteq Blocks
        BY DEF Base, Sorted
    <2>4. \A x, y \in linked : Worse(seq', x, y) <=> Worse(seq, x, y)
        BY <2>1, <2>2, <2>3 DEF Worse
    <2>5. NoneWorse'
        BY <1>0, <2>1, <2>3, <2>4 DEF NoneWorse
    <2>6. ASSUME FloorInv PROVE FloorInv'
        <3>1. PICK p \in linked : Floor(p) /\ p \in candidates
            BY <1>0, <2>6, FloorHere
        <3>2. ASSUME NEW b \in linked', Usable(b)', ~Worse(seq', b, p)
              PROVE  b \in candidates'
            <4>1. CASE b \in linked
                BY <1>0, <2>1, <2>4, <3>1, <3>2, <4>1 DEF Floor, Usable, Failed
            <4>2. CASE b \in S
                <5>1. ~Worse(seq', p, tip)
                    BY <2>3, <2>4, <3>1 DEF NoneWorse
                <5>2. ~Worse(seq', b, tip)
                    BY <2>3, <3>2, <5>1, NotWorseTransitive
                <5> QED
                    BY <2>1, <4>2, <5>2
            <4> QED
                BY <2>1, <3>2, <4>1, <4>2
        <3>3. Floor(p)' /\ p \in linked'
            BY <1>0, <2>1, <3>1, <3>2 DEF Floor, Usable, Failed
        <3> QED
            BY <3>3 DEF FloorInv
    <2> QED
        BY <1>2, <2>5, <2>6
<1> QED
    BY <1>3, <1>4 DEF AcceptStore, Wait

\* FindMostWorkChain drops and marks only what has a failed block below it, so no usable
\* chain is touched.
LEMMA DropSpares ==
    ASSUME Base, NEW t \in Threads, FindDrop(t)
    PROVE  /\ UNCHANGED <<data, linked, unlinked, scripts, seq, failedValid, tip>>
           /\ Failed \subseteq Failed' /\ failedChild \subseteq failedChild'
           /\ \A b \in Blocks : Usable(b) => Usable(b)'
           /\ candidates' \subseteq candidates
           /\ \A b \in candidates : b \notin candidates' => ~Usable(b)'
           /\ \A b \in failedChild' \ failedChild :
                 b \in Blocks /\ \E x \in Failed : x \in Chain[b]
<1>0. UNCHANGED <<data, linked, scripts, seq, failedValid, tip>>
    BY DEF FindDrop, chainVars
<1>1. PICK c \in candidates : \E x \in Unusable(c) :
          LET above == Chain[c] \ Chain[x] IN
          /\ failedChild' = IF x \in Failed THEN failedChild \cup above ELSE failedChild
          /\ unlinked' = IF x \in Failed THEN unlinked ELSE unlinked \cup above
          /\ candidates' = candidates \ (above \cup {x})
    BY DEF FindDrop
<1>2. PICK x \in Unusable(c) :
          LET above == Chain[c] \ Chain[x] IN
          /\ failedChild' = IF x \in Failed THEN failedChild \cup above ELSE failedChild
          /\ unlinked' = IF x \in Failed THEN unlinked ELSE unlinked \cup above
          /\ candidates' = candidates \ (above \cup {x})
    BY <1>1
<1> DEFINE above == Chain[c] \ Chain[x]
<1>3. c \in Blocks /\ x \in Failed /\ x \in Chain[c] /\ x \in Blocks
    BY DroppedAreInactive, TreeAssumption DEF Base, Unusable
<1>4. failedChild' = failedChild \cup above /\ Failed' = Failed \cup above /\ unlinked' = unlinked
    BY <1>0, <1>2, <1>3 DEF Failed
<1>5. \A y \in above : y \in Blocks /\ x \in Chain[y]
    BY <1>3, Above, TreeAssumption
<1>6. ASSUME NEW b \in Blocks, Usable(b)
      PROVE  Usable(b)'
    <2>1. \A y \in above : y \notin Chain[b]
        BY <1>3, <1>5, <1>6, TreeAssumption DEF Usable
    <2> QED
        BY <1>4, <1>6, <2>1 DEF Usable
<1>7. ASSUME NEW b \in above \cup {x}
      PROVE  ~Usable(b)'
    <2>1. x \in Chain[b]
        BY <1>3, <1>5, TreeAssumption
    <2> QED
        BY <1>3, <1>4, <2>1 DEF Usable
<1> QED
    BY <1>0, <1>2, <1>3, <1>4, <1>5, <1>6, <1>7

LEMMA FindDropSearch ==
    ASSUME Base, NEW t \in Threads, FindDrop(t)
    PROVE  /\ NoneWorse => NoneWorse'
           /\ FloorInv => FloorInv'
           /\ StepBest' /\ Settled'
<1>0. /\ UNCHANGED <<most, pc>> /\ pc[t] = "find" /\ csMain = t
    BY DEF FindDrop, Holds, localVars
<1>1. NoneWorse => NoneWorse'
    BY DropSpares DEF NoneWorse
<1>2. FloorInv => FloorInv'
    <2> SUFFICES ASSUME FloorInv PROVE FloorInv'
        OBVIOUS
    <2>1. PICK p \in linked : Floor(p) /\ p \in Blocks
        BY <1>0, FloorHere
    <2>2. Floor(p)'
        BY <2>1, DropSpares, FloorFrame DEF Floor, Usable
    <2> QED
        BY <2>1, <2>2, DropSpares DEF FloorInv
<1>3. StepBest'
    BY <1>0, Alone DEF StepBest, Critical
<1>4. Settled'
    BY <1>0 DEF Settled, Pending
<1> QED
    BY <1>1, <1>2, <1>3, <1>4

\* Going down to the fork leaves every candidate better than the tip.
LEMMA StepDisconnectSearch ==
    ASSUME Base, NEW t \in Threads, StepDisconnect(t)
    PROVE  /\ NoneWorse => NoneWorse'
           /\ FloorInv => FloorInv'
           /\ StepBest => StepBest' /\ Settled'
<1>0. /\ UNCHANGED <<linked, scripts, seq, candidates, failedValid, failedChild, most, blk>>
      /\ pc[t] = "step" /\ csMain = t /\ pc'[t] # "invalidate"
      /\ \A u \in Threads \ {t} : pc'[u] = pc[u]
    BY DEF StepDisconnect, Holds, Goto, Release, indexVars, localVars, Base
<1>1. most[t] \in Blocks /\ tip \in Blocks \ {Genesis}
    BY <1>0, TreeAssumption DEF StepDisconnect, Base, Sorted
<1>2. tip' = Parent[tip] /\ tip' \in Blocks /\ Chain[tip'] \subseteq Chain[tip] /\ tip' \in Chain[tip]
    BY <1>1, ParentChain DEF StepDisconnect, DisconnectTip
<1>3. NoneWorse => NoneWorse'
    BY <1>0, <1>1, <1>2, NoneWorseDown
<1>4. FloorInv => FloorInv'
    BY <1>0, FloorHere DEF FloorInv, Floor, Usable, Failed
<1>5. StepBest => StepBest' /\ Settled'
    <2> SUFFICES ASSUME StepBest PROVE StepBest' /\ Settled'
        OBVIOUS
    <2>1. /\ most[t] \in candidates /\ most[t] \notin Chain[tip]
          /\ \A c \in candidates : ~Worse(seq, most[t], c)
        BY <1>0 DEF StepBest
    <2>2. most[t] # tip' /\ most[t] \notin Chain[tip']
        BY <1>2, <2>1
    <2>3. pc'[t] = "step"
        BY <1>2, <2>2 DEF StepDisconnect, Goto, Base
    <2>4. StepBest'
        BY <1>0, <2>1, <2>2, Alone DEF StepBest, Critical
    <2> QED
        BY <2>3, <2>4 DEF Settled, Pending
<1> QED
    BY <1>3, <1>4, <1>5

\* Connecting a block prunes what is worse; if that takes the floor away, the block is the
\* new floor.
LEMMA StepConnectSearch ==
    ASSUME Base, NEW t \in Threads, StepConnect(t), ChainInv, Usable(tip),
           (Chain[most[t]] \ Chain[tip]) \cap Failed = {}
    PROVE  /\ NoneWorse' /\ Usable(tip)'
           /\ FloorInv => FloorInv'
           /\ StepBest => StepBest' /\ Settled'
<1>0. /\ UNCHANGED <<linked, seq, failedValid, failedChild, most, blk>>
      /\ scripts \subseteq scripts' /\ pc[t] = "step" /\ csMain = t
      /\ \A u \in Threads \ {t} : pc'[u] = pc[u]
    BY DEF StepConnect, Holds, Goto, Release, localVars, Base
<1>1. PICK b \in Blocks : /\ IsNext(t, b) /\ Connects(t, b) /\ tip' = b
                          /\ scripts' = scripts \cup {b}
                          /\ candidates' = NotWorseThan(b)
                          /\ IF b = most[t] \/ Work[b] > Work[oldTip[t]]
                             THEN Release(t, "test")
                             ELSE Goto(t, "step")
    BY DEF StepConnect
<1>2. most[t] \in linked /\ most[t] \in Blocks /\ candidates \subseteq Blocks /\ tip \in Blocks
      /\ seq \in [Blocks -> Nat] /\ linked \subseteq Blocks
    BY <1>0 DEF Base, Sorted
<1>3. b \in Chain[most[t]] /\ b \in Blocks \ {Genesis} /\ Parent[b] = tip
    BY <1>1 DEF IsNext
<1>4. candidates' = {c \in candidates : ~Worse(seq, c, b)}
    BY <1>1 DEF NotWorseThan
<1>5. NoneWorse'
    BY <1>0, <1>1, <1>4 DEF NoneWorse
<1>6. b \in linked /\ SoundChain(b) /\ Chain[b] \ {Genesis} \subseteq scripts' /\ Usable(b)
    <2>1. Chain[b] = Chain[tip] \cup {b} /\ Chain[b] \subseteq Chain[most[t]]
        BY <1>2, <1>3, ParentChain, TreeAssumption
    <2>2. b \in linked /\ Usable(b)
        BY <1>2, <2>1 DEF Base, Sorted, Usable
    <2>3. SoundChain(b)
        BY <1>1, <1>3, Redo DEF Connects, ChainInv
    <2> QED
        BY <1>1, <2>1, <2>2, <2>3 DEF ChainInv
<1>7. Usable(tip)'
    BY <1>0, <1>1, <1>6 DEF Usable, Failed
<1>8. FloorInv => FloorInv'
    BY <1>0, <1>1, <1>2, <1>6, FloorHere, FloorPruned DEF FloorInv
<1>9. StepBest => StepBest' /\ Settled'
    <2> SUFFICES ASSUME StepBest PROVE StepBest' /\ Settled'
        OBVIOUS
    <2>1. /\ most[t] \in candidates
          /\ \A c \in candidates : ~Worse(seq, most[t], c)
        BY <1>0 DEF StepBest
    <2>2. pc'[t] \in {"test", "step"} /\ (pc'[t] = "step" => b # most[t])
        BY <1>1 DEF Release, Goto, Base
    <2>3. ASSUME b # most[t]
          PROVE  most[t] \in candidates' /\ most[t] \notin Chain[b]
        <3>1. Worse(seq, b, most[t])
            BY <1>2, <1>3, <2>3, AncestorWorse
        <3>2. ~Worse(seq, most[t], b)
            BY <1>2, <3>1, WorseAsymmetric
        <3> QED
            BY <1>2, <1>4, <2>1, <2>3, <3>2, AncestorWorse
    <2>4. StepBest'
        BY <1>0, <1>1, <1>4, <2>1, <2>2, <2>3, Alone DEF StepBest, Critical
    <2>5. Settled'
        <3>1. CASE b = most[t]
            BY <1>0, <1>4, <2>1, <3>1, <1>1 DEF Settled, TipBest
        <3>2. CASE b # most[t]
            BY <1>0, <1>1, <2>2, <3>2 DEF Settled, Pending
        <3> QED
            BY <3>1, <3>2
    <2> QED
        BY <2>4, <2>5
<1> QED
    BY <1>5, <1>7, <1>8, <1>9

\* A block that cannot be connected is on no sound chain, or was never connected.
LEMMA RefutedIsNew ==
    ASSUME NEW t, NEW b \in Blocks, IsNext(t, b), ~Connects(t, b), coins = UnspentAt(tip),
           refused \cap scripts = {}, NEW q \in Blocks, SoundChain(q),
           Chain[q] \ {Genesis} \subseteq scripts
    PROVE  b \notin Chain[q]
    BY DEF IsNext, Connects, SoundChain

\* So it is not on the floor's chain.
LEMMA StepConnectFailsSearch ==
    ASSUME Base, NEW t \in Threads, StepConnectFails(t)
    PROVE  /\ NoneWorse => NoneWorse'
           /\ FloorInv /\ coins = UnspentAt(tip) /\ refused \cap scripts = {} => FloorInv'
           /\ StepBest => StepBest' /\ Settled'
<1>0. /\ UNCHANGED <<linked, scripts, seq, failedChild, tip, most, blk>>
      /\ pc[t] = "step" /\ csMain = t /\ pc'[t] = "test"
      /\ \A u \in Threads \ {t} : pc'[u] = pc[u]
    BY DEF StepConnectFails, Holds, Release, chainVars, localVars, Base
<1>1. PICK b \in Blocks : IsNext(t, b) /\ ~Connects(t, b) /\ InvalidBlockFound(b)
    BY DEF StepConnectFails
<1>2. failedValid' = failedValid \cup {b} /\ candidates' = candidates \ {b}
      /\ Failed' = Failed \cup {b}
    BY <1>0, <1>1 DEF InvalidBlockFound, Failed
<1>3. NoneWorse => NoneWorse'
    BY <1>0, <1>2 DEF NoneWorse
<1>4. FloorInv /\ coins = UnspentAt(tip) /\ refused \cap scripts = {} => FloorInv'
    <2> SUFFICES ASSUME FloorInv, coins = UnspentAt(tip), refused \cap scripts = {}
                 PROVE  FloorInv'
        OBVIOUS
    <2>1. PICK p \in linked : Floor(p) /\ p \in Blocks
        BY <1>0, FloorHere
    <2>2. b \notin Chain[p]
        BY <1>1, <2>1, RefutedIsNew DEF Floor
    <2>3. Chain[p] \cap Failed' = {}
        BY <1>2, <2>1, <2>2 DEF Floor, Usable
    <2>4. ~Usable(b)'
        BY <1>2, TreeAssumption DEF Usable
    <2> QED
        BY <1>0, <1>2, <2>1, <2>3, <2>4, FloorFrame DEF FloorInv
<1>5. StepBest'
    BY <1>0, Alone DEF StepBest, Critical
<1>6. StepBest => Settled'
    <2>1. StepBest => most[t] # tip
        BY <1>0, TreeAssumption DEF StepBest, Base
    <2> QED
        BY <1>0, <2>1 DEF Settled, Pending
<1> QED
    BY <1>3, <1>4, <1>5, <1>6

\* InvalidateBlock marks the block and takes it out; the candidates are completed when it
\* has found the new tip.
LEMMA InvalidateSearch ==
    ASSUME Base, NEW t \in Threads, NEW b \in Blocks, Invalidate(t, b)
    PROVE  (NoneWorse => NoneWorse') /\ FloorInv' /\ StepBest' /\ Settled'
<1>0. /\ UNCHANGED <<seq, tip, most>> /\ candidates' \subseteq candidates
      /\ csMain = NULL /\ pc'[t] = "invalidate"
      /\ \A u \in Threads \ {t} : pc'[u] = pc[u]
    BY DEF Invalidate, Acquire, chainVars, Base
<1>1. NoneWorse => NoneWorse'
    BY <1>0 DEF NoneWorse
<1>2. FloorInv'
    BY <1>0 DEF FloorInv
<1>3. StepBest'
    BY <1>0, ChainStateAssumption DEF StepBest, Base, Critical
<1>4. Settled'
    BY <1>0 DEF Settled, Pending
<1> QED
    BY <1>1, <1>2, <1>3, <1>4

LEMMA InvalidateDisconnectSearch ==
    ASSUME Base, NEW t \in Threads, InvalidateDisconnect(t)
    PROVE  (NoneWorse => NoneWorse') /\ FloorInv' /\ StepBest' /\ Settled'
<1>0. /\ UNCHANGED <<seq, most, pc>> /\ candidates' \subseteq candidates
      /\ csMain = t /\ pc[t] = "invalidate" /\ blk[t] \in Chain[tip]
      /\ tip' = Parent[tip]
    BY DEF InvalidateDisconnect, Holds, DisconnectTip, localVars
<1>1. tip # Genesis
    BY <1>0, TreeAssumption DEF Base
<1>2. NoneWorse => NoneWorse'
    BY <1>0, <1>1, NoneWorseDown
<1>3. FloorInv'
    BY <1>0 DEF FloorInv
<1>4. StepBest'
    BY <1>0, Alone DEF StepBest, Critical
<1>5. Settled'
    BY <1>0 DEF Settled, Pending
<1> QED
    BY <1>2, <1>3, <1>4, <1>5

\* The new tip is the new floor.
LEMMA InvalidateFinishSearch ==
    ASSUME Base, NEW t \in Threads, InvalidateFinish(t), tip \in linked, SoundChain(tip),
           Chain[tip] \ {Genesis} \subseteq scripts, Usable(tip)
    PROVE  (NoneWorse => NoneWorse') /\ FloorInv' /\ StepBest' /\ Settled'
<1>0. /\ UNCHANGED <<linked, scripts, seq, failedValid, failedChild, tip, most>>
      /\ candidates' = candidates \cup Restored
      /\ csMain = t /\ pc[t] = "invalidate" /\ pc'[t] = "activate"
      /\ \A u \in Threads \ {t} : pc'[u] = pc[u]
    BY DEF InvalidateFinish, Holds, Release, indexVars, chainVars, Base
<1>1. NoneWorse => NoneWorse'
    BY <1>0 DEF NoneWorse, Restored
<1>2. Floor(tip)' /\ tip' \in linked'
    BY <1>0, TreeAssumption DEF Floor, Usable, Failed, Restored, Base, Sorted
<1>3. StepBest'
    BY <1>0, Alone DEF StepBest, Critical
<1>4. Settled'
    BY <1>0 DEF Settled, Pending
<1> QED
    BY <1>1, <1>2, <1>3, <1>4 DEF FloorInv

---------------------------------------------------------------------------
(* The search itself, whatever the locks and the operator do.              *)

\* A thread that holds cs_main, and has no invalidated block of the active chain in hand,
\* finds nothing failed on it.
LEMMA TipUsable ==
    ASSUME Inv, NEW t \in Threads, csMain = t,
           pc[t] # "invalidate" \/ blk[t] \notin Chain[tip]
    PROVE  Usable(tip)
<1>1. \A u \in Threads : pc[u] = "invalidate" => u = t
    BY InvBase, Alone DEF Critical
<1> QED
    BY <1>1, TreeAssumption DEF Usable, Inv, FailedInv, TypeOK

\* ReconsiderBlock adds better blocks only, and finds no thread inside a step.
LEMMA ReconsiderLook ==
    ASSUME Base, LookInv, NEW b, ReconsiderBlock(b), csMain = NULL, UNCHANGED <<seq, tip, most>>,
           NEW t \in Threads, pc'[t] \in {"activate", "reconsider"},
           \A u \in Threads \ {t} : pc'[u] = pc[u]
    PROVE  LookInv'
<1>1. linked \subseteq Blocks /\ tip \in Blocks /\ seq \in [Blocks -> Nat]
    BY DEF Base, Sorted
<1>2. \A c \in candidates' : c \in candidates \/ (c \in linked /\ Worse(seq, tip, c))
    BY DEF ReconsiderBlock
<1>3. NoneWorse'
    BY <1>1, <1>2, WorseAsymmetric DEF LookInv, NoneWorse
<1>4. StepBest'
    BY ChainStateAssumption DEF StepBest, Base, Critical
<1>5. Settled'
    BY DEF Settled, Pending
<1> QED
    BY <1>3, <1>4, <1>5 DEF LookInv

\* ReprocessBlocks, which ends in ActivateBestChain.
LEMMA ReprocessLook ==
    ASSUME Base, LookInv, NEW t \in Threads,
           ReprocessBegin(t) \/ ReprocessDisconnect(t) \/ ReprocessFinish(t)
    PROVE  LookInv'
<1>1. /\ UNCHANGED <<seq, candidates, most>> /\ csMain \in {NULL, t}
      /\ pc'[t] \in {"disconnect", "activate"}
      /\ \A u \in Threads \ {t} : pc'[u] = pc[u]
    BY DEF ReprocessBegin, ReprocessDisconnect, ReprocessFinish, Holds, Acquire, Release,
       indexVars, localVars, Base
<1>2. NoneWorse'
    <2>1. CASE ReprocessDisconnect(t)
        BY <2>1, NoneWorseDown
        DEF ReprocessDisconnect, DisconnectTip, indexVars, LookInv
    <2>2. CASE UNCHANGED tip
        BY <1>1, <2>2 DEF LookInv, NoneWorse
    <2> QED
        BY <2>1, <2>2 DEF ReprocessBegin, ReprocessFinish, chainVars
<1>3. StepBest'
    BY <1>1, Alone DEF StepBest, Critical
<1>4. Settled'
    BY <1>1 DEF Settled, Pending
<1> QED
    BY <1>2, <1>3, <1>4 DEF LookInv

\* Nothing that LookInv speaks of changes.
LEMMA LookStutter ==
    ASSUME LookInv, UNCHANGED <<seq, candidates, tip, pc, most>>
    PROVE  LookInv'
    BY DEF LookInv, NoneWorse, StepBest, Settled, Pending, TipBest

\* Calls that arrive.
LEMMA BeginLook ==
    ASSUME Inv, LookInv, NEW t \in Threads, Begin(t)
    PROVE  LookInv'
<1>1. Base
    BY InvBase
<1>2. ASSUME NEW b \in Blocks, ReceiveBlock(t, b)
      PROVE  LookInv'
    BY <1>1, <1>2, StillActions DEF LookInv
<1>3. ASSUME NEW b \in Blocks, RefuseBlock(t, b)
      PROVE  LookInv'
    BY <1>3, LookStutter DEF RefuseBlock, indexVars, chainVars, localVars
<1>4. ASSUME NEW b \in Blocks, Invalidate(t, b)
      PROVE  LookInv'
    BY <1>1, <1>4, InvalidateSearch DEF LookInv
<1>5. ASSUME NEW b \in Blocks, Reconsider(t, b)
      PROVE  LookInv'
    <2>1. /\ ReconsiderBlock(b) /\ csMain = NULL /\ UNCHANGED <<seq, tip, most>>
          /\ pc'[t] = "activate"
          /\ \A u \in Threads \ {t} : pc'[u] = pc[u]
        BY <1>1, <1>5 DEF Reconsider, Goto, chainVars, localVars, Base
    <2> QED
        BY <1>1, <2>1, ReconsiderLook
<1>6. ASSUME NEW n \in ReprocessDepths, Reprocess(t, n)
      PROVE  LookInv'
    <2>1. /\ UNCHANGED <<linked, scripts, seq, candidates, failedValid, failedChild, tip>>
          /\ pc[t] = "idle" /\ pc'[t] = "reconsider"
          /\ \A u \in Threads \ {t} : pc'[u] = pc[u] /\ most'[u] = most[u]
        BY <1>1, <1>6 DEF Reprocess, Goto, indexVars, chainVars, Base
    <2> QED
        BY <2>1, StillSearch DEF Pending, LookInv
<1> QED
    BY <1>2, <1>3, <1>4, <1>5, <1>6, ChainStateAssumption DEF Begin

\* Steps of calls.
LEMMA ContinueLook ==
    ASSUME Inv, Inv', LookInv, NEW t \in Threads, Continue(t)
    PROVE  LookInv'
<1>1. Base /\ Base'
    BY InvBase DEF Inv, TypeOK, IndexConsistent, ThreadInv, Base, Sorted
<1>2. CASE Accept(t)
    BY <1>1, <1>2, StillActions, AcceptInvalidSearch, AcceptStoreSearch
    DEF Accept, LookInv, Inv, ChainInv
<1>3. CASE StepConnect(t)
    <2>1. /\ ChainInv /\ (Chain[most[t]] \ Chain[tip]) \cap Failed = {}
          /\ csMain = t /\ pc[t] # "invalidate"
        BY <1>3 DEF StepConnect, Holds, Inv, ThreadInv
    <2> QED
        BY <1>1, <1>3, <2>1, TipUsable, StepConnectSearch DEF LookInv
<1>4. CASE Activation(t) /\ ~StepConnect(t)
    BY <1>1, <1>4, StillActions, FindDropSearch, FindPickSearch, StepDisconnectSearch,
       StepConnectFailsSearch
    DEF Activation, LookInv
<1>5. CASE InvalidateDisconnect(t)
    BY <1>1, <1>5, InvalidateDisconnectSearch DEF LookInv
<1>6. CASE InvalidateFinish(t)
    <2>1. csMain = t /\ blk[t] \notin Chain[tip]
        BY <1>6 DEF InvalidateFinish, Holds
    <2> QED
        BY <1>1, <1>6, <2>1, TipUsable, InvalidateFinishSearch DEF LookInv, Inv, ChainInv
<1>7. CASE ReprocessBegin(t) \/ ReprocessDisconnect(t) \/ ReprocessFinish(t)
    BY <1>1, <1>7, ReprocessLook
<1> QED
    BY <1>2, <1>3, <1>4, <1>5, <1>6, <1>7 DEF Continue

LEMMA NextLook ==
    ASSUME Inv, Inv', LookInv, [Next]_vars
    PROVE  LookInv'
<1>1. ASSUME NEW t \in Threads, NEW b \in Blocks, ReprocessReconsider(t, b)
      PROVE  LookInv'
    BY <1>1, InvBase, ReconsiderLook DEF ReprocessReconsider, chainVars, localVars
<1>2. CASE UNCHANGED vars \/ Rest \/ \E S \in SUBSET Lockable : ChangeLocks(S)
    BY <1>2, LookStutter DEF Rest, ChangeLocks, vars, indexVars, chainVars, localVars
<1> QED
    BY <1>1, <1>2, BeginLook, ContinueLook DEF Next

---------------------------------------------------------------------------
(* The floor and the marks: what BestInv says beyond LookInv.              *)

FloorMarks == FloorInv /\ MarksGrounded

\* Actions that set no mark and begin no InvalidateBlock.
LEMMA UnmarkedFloor ==
    ASSUME Inv, Inv', BestInv, NEW t \in Threads,
           \/ \E b \in Blocks : ReceiveBlock(t, b)
           \/ AcceptTurnedAway(t) \/ AcceptDuplicate(t) \/ AcceptStakeSpent(t) \/ AcceptStore(t)
           \/ TryLock(t) \/ FindNone(t) \/ FindPick(t) \/ LoopTest(t)
           \/ StepDisconnect(t) \/ StepConnect(t)
    PROVE  FloorMarks'
<1>1. Base /\ Base'
    BY InvBase DEF Inv, TypeOK, IndexConsistent, ThreadInv, Base, Sorted
<1>2. /\ UNCHANGED <<failedValid, failedChild>>
      /\ pc[t] # "invalidate" /\ pc'[t] # "invalidate"
      /\ \A u \in Threads \ {t} : pc'[u] = pc[u] /\ blk'[u] = blk[u]
    BY <1>1 DEF ReceiveBlock, Offered, AcceptTurnedAway, AcceptDuplicate, AcceptStakeSpent,
       AcceptStore, AtAccept, TryLock, FindNone, FindPick, LoopTest, StepDisconnect, StepConnect,
       Holds, Goto, Return, Release, Acquire, indexVars, localVars, Base
<1>3. MarksGrounded'
    BY <1>2 DEF BestInv, MarksGrounded
<1>4. CASE StepConnect(t)
    <2>1. ChainInv /\ (Chain[most[t]] \ Chain[tip]) \cap Failed = {} /\ csMain = t
        BY <1>4 DEF StepConnect, Holds, Inv, ThreadInv
    <2> QED
        BY <1>1, <1>2, <1>3, <1>4, <2>1, TipUsable, StepConnectSearch
           DEF BestInv, LookInv, FloorMarks
<1>5. CASE AcceptStore(t)
    BY <1>1, <1>3, <1>5, AcceptStoreSearch DEF BestInv, LookInv, FloorMarks, Inv, ChainInv
<1> QED
    BY <1>1, <1>3, <1>4, <1>5, StillActions, FindPickSearch, StepDisconnectSearch
       DEF BestInv, LookInv, FloorMarks

\* Actions that mark a block.
LEMMA MarkedFloor ==
    ASSUME Inv, BestInv, Calm, NEW t \in Threads,
           \/ AcceptInvalid(t) \/ FindDrop(t) \/ StepConnectFails(t) \/ InvalidateDisconnect(t)
           \/ \E b \in Blocks : Invalidate(t, b)
    PROVE  FloorMarks'
<1>1. Base
    BY InvBase
<1>2. CASE AcceptInvalid(t)
    <2>1. /\ failedValid \subseteq failedValid' /\ UNCHANGED failedChild
          /\ pc'[t] # "invalidate"
          /\ \A u \in Threads \ {t} : pc'[u] = pc[u] /\ blk'[u] = blk[u]
        BY <1>1, <1>2 DEF AcceptInvalid, Return, Base
    <2>2. MarksGrounded'
        BY <2>1 DEF BestInv, MarksGrounded
    <2> QED
        BY <1>1, <1>2, <2>2, AcceptInvalidSearch DEF BestInv, LookInv, FloorMarks
<1>3. CASE FindDrop(t)
    <2>1. UNCHANGED <<pc, blk>>
        BY <1>3 DEF FindDrop, localVars
    <2>2. ASSUME NEW b \in failedChild'
          PROVE  Chain[b] \cap failedValid # {}
        <3>1. CASE b \in failedChild
            BY <3>1 DEF BestInv, MarksGrounded
        <3>2. CASE b \notin failedChild
            <4>1. PICK x \in Failed : x \in Chain[b] /\ b \in Blocks
                BY <1>1, <1>3, <2>2, <3>2, DropSpares
            <4>2. Chain[x] \cap failedValid # {}
                BY <4>1, TreeAssumption DEF Failed, BestInv, MarksGrounded
            <4> QED
                BY <4>1, <4>2, TreeAssumption
        <3> QED
            BY <3>1, <3>2
    <2>3. MarksGrounded'
        BY <1>1, <1>3, <2>1, <2>2, DropSpares DEF BestInv, MarksGrounded
    <2> QED
        BY <1>1, <1>3, <2>3, FindDropSearch DEF BestInv, LookInv, FloorMarks
<1>4. CASE StepConnectFails(t)
    <2>1. /\ failedValid \subseteq failedValid' /\ UNCHANGED <<failedChild, blk>>
          /\ pc'[t] # "invalidate"
          /\ \A u \in Threads \ {t} : pc'[u] = pc[u]
        BY <1>1, <1>4 DEF StepConnectFails, InvalidBlockFound, Release, localVars, Base
    <2>2. MarksGrounded'
        BY <2>1 DEF BestInv, MarksGrounded
    <2> QED
        BY <1>1, <1>4, <2>2, StepConnectFailsSearch
           DEF BestInv, LookInv, FloorMarks, Calm, Inv, ChainInv
<1>5. CASE InvalidateDisconnect(t)
    <2>1. /\ UNCHANGED <<failedValid, pc, blk>> /\ failedChild' = failedChild \cup {tip}
          /\ blk[t] \in Chain[tip] /\ blk[t] \in failedValid
        BY <1>5 DEF InvalidateDisconnect, Holds, localVars, BestInv, MarksGrounded
    <2>2. MarksGrounded'
        BY <2>1 DEF BestInv, MarksGrounded
    <2> QED
        BY <1>1, <1>5, <2>2, InvalidateDisconnectSearch DEF BestInv, LookInv, FloorMarks
<1>6. ASSUME NEW b \in Blocks, Invalidate(t, b)
      PROVE  FloorMarks'
    <2>1. /\ failedValid' = failedValid \cup {b} /\ UNCHANGED failedChild
          /\ blk'[t] = b
          /\ \A u \in Threads \ {t} : pc'[u] = pc[u] /\ blk'[u] = blk[u]
        BY <1>1, <1>6 DEF Invalidate, Acquire, Base
    <2>2. MarksGrounded'
        BY <2>1 DEF BestInv, MarksGrounded
    <2> QED
        BY <1>1, <1>6, <2>2, InvalidateSearch DEF BestInv, LookInv, FloorMarks
<1> QED
    BY <1>2, <1>3, <1>4, <1>5, <1>6

\* InvalidateBlock is done, and nothing on the active chain is failed.
LEMMA InvalidateFinishFloor ==
    ASSUME Inv, BestInv, NEW t \in Threads, InvalidateFinish(t)
    PROVE  FloorMarks'
<1>1. Base
    BY InvBase
<1>2. /\ UNCHANGED <<failedValid, failedChild>>
      /\ csMain = t /\ blk[t] \notin Chain[tip] /\ pc'[t] # "invalidate"
      /\ \A u \in Threads \ {t} : pc'[u] = pc[u] /\ blk'[u] = blk[u]
    BY <1>1 DEF InvalidateFinish, Holds, Release, indexVars, Base
<1>3. Usable(tip)
    BY <1>2, TipUsable
<1>4. MarksGrounded'
    BY <1>2 DEF BestInv, MarksGrounded
<1> QED
    BY <1>1, <1>3, <1>4, InvalidateFinishSearch DEF BestInv, LookInv, FloorMarks, Inv, ChainInv

\* Nothing that FloorMarks speaks of changes; ReprocessBlocks moves the tip and the coins,
\* and the tip it leaves stays a candidate.
LEMMA FloorStutter ==
    ASSUME BestInv, UNCHANGED <<linked, scripts, seq, candidates, failedValid, failedChild, blk>>,
           \A t \in Threads : pc[t] = "invalidate" <=> pc'[t] = "invalidate"
    PROVE  FloorMarks'
    BY DEF BestInv, FloorMarks, FloorInv, Floor, Usable, Failed, MarksGrounded

\* ReconsiderBlock on a block without a mark to clear changes nothing.
LEMMA NothingToReconsider ==
    ASSUME NEW b, ReconsiderBlock(b), MarksStay
    PROVE  UNCHANGED <<candidates, failedValid, failedChild>>
<1> DEFINE D == {x \in known \cap Failed : b \in Chain[x]}
<1>1. /\ failedValid' = failedValid \ (D \cup Chain[b])
      /\ failedChild' = failedChild \ (D \cup Chain[b])
      /\ candidates' = candidates \cup {x \in D \cap linked : Worse(seq, tip, x)}
    BY DEF ReconsiderBlock
<1>2. UNCHANGED <<failedValid, failedChild>>
    BY <1>1 DEF MarksStay
<1>3. D = {}
    BY <1>1, <1>2 DEF Failed
<1> QED
    BY <1>1, <1>2, <1>3

\* At the start the root is the tip, the floor and the only candidate.
LEMMA InitBest == Init => BestInv
<1> SUFFICES ASSUME Init PROVE BestInv
    OBVIOUS
<1>1. seq \in [Blocks -> Nat] /\ Genesis \in Blocks /\ tip = Genesis
    BY TreeAssumption DEF Init
<1>2. ~Worse(seq, Genesis, Genesis)
    BY <1>1, WorseIrreflexive
<1>3. NoneWorse /\ TipBest
    BY <1>2 DEF Init, NoneWorse, TipBest
<1>4. Floor(Genesis)
    BY TreeAssumption DEF Init, Floor, SoundChain, Usable, Failed
<1> QED
    BY <1>3, <1>4 DEF Init, BestInv, LookInv, FloorInv, MarksGrounded, StepBest, Settled

\* Every step that clears no mark keeps the candidates complete, while no lock conflicts
\* with a connected block, and somebody looking for the best of them.
LEMMA NextBest ==
    ASSUME Inv, Inv', BestInv, Calm, [Next]_vars, [MarksStay]_vars
    PROVE  BestInv'
<1>0. pc \in [Threads -> PCs]
    BY DEF Inv, TypeOK
<1>1. ASSUME NEW t \in Threads, Begin(t), MarksStay
      PROVE  FloorMarks'
    <2>1. ASSUME NEW b \in Blocks, RefuseBlock(t, b)
          PROVE  FloorMarks'
        BY <2>1, FloorStutter DEF RefuseBlock, indexVars, chainVars, localVars
    <2>2. ASSUME NEW n \in ReprocessDepths, Reprocess(t, n)
          PROVE  FloorMarks'
        BY <1>0, <2>2, FloorStutter DEF Reprocess, Goto, indexVars
    <2>3. ASSUME NEW b \in Blocks, Reconsider(t, b)
          PROVE  FloorMarks'
        <3>1. UNCHANGED <<candidates, failedValid, failedChild>>
            BY <1>1, <2>3, NothingToReconsider DEF Reconsider
        <3> QED
            BY <1>0, <2>3, <3>1, FloorStutter DEF Reconsider, Goto, localVars
    <2>4. Invalidatable \subseteq Blocks
        BY ChainStateAssumption
    <2> QED
        BY <1>1, <2>1, <2>2, <2>3, <2>4, UnmarkedFloor, MarkedFloor DEF Begin
<1>2. ASSUME NEW t \in Threads, Accept(t)
      PROVE  FloorMarks'
    BY <1>2, UnmarkedFloor, MarkedFloor DEF Accept
<1>3. ASSUME NEW t \in Threads, Activation(t)
      PROVE  FloorMarks'
    BY <1>3, UnmarkedFloor, MarkedFloor DEF Activation
<1>4. ASSUME NEW t \in Threads,
             ReprocessBegin(t) \/ ReprocessDisconnect(t) \/ ReprocessFinish(t)
      PROVE  FloorMarks'
    <2>1. /\ UNCHANGED <<linked, scripts, seq, candidates, failedValid, failedChild, blk>>
          /\ pc[t] # "invalidate" /\ pc'[t] # "invalidate"
          /\ \A u \in Threads \ {t} : pc'[u] = pc[u]
        BY <1>0, <1>4 DEF ReprocessBegin, ReprocessDisconnect, ReprocessFinish, Holds, Acquire,
           Release, indexVars, localVars
    <2> QED
        BY <2>1, FloorStutter
<1>5. ASSUME NEW t \in Threads, Continue(t)
      PROVE  FloorMarks'
    BY <1>2, <1>3, <1>4, <1>5, MarkedFloor, InvalidateFinishFloor DEF Continue
<1>6. ASSUME NEW t \in Threads, NEW b \in Blocks, ReprocessReconsider(t, b), MarksStay
      PROVE  FloorMarks'
    <2>1. UNCHANGED <<candidates, failedValid, failedChild>>
        BY <1>6, NothingToReconsider DEF ReprocessReconsider
    <2> QED
        BY <1>6, <2>1, FloorStutter DEF ReprocessReconsider, localVars
<1>7. ASSUME NEW S \in SUBSET Lockable, ChangeLocks(S)
      PROVE  FloorMarks'
    BY <1>7, FloorStutter DEF ChangeLocks, indexVars, chainVars, localVars
<1>8. ASSUME UNCHANGED vars
      PROVE  FloorMarks'
    <2>1. UNCHANGED <<linked, scripts, seq, candidates, failedValid, failedChild, pc, blk>>
        BY <1>8 DEF vars, indexVars, localVars
    <2> QED
        BY <2>1, FloorStutter
<1>9. ASSUME Next, MarksStay
      PROVE  FloorMarks'
    BY <1>1, <1>5, <1>6, <1>7, <1>8, <1>9 DEF Next, Rest
<1> QED
    BY <1>8, <1>9, NextLook DEF BestInv, FloorMarks

\* Every step but those of ReconsiderBlock leaves all failure marks.
LEMMA NextMarksStay ==
    ASSUME [Next]_vars, \A t \in Threads, b \in Blocks : ~ReprocessReconsider(t, b),
           \A t \in Threads, b \in Invalidatable : ~Reconsider(t, b)
    PROVE  MarksStay
<1> USE DEF MarksStay, indexVars
<1>1. ASSUME NEW t \in Threads, Begin(t)
      PROVE  MarksStay
    BY <1>1 DEF Begin, ReceiveBlock, RefuseBlock, Invalidate, Reprocess
<1>2. ASSUME NEW t \in Threads, Accept(t)
      PROVE  MarksStay
    BY <1>2 DEF Accept, AcceptTurnedAway, AcceptDuplicate, AcceptInvalid, AcceptStakeSpent,
                AcceptStore
<1>3. ASSUME NEW t \in Threads, Activation(t)
      PROVE  MarksStay
    <2>1. CASE FindDrop(t)
        BY <2>1 DEF FindDrop
    <2>2. CASE StepConnectFails(t)
        BY <2>2 DEF StepConnectFails, InvalidBlockFound
    <2> QED
        BY <1>3, <2>1, <2>2 DEF Activation, TryLock, FindNone, FindPick, StepDisconnect,
           StepConnect, LoopTest
<1>4. ASSUME NEW t \in Threads, Continue(t)
      PROVE  MarksStay
    BY <1>2, <1>3, <1>4 DEF Continue, InvalidateDisconnect, InvalidateFinish, ReprocessBegin,
       ReprocessDisconnect, ReprocessFinish
<1>5. CASE UNCHANGED vars
    BY <1>5 DEF vars
<1> QED
    BY <1>1, <1>4, <1>5 DEF Next, ChangeLocks, Rest

\* With every call returned, the floor is below the tip and nothing is above it.
LEMMA QuietIsBest ==
    ASSUME Base, FloorInv, Settled, Quiet
    PROVE  \A b \in linked : Usable(b) => /\ ~Worse(seq, b, tip) => b \in candidates
                                         /\ ~Worse(seq, tip, b)
<1>1. TipBest
    BY DEF Quiet, Settled, Pending
<1>2. PICK p \in linked : Floor(p)
    BY DEF Quiet, FloorInv
<1>3. linked \subseteq Blocks /\ tip \in Blocks /\ seq \in [Blocks -> Nat]
    BY DEF Base, Sorted
<1>4. ~Worse(seq, tip, p)
    BY <1>1, <1>2, <1>3, WorseIrreflexive DEF Floor, TipBest
<1> SUFFICES ASSUME NEW b \in linked, Usable(b)
             PROVE  (~Worse(seq, b, tip) => b \in candidates) /\ ~Worse(seq, tip, b)
    OBVIOUS
<1>5. ~Worse(seq, b, tip) => b \in candidates
    BY <1>2, <1>3, <1>4, NotWorseTransitive DEF Floor
<1> QED
    BY <1>1, <1>3, <1>5, WorseAsymmetric DEF TipBest

\* LookInv holds in every state, with all the threads, calls and locks there are.
THEOREM LookInvariance == Spec => []LookInv
<1>1. Init => LookInv
    BY InitBest DEF BestInv
<1>2. Inv /\ Inv' /\ LookInv /\ [Next]_vars => LookInv'
    BY NextLook
<1> QED
    BY <1>1, <1>2, Invariance, PTL DEF Spec

\* FindMostWorkChain and the loop of ActivateBestChain: whatever happens between the steps,
\* in any order, somebody looks at every candidate before the last call returns.
THEOREM CandidatesAlwaysTaken == Spec => []NoCandidateLeft
<1>1. Inv /\ LookInv => NoCandidateLeft
    <2> SUFFICES ASSUME Inv, LookInv, Quiet, NEW c \in candidates
                 PROVE  c = tip
        BY DEF NoCandidateLeft
    <2>1. ~Worse(seq, c, tip) /\ ~Worse(seq, tip, c)
        BY DEF LookInv, NoneWorse, Settled, TipBest, Pending, Quiet
    <2>2. c \in Blocks /\ tip \in Blocks /\ seq \in [Blocks -> Nat]
        BY InvBase DEF Base, Sorted
    <2> QED
        BY <2>1, <2>2, WorseTotal
<1> QED
    BY <1>1, Invariance, LookInvariance, PTL

\* BestInv holds as long as no lock conflicts with a connected block and no failure mark is
\* cleared; submitted, invalid, refused, duplicate and invalidated blocks, the blocks
\* ReprocessBlocks disconnects, and every interleaving of the threads, are covered.
THEOREM BestInvariance == Spec /\ []Calm /\ [][MarksStay]_vars => []BestInv
<1>1. Init => BestInv
    BY InitBest
<1>2. Inv /\ Inv' /\ BestInv /\ Calm /\ [Next]_vars /\ [MarksStay]_vars => BestInv'
    BY NextBest
<1> QED
    BY <1>1, <1>2, Invariance, PTL DEF Spec

\* CheckBlockIndex: whenever no call is in progress the candidates are exactly the linked
\* blocks that are not worse than the tip and have no invalid block below them.  As for
\* BestInv, as long as no lock conflicts with a connected block and no mark is cleared.
THEOREM CandidatesAlwaysExact ==
    Spec /\ []Calm /\ [][MarksStay]_vars => []CandidatesExact
<1>1. Inv /\ BestInv => CandidatesExact
    <2> SUFFICES ASSUME Inv, BestInv, Quiet, NEW b \in linked
                 PROVE  IF Worse(seq, b, tip)
                        THEN b \notin candidates
                        ELSE Chain[b] \cap failedValid = {} => b \in candidates
        BY DEF CandidatesExact
    <2>1. Worse(seq, b, tip) => b \notin candidates
        BY DEF BestInv, LookInv, NoneWorse
    <2>2. Chain[b] \cap failedValid = {} => Usable(b)
        BY TreeAssumption DEF BestInv, MarksGrounded, Usable, Failed, Inv, TypeOK
    <2> QED
        BY <2>1, <2>2, InvBase, QuietIsBest DEF BestInv, LookInv
<1> QED
    BY <1>1, Invariance, BestInvariance, PTL

\* FindMostWorkChain and the loop of ActivateBestChain, whatever the threads do between the
\* steps: when every call has returned no usable linked block is better than the tip, under
\* the same conditions.
THEOREM MostWorkAlwaysActive ==
    Spec /\ []Calm /\ [][MarksStay]_vars => []MostWorkActive
<1>1. Inv /\ BestInv => MostWorkActive
    <2> SUFFICES ASSUME Inv, BestInv, Quiet, NEW b \in linked, Chain[b] \cap Failed = {}
                 PROVE  ~Worse(seq, tip, b)
        BY DEF MostWorkActive
    <2> QED
        BY InvBase, QuietIsBest DEF BestInv, LookInv, Usable
<1> QED
    BY <1>1, Invariance, BestInvariance, PTL

\* A node without transaction locks and without the operator's invalidateblock and
\* reconsiderblock meets those conditions all the time: ReprocessBlocks, whenever it is
\* called, finds no rejected block.
THEOREM PlainNode ==
    ASSUME Lockable = {}, Invalidatable = {}
    PROVE  Spec => []CandidatesExact /\ []MostWorkActive
<1> DEFINE NoLocks == refused = {} /\ rejected = {}
<1>1. Init => NoLocks
    BY DEF Init
<1>2. NoLocks /\ [Next]_vars => NoLocks' /\ [MarksStay]_vars
    <2> SUFFICES ASSUME NoLocks, [Next]_vars
                 PROVE  NoLocks' /\ [MarksStay]_vars
        OBVIOUS
    <2>1. \A t \in Threads, b \in Blocks : ~ReprocessReconsider(t, b)
        BY DEF ReprocessReconsider
    <2>2. MarksStay
        BY <2>1, NextMarksStay
    <2>3. ASSUME NEW t \in Threads, Begin(t)
          PROVE  NoLocks'
        BY <2>3 DEF Begin, ReceiveBlock, RefuseBlock, Reprocess, lockVars
    <2>4. ASSUME NEW t \in Threads, Accept(t)
          PROVE  NoLocks'
        BY <2>4 DEF Accept, AcceptTurnedAway, AcceptDuplicate, AcceptInvalid, AcceptStakeSpent,
                    AcceptStore, lockVars
    <2>5. ASSUME NEW t \in Threads, Activation(t)
          PROVE  NoLocks'
        BY <2>5 DEF Activation, TryLock, FindDrop, FindNone, FindPick, StepDisconnect,
                    StepConnect, StepConnectFails, LoopTest, lockVars
    <2>6. ASSUME NEW t \in Threads, Continue(t)
          PROVE  NoLocks'
        BY <2>4, <2>5, <2>6 DEF Continue, InvalidateDisconnect, InvalidateFinish, ReprocessBegin,
                    ReprocessDisconnect, ReprocessFinish, lockVars
    <2>7. \A S \in SUBSET Lockable : ~ChangeLocks(S)
        BY DEF ChangeLocks
    <2>8. CASE UNCHANGED vars
        BY <2>8 DEF vars, lockVars
    <2> QED
        BY <2>1, <2>2, <2>3, <2>6, <2>7, <2>8 DEF Next, Rest
<1>3. NoLocks => Calm
    BY DEF Calm
<1> QED
    BY <1>1, <1>2, <1>3, CandidatesAlwaysExact, MostWorkAlwaysActive, PTL DEF Spec

=============================================================================
