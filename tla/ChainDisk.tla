----------------------------- MODULE ChainDisk -----------------------------
(***************************************************************************)
(* The block index and the coins of ChainState on disk: which index        *)
(* entries are dirty, when FlushStateToDisk writes them and the coins,     *)
(* where a flush or the process can stop, and what LoadBlockIndexDB makes  *)
(* of what it finds (main.cpp, txdb.cpp, init.cpp).                        *)
(*                                                                         *)
(* The steps of the node are those of ChainState, without transaction      *)
(* locks and ReprocessBlocks, which leave nothing else on disk.  A flush   *)
(* writes index entries one by one, in the order of their addresses, and   *)
(* then the coins in one batch.  It is one action here, under cs_main,     *)
(* that may stop anywhere before the coins; a crash there is that outcome  *)
(* with the crash next.                                                    *)
(*                                                                         *)
(* Left out: what a failing write of the coins does to the cache (module   *)
(* CoinsCache), block and undo data, which are flushed before everything   *)
(* else, a loss of power, which undoes writes that were not synced, and    *)
(* file information that cannot be read at a start.  The entries that      *)
(* TestBlockValidity leaves on disk for block templates are left out too:  *)
(* a start makes headers without data of them.  Addr is the same in every  *)
(* run of the process, although its entries get new addresses.             *)
(***************************************************************************)
EXTENDS ChainState

CONSTANTS
    VerifyDepths,   \* how many blocks VerifyDB disconnects and connects again
    MaxDowns,       \* bound: how often the process may end
    MaxAborts       \* bound: how often a flush may fail

VARIABLES
    \* memory
    best,     \* pcoinsTip->GetBestBlock()
    dirty,    \* setDirtyBlockIndex
    hollow,   \* entries LoadBlockIndexGuts made for a parent that is not on disk
    high,     \* vinfoBlockFile[nLastBlockFile].nHeightLast
    \* disk
    disk,     \* flags of the index entries, or None
    dBest,    \* the best block of the coin database
    dHigh,    \* high, as written
    clean,    \* the flag "shutdown"
    \* the process
    phase,    \* "run", "recover", or how it ended
    downs, aborts

memVars == <<vars, best, dirty, hollow, high>>
diskVars == <<disk, dBest, dHigh, clean>>
dvars == <<memVars, diskVars, phase, downs, aborts>>

Up == phase \in {"run", "recover"}

None == {"none"}

\* nStatus of b, as CDiskBlockIndex writes it.
Flags(b) ==
    (IF b \in data THEN {"data"} ELSE {}) \cup (IF b \in scripts THEN {"scripts"} ELSE {})
        \cup (IF b \in failedValid THEN {"valid"} ELSE {})
        \cup (IF b \in failedChild THEN {"child"} ELSE {})

DInit ==
    /\ Init
    /\ best = Genesis /\ dirty = {} /\ hollow = {} /\ high = 0
    /\ disk = [b \in Blocks |-> IF b = Genesis THEN {"data"} ELSE None]
    /\ dBest = Genesis /\ dHigh = 0 /\ clean = FALSE
    /\ phase = "run"
    /\ downs = 0 /\ aborts = 0

---------------------------------------------------------------------------
(* Dirty entries and FlushStateToDisk. *)

\* Mistake: a block found invalid, or cleared, is not put into setDirtyBlockIndex.
DirtyUnlessFailed ==
    dirty \cup {b \in known' : b \notin known \/ (Flags(b)' \ Flags(b)) \cap {"data", "scripts"} # {}}

\* setDirtyBlockIndex after a step: every change of an entry is noted, but for the marks
\* FindMostWorkChain sets.
DirtyNow == dirty \cup {b \in known' : b \notin known \/ Flags(b)' # Flags(b)}

NoFlush ==
    /\ dirty' = DirtyNow
    /\ UNCHANGED diskVars

\* The entries of D that are written before a flush stops: they go in the order of the
\* set, which is that of the addresses.
Prefixes(D) == {W \in SUBSET D : \A x \in W, y \in D \ W : Addr[x] < Addr[y]}

\* Mistake: the coins are written first.
CoinsFirst(E, D, B) ==
    \E W \in Prefixes(D) :
        /\ disk' = [b \in Blocks |-> IF b \in W THEN Flags(b)' ELSE E[b]]
        /\ dirty' = D \ W
        /\ dBest' = B

\* The writes before the coins, up to some point, on a disk with the entries E.
WritesSome(E, D, B) ==
    \E W \in Prefixes(D) :
        /\ disk' = [b \in Blocks |-> IF b \in W THEN Flags(b)' ELSE E[b]]
        /\ dirty' = D \ W
        /\ dBest' = dBest

\* The flush succeeds, with pcoinsTip at B.
Flush(B) ==
    /\ disk' = [b \in Blocks |-> IF b \in DirtyNow THEN Flags(b)' ELSE disk[b]]
    /\ dirty' = {}
    /\ dBest' = B
    /\ dHigh' = high'
    /\ UNCHANGED clean

\* The disk is full or a write fails: Abort, and StartShutdown.  The file information
\* comes first.
FlushFails(E, B) ==
    /\ aborts < MaxAborts
    /\ aborts' = aborts + 1
    /\ WritesSome(E, DirtyNow, B)
    /\ dHigh' \in IF disk' = E THEN {dHigh, high'} ELSE {high'}
    /\ UNCHANGED clean

\* ConnectBlock writes the entry of b itself, before it sets the flags that make it dirty.
DiskWith(b) == [disk EXCEPT ![b] = Flags(b)]

DirectWrite(b) ==
    /\ disk' = DiskWith(b)
    /\ dirty' = DirtyNow
    /\ UNCHANGED <<dBest, dHigh, clean>>

---------------------------------------------------------------------------
(* The steps of ChainState that do not touch the disk. *)

\* The header of a block below an entry without content is checked at height 1, and a
\* real chain is much higher than that.
AcceptBelowHollow(t) ==
    /\ AtAccept(t)
    /\ Parent[blk[t]] \in hollow
    /\ Return(t)
    /\ UNCHANGED <<indexVars, candidates, chainVars, lockVars>>

\* The height of a stored block goes to the block file's information (FindBlockPos).
DAccept(t) ==
    /\ \/ Accept(t) /\ Parent[blk[t]] \notin hollow
       \/ AcceptBelowHollow(t)
    /\ high' = IF data' # data /\ Height[blk[t]] > high THEN Height[blk[t]] ELSE high
    /\ NoFlush
    /\ UNCHANGED <<best, hollow, phase, downs, aborts>>

\* Taken to miss the entries without content: submitblock could fill one, as a block
\* without a parent.
Arrives(t) ==
    /\ phase = "run"
    /\ \E b \in Blocks \ hollow : ReceiveBlock(t, b)
    /\ NoFlush
    /\ UNCHANGED <<best, hollow, high, phase, downs, aborts>>

\* The operator does not name an entry without content.
Marks(t) ==
    /\ \/ TryLock(t) \/ FindNone(t) \/ FindPick(t) \/ InvalidateFinish(t)
       \/ /\ phase = "run"
          /\ \E b \in Invalidatable \ hollow : Invalidate(t, b) \/ Reconsider(t, b)
       \/ LoopTest(t) /\ most[t] # tip
    /\ NoFlush
    /\ UNCHANGED <<best, hollow, high, phase, downs, aborts>>

\* BLOCK_FAILED_CHILD is set without a look at setDirtyBlockIndex.
DFindDrop(t) ==
    /\ FindDrop(t)
    /\ UNCHANGED <<best, dirty, hollow, high, diskVars, phase, downs, aborts>>

\* ConnectBlock fails before or after it wrote the entry.
DConnectFails(t) ==
    /\ best = tip
    /\ StepConnectFails(t)
    /\ \/ NoFlush
       \/ \E b \in failedValid' \ failedValid : DirectWrite(b)
    /\ UNCHANGED <<best, hollow, high, phase, downs, aborts>>

---------------------------------------------------------------------------
(* The steps that flush. *)

\* The end of ActivateBestChain: a periodic flush that may not be due.
DLoopEnds(t) ==
    /\ LoopTest(t) /\ most[t] = tip
    /\ UNCHANGED <<best, hollow, high, phase, downs>>
    /\ \/ (NoFlush \/ Flush(best)) /\ UNCHANGED aborts
       \/ FlushFails(disk, best)

\* ConnectTip flushes only if the cache has grown too large.
DConnect(t) ==
    /\ best = tip
    /\ StepConnect(t)
    /\ best' = tip'
    /\ UNCHANGED <<hollow, high, phase, downs, aborts>>
    /\ DirectWrite(tip') \/ Flush(tip')

\* The flush in ConnectTip fails: the coins have moved and the chain has not.
DConnectAborts(t) ==
    /\ best = tip
    /\ Holds(t, "step")
    /\ tip \in Chain[most[t]]
    /\ Return(t)
    /\ UNCHANGED <<known, data, linked, failedValid, failedChild, seq, nextSeq, unlinked,
                   candidates, tip, lockVars, hollow, high, phase, downs>>
    /\ \E b \in Blocks :
          /\ IsNext(t, b)
          /\ Connects(t, b)
          /\ coins' = (coins \ Spends[b]) \cup Creates[b]
          /\ stakeSpent' = StakeSpentWith(b)
          /\ scripts' = scripts \cup {b}
          /\ best' = b
          /\ FlushFails(DiskWith(b), b)

\* DisconnectTip flushes always.
DDisconnect(t) ==
    /\ best = tip
    /\ StepDisconnect(t) \/ InvalidateDisconnect(t)
    /\ best' = tip'
    /\ UNCHANGED <<hollow, high, phase, downs, aborts>>
    /\ Flush(tip')

\* That flush fails.
DDisconnectAborts(t) ==
    /\ best = tip
    /\ \/ /\ Holds(t, "step") /\ tip \notin Chain[most[t]]
          /\ UNCHANGED <<failedChild, candidates>>
       \/ /\ Holds(t, "invalidate") /\ blk[t] \in Chain[tip]
          /\ failedChild' = failedChild \cup {tip}
          /\ candidates' = candidates \ {tip}
    /\ best' = Parent[tip]
    /\ coins' = (coins \ Creates[tip]) \cup Spends[tip]
    /\ stakeSpent' = [o \in Outpoints |-> IF o \in Spends[tip] THEN Absent ELSE stakeSpent[o]]
    /\ Return(t)
    /\ UNCHANGED <<known, data, linked, scripts, failedValid, seq, nextSeq, unlinked, tip,
                   lockVars, hollow, high, phase, downs>>
    /\ FlushFails(disk, best')

---------------------------------------------------------------------------
(* The process ends. *)

\* What memory is while there is none.
Nothing ==
    /\ known' = {} /\ data' = {} /\ linked' = {} /\ scripts' = {}
    /\ failedValid' = {} /\ failedChild' = {}
    /\ seq' = [b \in Blocks |-> 0] /\ nextSeq' = 1
    /\ unlinked' = {} /\ candidates' = {}
    /\ tip' = Genesis /\ best' = Genesis /\ coins' = {}
    /\ stakeSpent' = [o \in Outpoints |-> Absent]
    /\ refused' = {} /\ rejected' = {} /\ csMain' = NULL
    /\ pc' = [t \in Threads |-> "idle"]
    /\ blk' = [t \in Threads |-> NULL] /\ most' = [t \in Threads |-> NULL]
    /\ oldTip' = [t \in Threads |-> NULL] /\ left' = [t \in Threads |-> 0]
    /\ hollow' = {} /\ high' = 0

End(how) ==
    /\ downs < MaxDowns
    /\ downs' = downs + 1
    /\ phase' = how
    /\ Nothing /\ dirty' = {}

Crash ==
    /\ Up
    /\ End("crashed")
    /\ UNCHANGED <<diskVars, aborts>>

\* ConnectBlock and DisconnectBlock assert that the coins are at the block they work on.
AssertFails(t) ==
    /\ best # tip
    /\ \/ Holds(t, "step")
       \/ Holds(t, "invalidate") /\ blk[t] \in Chain[tip]
    /\ End("assert")
    /\ UNCHANGED <<diskVars, aborts>>

\* A flush whose result is ignored, and which succeeds, outside of a step.
Written(h) ==
    /\ disk' = [b \in Blocks |-> IF b \in dirty THEN Flags(b) ELSE disk[b]]
    /\ dBest' = best /\ dHigh' = h

\* The same flush, when it stops on its way.
WrittenInPart ==
    \E W \in Prefixes(dirty) :
        /\ disk' = [b \in Blocks |-> IF b \in W THEN Flags(b) ELSE disk[b]]
        /\ dBest' = dBest
        /\ dHigh' \in IF W = {} THEN {dHigh, high} ELSE {high}

\* PrepareShutdown: the flag is written whether the flush succeeds or not.
Shutdown ==
    /\ phase = "run"
    /\ Quiet
    /\ \/ Written(high) /\ UNCHANGED aborts
       \/ WrittenInPart /\ aborts < MaxAborts /\ aborts' = aborts + 1
    /\ clean' = TRUE
    /\ End("stopped")

---------------------------------------------------------------------------
(* LoadBlockIndexDB and what AppInit2 does after it. *)

Stored == {b \in Blocks : disk[b] # None}

With(flag) == {b \in Stored : flag \in disk[b]}

\* LoadBlockIndexGuts: an entry names its parent, which gets an entry too.
Orphaned == {Parent[b] : b \in Stored \ {Genesis}} \ Stored

Loaded == Stored \cup Orphaned

\* Mistake: nChainTx is set without a look at the parent's.
StoredOnDisk == With("data")

\* The blocks that get an nChainTx, parents before children.
LinkedOnDisk == {b \in Loaded : Chain[b] \subseteq With("data")}

FailedOnDisk == With("valid") \cup With("child")

\* Mistake: BLOCK_VALID_SCRIPTS is asked for, not BLOCK_VALID_TRANSACTIONS.
ConnectedOnDisk == (LinkedOnDisk \cap (With("scripts") \cup {Genesis})) \ FailedOnDisk

\* The entries that become candidates for the tip.
UsableOnDisk == LinkedOnDisk \ FailedOnDisk

\* vSortedByHeight; an entry without content has height 0.
HeightIn(H, b) == IF b \in H THEN 0 ELSE Height[b]

Before(H, a, b) ==
    \/ HeightIn(H, a) < HeightIn(H, b)
    \/ HeightIn(H, a) = HeightIn(H, b) /\ Addr[a] < Addr[b]

Position(S, H, b) == Cardinality({a \in S : Before(H, a, b)})

Highest(S, H) == CHOOSE b \in S : Position(S, H, b) = Cardinality(S) - 1

\* pindexLastMeta: the first entry past the recorded height that is above the coins.
LastMeta ==
    LET past == {b \in Loaded : /\ Position(Loaded, Orphaned, b) > dHigh
                                /\ HeightIn(Orphaned, b) > Height[dBest]}
    IN  IF past = {} THEN Highest(Loaded, Orphaned)
        ELSE CHOOSE b \in past : \A a \in past : ~Before(Orphaned, a, b)

\* "Check for inconsistency with block file info and internal state".
Inconsistent == ~clean /\ Cardinality(Loaded) # dHigh + 1 /\ dHigh # 0

\* The index in memory, and pcoinsTip.
Load ==
    /\ known' = Loaded /\ hollow' = Orphaned
    /\ data' = With("data") /\ scripts' = With("scripts")
    /\ failedValid' = With("valid") /\ failedChild' = With("child")
    /\ linked' = LinkedOnDisk
    /\ unlinked' = With("data") \ LinkedOnDisk
    /\ best' = dBest /\ coins' = UnspentAt(dBest)
    /\ high' = dHigh
    /\ UNCHANGED <<seq, nextSeq, dirty, refused, rejected, csMain, most, oldTip, left>>

\* mapStakeSpent after VerifyDB has connected the last n blocks of the chain of b again.
StakeSpentVerified(b, n) ==
    [o \in Outpoints |->
        IF \E a \in Chain[b] : /\ o \in Spends[a]
                               /\ Height[a] > Height[b] - n
                               /\ Height[a] >= Height[b] - MaxReorg
        THEN Height[CHOOSE a \in Chain[b] : o \in Spends[a]]
        ELSE Absent]

\* The tip is set and the candidates C are pruned, which asserts that some are left; then
\* VerifyDB runs and ActivateBestChain is called.
Started(t, B, C) ==
    /\ {c \in C : ~Worse(seq, c, B)} # {}
    /\ tip' = B
    /\ candidates' = {c \in C : ~Worse(seq, c, B)}
    /\ \E n \in VerifyDepths : stakeSpent' = StakeSpentVerified(B, n)
    /\ phase' = "run"
    /\ clean' = FALSE
    /\ pc' = [pc EXCEPT ![t] = "activate"]
    /\ blk' = [blk EXCEPT ![t] = NULL]

Restart(t) ==
    /\ ~Up
    /\ Load
    /\ Started(t, dBest, UsableOnDisk)
    /\ UNCHANGED <<disk, dBest, dHigh, downs, aborts>>

\* Without -forcestart, after an unclean end: the "last block that was properly recorded"
\* is processed again, with the chain set to its parent.  With fewer entries than the
\* recorded height the code reads past the end of its list, and only a start with
\* -forcestart, which is Restart, is left.  The file information is taken to be read.
RestartRepairs(t) ==
    /\ ~Up
    /\ Inconsistent
    /\ Cardinality(Loaded) > dHigh + 1
    /\ LastMeta \in With("data") \ {Genesis}
    /\ Load
    /\ tip' = Parent[LastMeta]
    /\ candidates' = UsableOnDisk
    /\ phase' = "recover"
    /\ pc' = [pc EXCEPT ![t] = "accept"]
    /\ blk' = [blk EXCEPT ![t] = LastMeta]
    /\ UNCHANGED <<stakeSpent, diskVars, downs, aborts>>

\* ProcessNewBlock has returned, and the coins must be at the highest entry.  The writes
\* that follow are taken to succeed.
Repaired(t) ==
    /\ phase = "recover"
    /\ Quiet
    /\ best = Highest(known, hollow)
    /\ Started(t, best, candidates)
    /\ high' = Height[best]
    /\ Written(Height[best]) /\ dirty' = {}
    /\ UNCHANGED <<indexVars, coins, lockVars, csMain, most, oldTip, left, best, hollow,
                   downs, aborts>>

NotRepaired(t) ==
    /\ phase = "recover"
    /\ Quiet
    /\ best # Highest(known, hollow)
    /\ Written(HeightIn(hollow, Highest(known, hollow)))
    /\ End("abort")
    /\ UNCHANGED <<clean, aborts>>

---------------------------------------------------------------------------

DStep(t) ==
    /\ Up
    /\ \/ DAccept(t) \/ Arrives(t) \/ Marks(t) \/ DFindDrop(t)
       \/ DConnectFails(t) \/ DLoopEnds(t)
       \/ DConnect(t) \/ DConnectAborts(t)
       \/ DDisconnect(t) \/ DDisconnectAborts(t)
       \/ AssertFails(t)

DNext ==
    \/ \E t \in Threads : DStep(t)
    \/ Crash
    \/ Shutdown
    \/ \E t \in Threads : Restart(t) \/ RestartRepairs(t) \/ Repaired(t) \/ NotRepaired(t)

DSpec == DInit /\ [][DNext]_dvars

---------------------------------------------------------------------------
(* What is checked. *)

\* Wherever the process ends, every block of the chain the coin database is at has its
\* entry on disk, with its data and, but for the root, the undo data of its connection:
\* the node can load that chain and go back on it (FlushStateToDisk writes "block index
\* entries" before the chainstate that "may refer to" them).
CoinsIndexed ==
    \A a \in Chain[dBest] : /\ disk[a] # None /\ "data" \in disk[a]
                            /\ a # Genesis => "scripts" \in disk[a]

\* An entry that is not dirty is on disk as it is in memory, the mark FindMostWorkChain
\* may have set apart.
CleanEntries ==
    Up => \A b \in known \ (dirty \cup hollow) : disk[b] \ {"child"} = Flags(b) \ {"child"}

\* However the last run ended, the rebuilt index tells linked blocks from waiting ones, and
\* the active chain is linked and was connected.
Rebuilt ==
    Up => /\ linked = {b \in known : Chain[b] \subseteq data}
          /\ unlinked = data \ linked
          /\ candidates \subseteq linked
          /\ phase = "run" => tip \in linked /\ Chain[tip] \ {Genesis} \subseteq scripts

\* After every restart, and after every call that was not cut short by a failing flush, no
\* usable block is better than the tip.
BestAfterRestart ==
    phase = "run" /\ best = tip => MostWorkActive

\* mapStakeSpent, rebuilt by VerifyDB only, never tells of a spend that is not on the chain
\* of the coins.
StakeSpentKept ==
    \A o \in Outpoints :
        Up /\ stakeSpent[o] # Absent =>
            \E b \in Chain[best] : o \in Spends[b] /\ Height[b] = stakeSpent[o]

=============================================================================
