-------------------------- MODULE ChainDisk_proofs --------------------------
(***************************************************************************)
(* The coin database never refers to a block whose entry is not on disk,   *)
(* and an entry that is not dirty is on disk as it is in memory, wherever  *)
(* a flush or the process stops, for every block tree, number of threads   *)
(* and number of ends.                                                     *)
(*                                                                         *)
(* DInv has a part about memory alone (Mem), which a step of ChainState    *)
(* keeps whether or not it flushes, and a part about memory and disk       *)
(* (OnDisk), which is kept by each way of writing.                         *)
(***************************************************************************)
EXTENDS ChainDisk, ChainState_proofs

Statuses == {"data", "scripts", "valid", "child"}

\* The chain of b is stored and was connected.
Whole(b) ==
    /\ b \in Blocks
    /\ Chain[b] \subseteq data
    /\ Chain[b] \ {Genesis} \subseteq scripts

MemTypes ==
    /\ known \subseteq Blocks /\ hollow \subseteq Blocks
    /\ tip \in Blocks
    /\ pc \in [Threads -> PCs]
    /\ blk \in [Threads -> Blocks \cup {NULL}]
    /\ most \in [Threads -> Blocks \cup {NULL}]

Index ==
    /\ data \subseteq known
    /\ data \cap hollow = {}
    /\ unlinked \subseteq data
    /\ linked \subseteq Blocks
    /\ \A b \in linked : Chain[b] \subseteq data
    /\ candidates \subseteq linked

Calls ==
    \A t \in Threads :
        /\ pc[t] = "accept" => blk[t] \in Blocks \ ({Genesis} \cup hollow)
        /\ pc[t] = "invalidate" => blk[t] \in Blocks \ {Genesis}
        /\ pc[t] = "step" => most[t] \in linked

Mem == MemTypes /\ Index /\ Calls

OnDisk ==
    /\ dirty \subseteq Blocks
    /\ disk \in [Blocks -> {None} \cup SUBSET Statuses]
    /\ dBest \in Blocks
    /\ Up => Whole(best) /\ Whole(dBest)
    /\ CleanEntries
    /\ CoinsIndexed

DInv == Mem /\ OnDisk

\* No call outlives the process.
Ended == ~Up => \A t \in Threads : pc[t] = "idle"

\* What a step of the node adds to, and never takes from, while the process lives.
Grows ==
    /\ data \subseteq data'
    /\ scripts \subseteq scripts'
    /\ linked \subseteq linked'

\* A flush that succeeds, and one that fails.
AllWritten ==
    /\ disk' = [b \in Blocks |-> IF b \in DirtyNow THEN Flags(b)' ELSE disk[b]]
    /\ dirty' = {}
    /\ dBest' = best'

\* What a failing flush may start from.
Disks == {disk} \cup {DiskWith(a) : a \in Blocks}

SomeWritten ==
    \E W \in SUBSET DirtyNow, E \in Disks :
        /\ disk' = [b \in Blocks |-> IF b \in W THEN Flags(b)' ELSE E[b]]
        /\ dirty' = DirtyNow \ W
        /\ dBest' = dBest

---------------------------------------------------------------------------
(* The writes. *)

\* Flags are statuses.
LEMMA FlagsType ==
    ASSUME NEW b
    PROVE  Flags(b) \in SUBSET Statuses
    BY DEF Flags, Statuses

\* What is whole stays whole.
LEMMA WholeGrows ==
    ASSUME NEW b, Whole(b), Grows
    PROVE  Whole(b)'
    BY DEF Whole, Grows

\* Their entries are those on disk or what the index has.
LEMMA DisksEntries ==
    ASSUME disk \in [Blocks -> {None} \cup SUBSET Statuses], NEW E \in Disks, NEW b \in Blocks
    PROVE  E[b] \in {disk[b], Flags(b)}
<1>1. CASE E = disk
    BY <1>1
<1>2. CASE \E a \in Blocks : E = DiskWith(a)
    <2>1. PICK a \in Blocks : E = DiskWith(a)
        BY <1>2
    <2>2. E[b] = IF b = a THEN Flags(a) ELSE disk[b]
        BY <2>1 DEF DiskWith
    <2> QED
        BY <2>2
<1> QED
    BY <1>1, <1>2 DEF Disks

\* Nothing is written.
LEMMA NoFlushKeeps ==
    ASSUME Mem', OnDisk, Up, Grows, Whole(best)', UNCHANGED hollow, NoFlush
    PROVE  OnDisk'
<1>1. dirty' \subseteq Blocks
    BY DEF NoFlush, DirtyNow, OnDisk, Mem, MemTypes
<1>2. UNCHANGED <<disk, dBest>>
    BY DEF NoFlush, diskVars
<1>3. Whole(dBest)'
    BY <1>2, WholeGrows DEF OnDisk, Whole, Grows
<1>4. CleanEntries'
    <2> SUFFICES ASSUME NEW b \in known' \ (dirty' \cup hollow')
                 PROVE  disk'[b] \ {"child"} = Flags(b)' \ {"child"}
        BY DEF CleanEntries
    <2>1. b \in known \ (dirty \cup hollow) /\ Flags(b)' = Flags(b)
        BY DEF NoFlush, DirtyNow
    <2> QED
        BY <1>2, <2>1 DEF OnDisk, CleanEntries
<1>5. CoinsIndexed'
    BY <1>2 DEF OnDisk, CoinsIndexed
<1> QED
    BY <1>1, <1>2, <1>3, <1>4, <1>5 DEF OnDisk

\* An entry of a whole chain that is on disk as it is in memory has its data and scripts.
LEMMA WholeWritten ==
    ASSUME Whole(best)', Mem',
           \A b \in known' \ hollow' : disk'[b] \ {"child"} = Flags(b)' \ {"child"},
           dBest' = best'
    PROVE  CoinsIndexed'
<1> SUFFICES ASSUME NEW a \in Chain[dBest']
             PROVE  /\ disk'[a] # None /\ "data" \in disk'[a]
                    /\ a # Genesis => "scripts" \in disk'[a]
    BY DEF CoinsIndexed
<1>1. a \in data' /\ (a # Genesis => a \in scripts')
    BY DEF Whole
<1>2. a \in known' \ hollow'
    BY <1>1 DEF Mem, Index
<1>3. "data" \in Flags(a)' /\ (a # Genesis => "scripts" \in Flags(a)')
    BY <1>1 DEF Flags
<1>4. "data" \in disk'[a] /\ (a # Genesis => "scripts" \in disk'[a])
    BY <1>2, <1>3
<1> QED
    BY <1>4 DEF None

\* Everything dirty is written, and the coins.
LEMMA FlushKeeps ==
    ASSUME Mem', OnDisk, Up, Grows, Whole(best)', UNCHANGED hollow, AllWritten
    PROVE  OnDisk'
<1>1. dirty' = {} /\ dBest' = best'
    BY DEF AllWritten
<1>2. disk' = [b \in Blocks |-> IF b \in DirtyNow THEN Flags(b)' ELSE disk[b]]
    BY DEF AllWritten
<1>3. \A b : Flags(b)' \in SUBSET Statuses
    BY DEF Flags, Statuses
<1>4. disk' \in [Blocks -> {None} \cup SUBSET Statuses]
    BY <1>2, <1>3 DEF OnDisk
<1>5. \A b \in known' \ hollow' : disk'[b] \ {"child"} = Flags(b)' \ {"child"}
    <2> SUFFICES ASSUME NEW b \in known' \ hollow'
                 PROVE  disk'[b] \ {"child"} = Flags(b)' \ {"child"}
        OBVIOUS
    <2>1. b \in Blocks
        BY DEF Mem, MemTypes
    <2>2. CASE b \in DirtyNow
        BY <1>2, <2>1, <2>2
    <2>3. CASE b \notin DirtyNow
        <3>1. b \in known \ (dirty \cup hollow) /\ Flags(b)' = Flags(b)
            BY <2>3 DEF DirtyNow
        <3>2. disk'[b] = disk[b]
            BY <1>2, <2>1, <2>3
        <3> QED
            BY <3>1, <3>2 DEF OnDisk, CleanEntries
    <2> QED
        BY <2>2, <2>3
<1>6. CoinsIndexed'
    BY <1>1, <1>5, WholeWritten
<1>7. CleanEntries'
    BY <1>5 DEF CleanEntries
<1>8. Whole(dBest)' /\ dBest' \in Blocks
    BY <1>1 DEF Whole
<1> QED
    BY <1>1, <1>4, <1>6, <1>7, <1>8 DEF OnDisk

\* Some of the dirty entries are written, and not the coins.
LEMMA FlushFailsKeeps ==
    ASSUME Mem', OnDisk, Up, Grows, Whole(best)', UNCHANGED hollow, SomeWritten
    PROVE  OnDisk'
<1>1. PICK W \in SUBSET DirtyNow, E \in Disks :
          /\ disk' = [b \in Blocks |-> IF b \in W THEN Flags(b)' ELSE E[b]]
          /\ dirty' = DirtyNow \ W
          /\ dBest' = dBest
    BY DEF SomeWritten
<1>0. \A b \in Blocks : E[b] \in {disk[b], Flags(b)}
    <2> disk \in [Blocks -> {None} \cup SUBSET Statuses]
        BY DEF OnDisk
    <2> QED
        BY DisksEntries
<1>2. dirty' \subseteq Blocks
    BY <1>1 DEF DirtyNow, OnDisk, Mem, MemTypes
<1>3. \A b : Flags(b)' \in SUBSET Statuses
    BY DEF Flags, Statuses
<1>4. disk' \in [Blocks -> {None} \cup SUBSET Statuses]
    BY <1>0, <1>1, <1>3, FlagsType DEF OnDisk
<1>5. Whole(dBest)'
    BY <1>1, WholeGrows DEF OnDisk, Whole, Grows
<1>6. CleanEntries'
    <2> SUFFICES ASSUME NEW b \in known' \ (dirty' \cup hollow')
                 PROVE  disk'[b] \ {"child"} = Flags(b)' \ {"child"}
        BY DEF CleanEntries
    <2>1. b \in Blocks
        BY DEF Mem, MemTypes
    <2>2. CASE b \in W
        BY <1>1, <2>1, <2>2
    <2>3. CASE b \notin W
        <3>1. b \in known \ (dirty \cup hollow) /\ Flags(b)' = Flags(b)
            BY <1>1, <2>3 DEF DirtyNow
        <3>2. disk'[b] = disk[b] \/ disk'[b] = Flags(b)'
            BY <1>0, <1>1, <2>1, <2>3, <3>1
        <3> QED
            BY <3>1, <3>2 DEF OnDisk, CleanEntries
    <2> QED
        BY <2>2, <2>3
<1>7. CoinsIndexed'
    <2> SUFFICES ASSUME NEW a \in Chain[dBest]
                 PROVE  /\ disk'[a] # None /\ "data" \in disk'[a]
                        /\ a # Genesis => "scripts" \in disk'[a]
        BY <1>1 DEF CoinsIndexed
    <2>1. a \in Blocks
        BY TreeAssumption DEF OnDisk
    <2>2. a \in data' /\ (a # Genesis => a \in scripts')
        BY <1>1, <1>5 DEF Whole
    <2>3. CASE a \in W
        <3>1. disk'[a] = Flags(a)'
            BY <1>1, <2>1, <2>3
        <3> QED
            BY <2>2, <3>1 DEF Flags, None
    <2>4. CASE a \notin W
        <3>1. disk'[a] = disk[a] \/ disk'[a] = Flags(a)
            BY <1>0, <1>1, <2>1, <2>4
        <3>2. a \in data /\ (a # Genesis => a \in scripts)
            BY DEF OnDisk, Whole
        <3>3. CASE disk'[a] = Flags(a)
            BY <3>2, <3>3 DEF Flags, None
        <3> QED
            BY <3>1, <3>3 DEF OnDisk, CoinsIndexed
    <2> QED
        BY <2>3, <2>4
<1> QED
    BY <1>1, <1>2, <1>4, <1>5, <1>6, <1>7 DEF OnDisk

\* The entry of one block is written.
LEMMA DirectWriteKeeps ==
    ASSUME Mem', OnDisk, Up, Grows, NEW b \in Blocks, Whole(best)', UNCHANGED hollow,
           DirectWrite(b)
    PROVE  OnDisk'
<1>1. dirty' \subseteq Blocks
    BY DEF DirectWrite, DirtyNow, OnDisk, Mem, MemTypes
<1>2. disk' = [disk EXCEPT ![b] = Flags(b)] /\ dBest' = dBest
    BY DEF DirectWrite, DiskWith
<1>3. Flags(b) \in SUBSET Statuses
    BY FlagsType
<1>4. disk' \in [Blocks -> {None} \cup SUBSET Statuses]
    BY <1>2, <1>3 DEF OnDisk
<1>5. Whole(dBest)'
    BY <1>2, WholeGrows DEF OnDisk, Whole, Grows
<1>6. CleanEntries'
    <2> SUFFICES ASSUME NEW x \in known' \ (dirty' \cup hollow')
                 PROVE  disk'[x] \ {"child"} = Flags(x)' \ {"child"}
        BY DEF CleanEntries
    <2>1. x \in Blocks /\ dirty' = DirtyNow
        BY DEF Mem, MemTypes, DirectWrite
    <2>2. CASE x = b
        <3>1. Flags(b)' = Flags(b)
            BY <2>1, <2>2 DEF DirtyNow
        <3> QED
            BY <1>2, <2>2, <3>1 DEF OnDisk
    <2>3. CASE x # b
        <3>1. x \in known \ (dirty \cup hollow) /\ Flags(x)' = Flags(x)
            BY <2>1 DEF DirtyNow
        <3>2. disk'[x] = disk[x]
            BY <1>2, <2>1, <2>3 DEF OnDisk
        <3> QED
            BY <3>1, <3>2 DEF OnDisk, CleanEntries
    <2> QED
        BY <2>2, <2>3
<1>7. CoinsIndexed'
    <2> SUFFICES ASSUME NEW a \in Chain[dBest]
                 PROVE  /\ disk'[a] # None /\ "data" \in disk'[a]
                        /\ a # Genesis => "scripts" \in disk'[a]
        BY <1>2 DEF CoinsIndexed
    <2>1. a \in Blocks
        BY TreeAssumption DEF OnDisk
    <2>2. a \in data /\ (a # Genesis => a \in scripts)
        BY DEF OnDisk, Whole
    <2>3. CASE a = b
        <3>1. disk'[a] = Flags(a)
            BY <1>2, <2>1, <2>3 DEF OnDisk
        <3> QED
            BY <2>2, <3>1 DEF Flags, None
    <2>4. CASE a # b
        BY <1>2, <2>1, <2>4 DEF OnDisk, CoinsIndexed
    <2> QED
        BY <2>3, <2>4
<1> QED
    BY <1>1, <1>2, <1>4, <1>5, <1>6, <1>7 DEF OnDisk

---------------------------------------------------------------------------
(* The steps, in memory. *)

\* Threads other than t keep their place, and t is where its call needs nothing.
LEMMA CallsFrame ==
    ASSUME Calls, MemTypes, linked \subseteq linked', UNCHANGED hollow, NEW t \in Threads,
           \A u \in Threads \ {t} : pc'[u] = pc[u] /\ blk'[u] = blk[u] /\ most'[u] = most[u],
           pc'[t] = "accept" => blk'[t] \in Blocks \ ({Genesis} \cup hollow),
           pc'[t] = "invalidate" => blk'[t] \in Blocks \ {Genesis},
           pc'[t] = "step" => most'[t] \in linked'
    PROVE  Calls'
    BY DEF Calls

\* The call of t returns.
LEMMA ReturnMem ==
    ASSUME Mem, NEW t \in Threads, Return(t), linked \subseteq linked', UNCHANGED hollow
    PROVE  /\ Calls'
           /\ pc' \in [Threads -> PCs]
           /\ blk' \in [Threads -> Blocks \cup {NULL}]
           /\ most' \in [Threads -> Blocks \cup {NULL}]
<1>1. /\ pc' \in [Threads -> PCs]
      /\ blk' \in [Threads -> Blocks \cup {NULL}]
      /\ most' \in [Threads -> Blocks \cup {NULL}]
      /\ pc'[t] = "idle"
      /\ \A u \in Threads \ {t} : pc'[u] = pc[u] /\ blk'[u] = blk[u] /\ most'[u] = most[u]
    BY DEF Return, Mem, MemTypes, PCs
<1> QED
    BY <1>1, CallsFrame DEF Mem

\* AcceptBlock without the block.
LEMMA AcceptOtherMem ==
    ASSUME Mem, NEW t \in Threads, UNCHANGED hollow,
           \/ AcceptTurnedAway(t) \/ AcceptDuplicate(t) \/ AcceptInvalid(t)
           \/ AcceptStakeSpent(t) \/ AcceptBelowHollow(t)
    PROVE  Mem' /\ Grows /\ UNCHANGED <<data, scripts, tip>>
<1>1. pc[t] = "accept" /\ blk[t] \in Blocks
    BY DEF AcceptTurnedAway, AcceptDuplicate, AcceptInvalid, AcceptStakeSpent,
           AcceptBelowHollow, AtAccept, Mem, Calls
<1>2. /\ UNCHANGED <<data, scripts, linked, unlinked, candidates, tip>>
      /\ known \subseteq known' /\ known' \subseteq Blocks
    BY <1>1 DEF AcceptTurnedAway, AcceptDuplicate, AcceptInvalid, AcceptStakeSpent,
           AcceptBelowHollow, indexVars, chainVars, Mem, MemTypes
<1>3. Index' /\ Grows
    BY <1>2 DEF Mem, Index, Grows
<1>4. CASE Return(t)
    BY <1>2, <1>3, <1>4, ReturnMem DEF Mem, MemTypes
<1>5. CASE AcceptDuplicate(t)
    <2>1. /\ pc' = [pc EXCEPT ![t] = "activate"]
          /\ UNCHANGED <<blk, most>>
        BY <1>5 DEF AcceptDuplicate, Goto, localVars
    <2>2. pc' \in [Threads -> PCs]
        BY <2>1 DEF Mem, MemTypes, PCs
    <2>3. Calls'
        BY <1>2, <2>1, CallsFrame DEF Mem, MemTypes
    <2> QED
        BY <1>2, <1>3, <2>1, <2>2, <2>3 DEF Mem, MemTypes
<1> QED
    BY <1>4, <1>5
    DEF AcceptTurnedAway, AcceptInvalid, AcceptStakeSpent, AcceptBelowHollow

\* The block is stored, and it and the waiting blocks above it may be linked.
LEMMA AcceptStoreMem ==
    ASSUME Mem, NEW t \in Threads, UNCHANGED hollow, AcceptStore(t)
    PROVE  Mem' /\ Grows /\ UNCHANGED <<scripts, tip>>
<1> DEFINE b == blk[t]
<1>1. b \in Blocks \ ({Genesis} \cup hollow)
    BY DEF AcceptStore, AtAccept, Mem, Calls
<1>2. /\ known' = known \cup {b} /\ data' = data \cup {b}
      /\ UNCHANGED <<scripts, tip, blk, most>>
      /\ pc' = [pc EXCEPT ![t] = "activate"]
    BY DEF AcceptStore, Goto, chainVars, localVars
<1>3. /\ linked \subseteq linked' /\ linked' \subseteq Blocks
      /\ unlinked' \subseteq data'
      /\ \A x \in linked' : Chain[x] \subseteq data'
      /\ candidates' \subseteq linked'
    <2>1. CASE Parent[b] \in linked /\ Link(b)
        <3> DEFINE S == Cascade(b)
        <3>1. /\ linked' = linked \cup S
              /\ candidates' \subseteq candidates \cup S
              /\ unlinked' = unlinked \ S
            BY <2>1 DEF Link, NewCandidates
        <3>2. S \subseteq Blocks
            BY <1>1 DEF Cascade, Mem, MemTypes, Index
        <3>3. Chain[b] \subseteq data'
            BY <1>1, <1>2, <2>1, ParentChain DEF Mem, Index
        <3>4. \A x \in S : Chain[x] \subseteq data'
            BY <1>2, <3>3 DEF Cascade, Mem, Index
        <3> HIDE DEF S
        <3> QED
            BY <1>2, <3>1, <3>2, <3>4 DEF Mem, Index
    <2>2. CASE Wait(b)
        BY <1>2, <2>2 DEF Wait, Mem, Index
    <2> QED
        BY <2>1, <2>2 DEF AcceptStore
<1>4. MemTypes'
    BY <1>1, <1>2 DEF Mem, MemTypes, PCs
<1>5. Index'
    BY <1>1, <1>2, <1>3 DEF Mem, Index
<1>6. Calls'
    BY <1>2, <1>3, CallsFrame DEF Mem, MemTypes
<1>7. Grows
    BY <1>2, <1>3 DEF Grows
<1> QED
    BY <1>2, <1>4, <1>5, <1>6, <1>7 DEF Mem

\* A block with an entry of its own arrives.
LEMMA ReceiveMem ==
    ASSUME Mem, NEW t \in Threads, UNCHANGED hollow, NEW b \in Blocks \ hollow,
           ReceiveBlock(t, b)
    PROVE  Mem' /\ Grows /\ UNCHANGED <<data, scripts, tip>>
<1>1. /\ UNCHANGED <<known, data, scripts, linked, unlinked, candidates, tip, most>>
      /\ pc' = [pc EXCEPT ![t] = "accept"]
      /\ blk' = [blk EXCEPT ![t] = b]
      /\ b # Genesis
    BY DEF ReceiveBlock, Offered, Goto, indexVars, chainVars
<1>2. MemTypes' /\ Index' /\ Grows
    BY <1>1 DEF Mem, MemTypes, Index, Grows, PCs
<1>3. Calls'
    BY <1>1, CallsFrame DEF Mem, MemTypes
<1> QED
    BY <1>1, <1>2, <1>3 DEF Mem

\* ActivateBestChain, invalidateblock and reconsiderblock, where they move no block.
LEMMA MarksMem ==
    ASSUME Mem, NEW t \in Threads, UNCHANGED hollow,
           \/ TryLock(t) \/ FindNone(t) \/ FindPick(t) \/ InvalidateFinish(t) \/ LoopTest(t)
           \/ \E b \in Invalidatable : Invalidate(t, b) \/ Reconsider(t, b)
    PROVE  Mem' /\ Grows /\ UNCHANGED <<data, scripts, tip>>
<1>1. UNCHANGED <<known, data, scripts, linked, unlinked, tip>>
    BY DEF TryLock, FindNone, FindPick, InvalidateFinish, LoopTest, Invalidate, Reconsider,
           indexVars, chainVars
<1>2. candidates' \subseteq linked'
    <2>1. CASE \E b \in Invalidatable : Reconsider(t, b)
        BY <1>1, <2>1 DEF Reconsider, ReconsiderBlock, Mem, Index
    <2>2. CASE \E b \in Invalidatable : Invalidate(t, b)
        BY <1>1, <2>2 DEF Invalidate, Mem, Index
    <2>3. CASE InvalidateFinish(t)
        BY <1>1, <2>3 DEF InvalidateFinish, Restored, Mem, Index
    <2>4. CASE TryLock(t) \/ FindNone(t) \/ FindPick(t) \/ LoopTest(t)
        BY <1>1, <2>4 DEF TryLock, FindNone, FindPick, LoopTest, Mem, Index
    <2> QED
        BY <2>1, <2>2, <2>3, <2>4
<1>3. Index' /\ Grows
    BY <1>1, <1>2 DEF Mem, Index, Grows
<1>4. Calls' /\ MemTypes'
    <2>1. CASE FindNone(t)
        BY <1>1, <1>3, <2>1, ReturnMem DEF FindNone, Mem, MemTypes, Grows
    <2>2. CASE FindPick(t)
        <3>1. PICK c \in candidates : most' = [most EXCEPT ![t] = c]
            BY <2>2 DEF FindPick
        <3>2. c \in linked /\ c \in Blocks
            BY DEF Mem, Index
        <3>3. pc' = [pc EXCEPT ![t] = "step"] /\ UNCHANGED blk
            BY <2>2 DEF FindPick, Goto
        <3>4. MemTypes'
            BY <1>1, <3>1, <3>2, <3>3 DEF Mem, MemTypes, PCs
        <3> QED
            BY <1>1, <3>1, <3>2, <3>3, <3>4, CallsFrame DEF Mem, MemTypes
    <2>3. CASE LoopTest(t)
        <3>1. /\ pc' \in [Threads -> PCs]
              /\ blk' \in [Threads -> Blocks \cup {NULL}]
              /\ most' \in [Threads -> Blocks \cup {NULL}]
              /\ pc'[t] \in {"idle", "activate"}
              /\ \A u \in Threads \ {t} :
                    pc'[u] = pc[u] /\ blk'[u] = blk[u] /\ most'[u] = most[u]
            BY <2>3 DEF LoopTest, Mem, MemTypes, PCs
        <3> QED
            BY <1>1, <3>1, CallsFrame DEF Mem, MemTypes
    <2>4. CASE TryLock(t)
        <3>1. pc' = [pc EXCEPT ![t] = "find"] /\ UNCHANGED <<blk, most>>
            BY <2>4 DEF TryLock, Acquire, localVars
        <3>2. MemTypes'
            BY <1>1, <3>1 DEF Mem, MemTypes, PCs
        <3> QED
            BY <1>1, <3>1, <3>2, CallsFrame DEF Mem, MemTypes
    <2>5. CASE InvalidateFinish(t)
        <3>1. /\ pc' = [pc EXCEPT ![t] = "activate"]
              /\ blk' = [blk EXCEPT ![t] = NULL]
              /\ UNCHANGED most
            BY <2>5 DEF InvalidateFinish, Release
        <3>2. MemTypes'
            BY <1>1, <3>1 DEF Mem, MemTypes, PCs
        <3> QED
            BY <1>1, <3>1, <3>2, CallsFrame DEF Mem, MemTypes
    <2>6. CASE \E b \in Invalidatable : Invalidate(t, b)
        <3>1. PICK b \in Invalidatable : Invalidate(t, b)
            BY <2>6
        <3>2. /\ pc' = [pc EXCEPT ![t] = "invalidate"]
              /\ blk' = [blk EXCEPT ![t] = b]
              /\ UNCHANGED most
            BY <3>1 DEF Invalidate, Acquire
        <3>3. b \in Blocks \ {Genesis}
            BY ChainStateAssumption
        <3>4. MemTypes'
            BY <1>1, <3>2, <3>3 DEF Mem, MemTypes, PCs
        <3> QED
            BY <1>1, <3>2, <3>3, <3>4, CallsFrame DEF Mem, MemTypes
    <2>7. CASE \E b \in Invalidatable : Reconsider(t, b)
        <3>1. /\ pc' = [pc EXCEPT ![t] = "activate"]
              /\ UNCHANGED <<blk, most>>
            BY <2>7 DEF Reconsider, Goto, localVars
        <3>2. MemTypes'
            BY <1>1, <3>1 DEF Mem, MemTypes, PCs
        <3> QED
            BY <1>1, <3>1, <3>2, CallsFrame DEF Mem, MemTypes
    <2> QED
        BY <2>1, <2>2, <2>3, <2>4, <2>5, <2>6, <2>7
<1> QED
    BY <1>1, <1>3, <1>4 DEF Mem

\* FindMostWorkChain drops candidates, and a stored block may have to wait again.
LEMMA FindDropMem ==
    ASSUME Mem, NEW t \in Threads, UNCHANGED hollow, FindDrop(t)
    PROVE  Mem' /\ Grows /\ UNCHANGED <<known, data, scripts, failedValid, tip>>
<1>1. UNCHANGED <<known, data, scripts, failedValid, linked, tip, pc, blk, most>>
    BY DEF FindDrop, chainVars, localVars
<1>2. PICK c \in candidates : \E x \in Unusable(c) :
          LET above == Chain[c] \ Chain[x] IN
          /\ unlinked' = IF x \in Failed THEN unlinked ELSE unlinked \cup above
          /\ candidates' = candidates \ (above \cup {x})
    BY DEF FindDrop
<1>3. Chain[c] \subseteq data
    BY DEF Mem, Index
<1>4. unlinked' \subseteq data /\ candidates' \subseteq candidates
    BY <1>2, <1>3 DEF Mem, Index
<1>5. Index' /\ Grows
    BY <1>1, <1>4 DEF Mem, Index, Grows
<1>6. Calls' /\ MemTypes'
    BY <1>1 DEF Mem, MemTypes, Calls
<1> QED
    BY <1>1, <1>5, <1>6 DEF Mem

\* A block is found invalid.
LEMMA ConnectFailsMem ==
    ASSUME Mem, NEW t \in Threads, UNCHANGED hollow, StepConnectFails(t)
    PROVE  Mem' /\ Grows /\ UNCHANGED <<data, scripts, tip>>
<1>1. /\ UNCHANGED <<known, data, scripts, linked, unlinked, tip, blk, most>>
      /\ pc' = [pc EXCEPT ![t] = "test"]
      /\ candidates' \subseteq candidates
    BY DEF StepConnectFails, InvalidBlockFound, Release, chainVars, localVars
<1>2. Index' /\ Grows /\ MemTypes'
    BY <1>1 DEF Mem, MemTypes, Index, Grows, PCs
<1>3. Calls'
    BY <1>1, CallsFrame DEF Mem, MemTypes
<1> QED
    BY <1>1, <1>2, <1>3 DEF Mem

\* The block above the tip on the way to the best candidate is stored.
LEMMA NextStored ==
    ASSUME Mem, NEW t \in Threads, Holds(t, "step"), NEW b \in Blocks, IsNext(t, b), Whole(tip)
    PROVE  /\ b # Genesis
           /\ Chain[b] \subseteq data
           /\ Chain[b] \ {Genesis} \subseteq scripts \cup {b}
<1>1. most[t] \in linked
    BY DEF Holds, Mem, Calls
<1>2. b \in data /\ b \in Blocks \ {Genesis} /\ Parent[b] = tip
    BY <1>1 DEF IsNext, Mem, Index
<1> QED
    BY <1>2, ParentChain DEF Whole

\* A block is connected.
LEMMA ConnectMem ==
    ASSUME Mem, NEW t \in Threads, UNCHANGED hollow, StepConnect(t), Whole(tip)
    PROVE  Mem' /\ Grows /\ Whole(tip)'
<1>1. PICK b \in Blocks : /\ IsNext(t, b)
                          /\ tip' = b
                          /\ scripts' = scripts \cup {b}
                          /\ candidates' = NotWorseThan(b)
                          /\ IF b = most[t] \/ Work[b] > Work[oldTip[t]]
                             THEN Release(t, "test")
                             ELSE Goto(t, "step")
    BY DEF StepConnect
<1>2. UNCHANGED <<known, data, linked, unlinked, blk, most>>
    BY DEF StepConnect, localVars
<1>3. pc' = [pc EXCEPT ![t] = "test"] \/ pc' = pc
    <2>1. pc \in [Threads -> PCs] /\ pc[t] = "step"
        BY DEF StepConnect, Holds, Mem, MemTypes
    <2>2. pc' = [pc EXCEPT ![t] = "test"] \/ pc' = [pc EXCEPT ![t] = "step"]
        BY <1>1 DEF Release, Goto
    <2> QED
        BY <2>1, <2>2
<1>4. Index' /\ Grows /\ MemTypes'
    BY <1>1, <1>2, <1>3 DEF Mem, MemTypes, Index, Grows, PCs, NotWorseThan
<1>5. Calls'
    <2>1. CASE pc' = pc
        BY <1>2, <2>1 DEF Mem, Calls
    <2>2. CASE pc' = [pc EXCEPT ![t] = "test"]
        BY <1>2, <2>2, CallsFrame DEF Mem, MemTypes
    <2> QED
        BY <1>3, <2>1, <2>2
<1>6. Holds(t, "step")
    BY DEF StepConnect
<1>7. Whole(tip)'
    BY <1>1, <1>2, <1>6, NextStored DEF Whole
<1> QED
    BY <1>4, <1>5, <1>7 DEF Mem

\* The flush after connecting a block fails: only the coins have moved.
LEMMA ConnectAbortsMem ==
    ASSUME Mem, NEW t \in Threads, DConnectAborts(t), Whole(tip)
    PROVE  Mem' /\ Grows /\ Whole(best)' /\ UNCHANGED hollow
<1>1. PICK b \in Blocks : /\ IsNext(t, b)
                          /\ scripts' = scripts \cup {b}
                          /\ best' = b
    BY DEF DConnectAborts
<1>2. UNCHANGED <<known, data, linked, unlinked, candidates, tip, hollow>>
    BY DEF DConnectAborts
<1>3. Index' /\ Grows
    BY <1>1, <1>2 DEF Mem, Index, Grows
<1>4. Calls' /\ MemTypes'
    BY <1>2, ReturnMem DEF DConnectAborts, Mem, MemTypes
<1>5. Holds(t, "step")
    BY DEF DConnectAborts
<1>6. Whole(best)'
    BY <1>1, <1>2, <1>5, NextStored DEF Whole
<1> QED
    BY <1>2, <1>3, <1>4, <1>6 DEF Mem

\* A thread that disconnects the tip is above the root.
LEMMA AboveRoot ==
    ASSUME Mem, NEW t \in Threads,
           \/ Holds(t, "step") /\ tip \notin Chain[most[t]]
           \/ Holds(t, "invalidate") /\ blk[t] \in Chain[tip]
    PROVE  tip \in Blocks \ {Genesis}
<1>1. CASE Holds(t, "step") /\ tip \notin Chain[most[t]]
    BY <1>1, TreeAssumption DEF Holds, Mem, MemTypes, Index, Calls
<1>2. CASE Holds(t, "invalidate") /\ blk[t] \in Chain[tip]
    BY <1>2, TreeAssumption DEF Holds, Mem, MemTypes, Calls
<1> QED
    BY <1>1, <1>2

\* The tip is disconnected.
LEMMA DisconnectMem ==
    ASSUME Mem, NEW t \in Threads, UNCHANGED hollow, Whole(tip),
           StepDisconnect(t) \/ InvalidateDisconnect(t)
    PROVE  Mem' /\ Grows /\ Whole(tip)'
<1>1. tip \in Blocks \ {Genesis}
    BY AboveRoot DEF StepDisconnect, InvalidateDisconnect
<1>2. /\ UNCHANGED <<known, data, scripts, linked, unlinked, blk, most>>
      /\ candidates' \subseteq candidates
      /\ tip' = Parent[tip]
    BY DEF StepDisconnect, InvalidateDisconnect, DisconnectTip, indexVars, localVars
<1>3. pc' = [pc EXCEPT ![t] = "test"] \/ pc' = pc
    <2>1. CASE StepDisconnect(t)
        <3>1. pc \in [Threads -> PCs] /\ pc[t] = "step"
            BY <2>1 DEF StepDisconnect, Holds, Mem, MemTypes
        <3>2. pc' = [pc EXCEPT ![t] = "test"] \/ pc' = [pc EXCEPT ![t] = "step"]
            BY <2>1 DEF StepDisconnect, Release, Goto
        <3> QED
            BY <3>1, <3>2
    <2>2. CASE InvalidateDisconnect(t)
        BY <2>2 DEF InvalidateDisconnect
    <2> QED
        BY <2>1, <2>2
<1>4. tip' \in Blocks /\ Chain[tip'] \subseteq Chain[tip]
    BY <1>1, <1>2, ParentChain
<1>5. Index' /\ Grows /\ MemTypes'
    BY <1>2, <1>3, <1>4 DEF Mem, MemTypes, Index, Grows, PCs
<1>6. Calls'
    <2>1. CASE pc' = pc
        BY <1>2, <2>1 DEF Mem, Calls
    <2>2. CASE pc' = [pc EXCEPT ![t] = "test"]
        BY <1>2, <2>2, CallsFrame DEF Mem, MemTypes
    <2> QED
        BY <1>3, <2>1, <2>2
<1>7. Whole(tip)'
    BY <1>2, <1>4 DEF Whole
<1> QED
    BY <1>5, <1>6, <1>7 DEF Mem

\* The flush after disconnecting the tip fails.
LEMMA DisconnectAbortsMem ==
    ASSUME Mem, NEW t \in Threads, DDisconnectAborts(t), Whole(tip)
    PROVE  Mem' /\ Grows /\ Whole(best)' /\ UNCHANGED hollow
<1>1. tip \in Blocks \ {Genesis}
    BY AboveRoot DEF DDisconnectAborts
<1>2. /\ UNCHANGED <<known, data, scripts, linked, unlinked, tip, hollow>>
      /\ candidates' \subseteq candidates
      /\ best' = Parent[tip]
    BY DEF DDisconnectAborts
<1>3. Index' /\ Grows
    BY <1>2 DEF Mem, Index, Grows
<1>4. Calls' /\ MemTypes'
    BY <1>2, ReturnMem DEF DDisconnectAborts, Mem, MemTypes
<1>5. Whole(best)'
    BY <1>1, <1>2, ParentChain DEF Whole
<1> QED
    BY <1>2, <1>3, <1>4, <1>5 DEF Mem

---------------------------------------------------------------------------
(* The steps, in memory and on disk. *)

\* The chain of the tip is whole where the coins are at it.
LEMMA TipWhole ==
    ASSUME DInv, Up, best = tip
    PROVE  Whole(tip)
    BY DEF DInv, OnDisk

\* The coins stay where they are, and so does what is promised of their chain.
LEMMA SameBest ==
    ASSUME DInv, Up, UNCHANGED best, Grows
    PROVE  Whole(best)'
    BY DEF DInv, OnDisk, Whole, Grows

\* A step without a flush that leaves the coins where they are.
LEMMA QuietStep ==
    ASSUME DInv, Up, Mem', Grows, UNCHANGED <<best, hollow>>, NoFlush
    PROVE  DInv'
    BY SameBest, NoFlushKeeps DEF DInv

\* ProcessNewBlock up to AcceptBlock, and what follows where no block moves.
LEMMA QuietInv ==
    ASSUME DInv, Up, NEW t \in Threads, DAccept(t) \/ Arrives(t) \/ Marks(t)
    PROVE  DInv'
<1>1. CASE DAccept(t)
    BY <1>1, QuietStep, AcceptOtherMem, AcceptStoreMem DEF DAccept, Accept, DInv
<1>2. CASE Arrives(t)
    BY <1>2, QuietStep, ReceiveMem DEF Arrives, DInv
<1>3. CASE Marks(t)
    BY <1>3, QuietStep, MarksMem DEF Marks, DInv
<1> QED
    BY <1>1, <1>2, <1>3

\* The mark FindMostWorkChain sets is not noted, and not looked for on disk.
LEMMA DFindDropInv ==
    ASSUME DInv, Up, NEW t \in Threads, DFindDrop(t)
    PROVE  DInv'
<1>1. UNCHANGED <<best, dirty, hollow, disk, dBest>>
    BY DEF DFindDrop, diskVars
<1>2. Mem' /\ Grows /\ UNCHANGED <<known, data, scripts, failedValid>>
    BY <1>1, FindDropMem DEF DFindDrop, DInv
<1>3. \A b : Flags(b)' \ {"child"} = Flags(b) \ {"child"}
    BY <1>2 DEF Flags
<1>4. CleanEntries'
    BY <1>1, <1>2, <1>3 DEF DInv, OnDisk, CleanEntries
<1>5. CoinsIndexed'
    BY <1>1 DEF DInv, OnDisk, CoinsIndexed
<1>6. Whole(best)' /\ Whole(dBest)'
    BY <1>1, <1>2 DEF DInv, OnDisk, Whole
<1> QED
    BY <1>1, <1>2, <1>4, <1>5, <1>6 DEF DInv, OnDisk

\* ConnectBlock fails, with or without its own write.
LEMMA DConnectFailsInv ==
    ASSUME DInv, Up, NEW t \in Threads, DConnectFails(t)
    PROVE  DInv'
<1>1. UNCHANGED <<best, hollow>>
    BY DEF DConnectFails
<1>2. Mem' /\ Grows
    BY <1>1, ConnectFailsMem DEF DConnectFails, DInv
<1>3. Whole(best)'
    BY <1>1, <1>2, SameBest
<1>4. CASE NoFlush
    BY <1>1, <1>2, <1>4, QuietStep
<1>5. CASE \E b \in failedValid' \ failedValid : DirectWrite(b)
    <2>1. PICK b \in failedValid' \ failedValid : DirectWrite(b)
        BY <1>5
    <2>2. b \in Blocks
        BY <2>1 DEF DConnectFails, StepConnectFails, InvalidBlockFound
    <2> QED
        BY <1>1, <1>2, <1>3, <2>1, <2>2, DirectWriteKeeps DEF DInv
<1> QED
    BY <1>4, <1>5 DEF DConnectFails

\* The periodic flush, which may not be due and may fail.
LEMMA DLoopEndsInv ==
    ASSUME DInv, Up, NEW t \in Threads, DLoopEnds(t)
    PROVE  DInv'
<1>1. UNCHANGED <<best, hollow>>
    BY DEF DLoopEnds
<1>2. Mem' /\ Grows
    BY <1>1, MarksMem DEF DLoopEnds, DInv
<1>3. Whole(best)'
    BY <1>1, <1>2, SameBest
<1>4. NoFlush \/ AllWritten \/ SomeWritten
    BY <1>1 DEF DLoopEnds, Flush, FlushFails, WritesSome, AllWritten, SomeWritten, Prefixes,
       Disks
<1> QED
    BY <1>1, <1>2, <1>3, <1>4, NoFlushKeeps, FlushKeeps, FlushFailsKeeps DEF DInv

\* A block is connected, and ConnectBlock's write or a whole flush follows.
LEMMA DConnectInv ==
    ASSUME DInv, Up, NEW t \in Threads, DConnect(t)
    PROVE  DInv'
<1>1. UNCHANGED hollow /\ best' = tip'
    BY DEF DConnect
<1>2. Mem' /\ Grows /\ Whole(tip)'
    BY <1>1, TipWhole, ConnectMem DEF DConnect, DInv
<1>3. Whole(best)'
    BY <1>1, <1>2 DEF Whole
<1>4. AllWritten \/ \E b \in Blocks : DirectWrite(b)
    <2>1. CASE Flush(tip')
        BY <1>1, <2>1 DEF Flush, AllWritten
    <2>2. CASE DirectWrite(tip')
        <3>1. tip' \in Blocks
            BY <1>2 DEF Mem, MemTypes
        <3> QED
            BY <2>2, <3>1 DEF DirectWrite, DiskWith, Flags
    <2> QED
        BY <2>1, <2>2 DEF DConnect
<1> QED
    BY <1>1, <1>2, <1>3, <1>4, FlushKeeps, DirectWriteKeeps DEF DInv

\* The flush after connecting a block fails.
LEMMA DConnectAbortsInv ==
    ASSUME DInv, Up, NEW t \in Threads, DConnectAborts(t)
    PROVE  DInv'
<1>1. Mem' /\ Grows /\ Whole(best)' /\ UNCHANGED hollow
    BY TipWhole, ConnectAbortsMem DEF DConnectAborts, DInv
<1>2. SomeWritten
    BY DEF DConnectAborts, FlushFails, WritesSome, SomeWritten, Prefixes, Disks
<1> QED
    BY <1>1, <1>2, FlushFailsKeeps DEF DInv

\* The tip is disconnected and everything is written.
LEMMA DDisconnectInv ==
    ASSUME DInv, Up, NEW t \in Threads, DDisconnect(t)
    PROVE  DInv'
<1>1. UNCHANGED hollow /\ best' = tip'
    BY DEF DDisconnect
<1>2. Mem' /\ Grows /\ Whole(tip)'
    BY <1>1, TipWhole, DisconnectMem DEF DDisconnect, DInv
<1>3. Whole(best)'
    BY <1>1, <1>2 DEF Whole
<1>4. AllWritten
    BY <1>1 DEF DDisconnect, Flush, AllWritten
<1> QED
    BY <1>1, <1>2, <1>3, <1>4, FlushKeeps DEF DInv

\* The flush after disconnecting the tip fails.
LEMMA DDisconnectAbortsInv ==
    ASSUME DInv, Up, NEW t \in Threads, DDisconnectAborts(t)
    PROVE  DInv'
<1>1. Mem' /\ Grows /\ Whole(best)' /\ UNCHANGED hollow
    BY TipWhole, DisconnectAbortsMem DEF DDisconnectAborts, DInv
<1>2. SomeWritten
    BY DEF DDisconnectAborts, FlushFails, WritesSome, SomeWritten, Prefixes, Disks
<1> QED
    BY <1>1, <1>2, FlushFailsKeeps DEF DInv

---------------------------------------------------------------------------
(* The process ends and starts. *)

\* Memory is gone and the coins on disk are still indexed.
LEMMA EndInv ==
    ASSUME NEW how \in {"crashed", "assert", "stopped", "abort"}, End(how),
           disk' \in [Blocks -> {None} \cup SUBSET Statuses], dBest' \in Blocks,
           CoinsIndexed'
    PROVE  DInv'
<1>1. ~Up'
    BY DEF End, Up
<1>2. MemTypes'
    BY TreeAssumption DEF End, Nothing, MemTypes, PCs
<1>3. Index'
    BY DEF End, Nothing, Index
<1>4. Calls'
    BY DEF End, Nothing, Calls
<1>5. CleanEntries'
    BY <1>1 DEF CleanEntries
<1>6. dirty' = {}
    BY DEF End
<1> QED
    BY <1>1, <1>2, <1>3, <1>4, <1>5, <1>6 DEF DInv, Mem, OnDisk

\* An end that leaves the disk alone.
LEMMA AbruptEndInv ==
    ASSUME DInv, Crash \/ \E t \in Threads : AssertFails(t)
    PROVE  DInv'
<1>1. UNCHANGED <<disk, dBest>> /\ (End("crashed") \/ End("assert"))
    BY DEF Crash, AssertFails, diskVars
<1>2. CoinsIndexed'
    BY <1>1 DEF DInv, OnDisk, CoinsIndexed
<1> QED
    BY <1>1, <1>2, EndInv DEF DInv, OnDisk

\* A flush outside of a step writes what is dirty.
LEMMA WrittenKeeps ==
    ASSUME DInv, Up, NEW h, Written(h)
    PROVE  /\ disk' \in [Blocks -> {None} \cup SUBSET Statuses]
           /\ dBest' = best /\ dBest' \in Blocks
           /\ \A b \in known \ hollow : disk'[b] \ {"child"} = Flags(b) \ {"child"}
           /\ CoinsIndexed'
<1>1. disk' = [b \in Blocks |-> IF b \in dirty THEN Flags(b) ELSE disk[b]] /\ dBest' = best
    BY DEF Written
<1>2. disk' \in [Blocks -> {None} \cup SUBSET Statuses]
    BY <1>1, FlagsType DEF DInv, OnDisk
<1>3. ASSUME NEW b \in known \ hollow
      PROVE  disk'[b] \ {"child"} = Flags(b) \ {"child"}
    <2>1. b \in Blocks
        BY DEF DInv, Mem, MemTypes
    <2>2. CASE b \in dirty
        BY <1>1, <2>1, <2>2
    <2>3. CASE b \notin dirty
        BY <1>1, <2>1, <2>3 DEF DInv, OnDisk, CleanEntries
    <2> QED
        BY <2>2, <2>3
<1>4. Whole(best)
    BY DEF DInv, OnDisk
<1>5. CoinsIndexed'
    <2> SUFFICES ASSUME NEW a \in Chain[best]
                 PROVE  /\ disk'[a] # None /\ "data" \in disk'[a]
                        /\ a # Genesis => "scripts" \in disk'[a]
        BY <1>1 DEF CoinsIndexed
    <2>1. a \in data /\ (a # Genesis => a \in scripts)
        BY <1>4 DEF Whole
    <2>2. a \in known \ hollow
        BY <2>1 DEF DInv, Mem, Index
    <2>3. "data" \in Flags(a) /\ (a # Genesis => "scripts" \in Flags(a))
        BY <2>1 DEF Flags
    <2>4. "data" \in disk'[a] /\ (a # Genesis => "scripts" \in disk'[a])
        BY <1>3, <2>2, <2>3
    <2> QED
        BY <2>4 DEF None
<1> QED
    BY <1>1, <1>2, <1>3, <1>4, <1>5 DEF Whole

\* A shutdown, and a start that gives up.
LEMMA WrittenEndInv ==
    ASSUME DInv, Shutdown \/ \E t \in Threads : NotRepaired(t)
    PROVE  DInv'
<1>1. Up
    BY DEF Shutdown, NotRepaired, Up
<1>2. CASE \E h : Written(h)
    BY <1>1, <1>2, WrittenKeeps, EndInv DEF Shutdown, NotRepaired
<1>3. CASE WrittenInPart
    <2>1. dBest' = dBest /\ \A b \in Blocks : disk'[b] \in {disk[b], Flags(b)}
        BY <1>3 DEF WrittenInPart
    <2>2. disk' \in [Blocks -> {None} \cup SUBSET Statuses]
        BY <1>3, FlagsType DEF WrittenInPart, DInv, OnDisk
    <2>3. CoinsIndexed'
        <3> SUFFICES ASSUME NEW a \in Chain[dBest]
                     PROVE  /\ disk'[a] # None /\ "data" \in disk'[a]
                            /\ a # Genesis => "scripts" \in disk'[a]
            BY <2>1 DEF CoinsIndexed
        <3>1. a \in Blocks /\ a \in data /\ (a # Genesis => a \in scripts)
            BY <1>1, TreeAssumption DEF DInv, OnDisk, Whole
        <3>2. CASE disk'[a] = Flags(a)
            BY <3>1, <3>2 DEF Flags, None
        <3> QED
            BY <2>1, <3>1, <3>2 DEF DInv, OnDisk, CoinsIndexed
    <2> QED
        BY <2>1, <2>2, <2>3, EndInv DEF Shutdown, NotRepaired, DInv, OnDisk
<1> QED
    BY <1>2, <1>3 DEF Shutdown, NotRepaired

\* What LoadBlockIndexDB rebuilds.
LEMMA LoadKeeps ==
    ASSUME DInv, Load, tip' \in Blocks, pc' \in [Threads -> PCs],
           blk' \in [Threads -> Blocks \cup {NULL}], Calls',
           candidates' \subseteq UsableOnDisk, UNCHANGED <<disk, dBest>>
    PROVE  DInv'
<1>1. /\ known' = Loaded /\ hollow' = Orphaned
      /\ data' = With("data") /\ scripts' = With("scripts")
      /\ failedValid' = With("valid") /\ failedChild' = With("child")
      /\ linked' = LinkedOnDisk
      /\ unlinked' = With("data") \ LinkedOnDisk
      /\ best' = dBest
      /\ UNCHANGED <<dirty, most>>
    BY DEF Load
<1>2. Stored \subseteq Blocks /\ Orphaned \subseteq Blocks /\ Orphaned \cap Stored = {}
    BY TreeAssumption DEF Stored, Orphaned
<1>3. With("data") \subseteq Stored /\ With("scripts") \subseteq Stored
    BY DEF With
<1>4. MemTypes'
    BY <1>1, <1>2 DEF DInv, Mem, MemTypes, Loaded
<1>5. Index'
    BY <1>1, <1>2, <1>3 DEF Index, Loaded, LinkedOnDisk, UsableOnDisk
<1>6. Whole(best)' /\ Whole(dBest)'
    <2>1. \A a \in Chain[dBest] : a \in With("data") /\ (a # Genesis => a \in With("scripts"))
        BY TreeAssumption DEF DInv, OnDisk, CoinsIndexed, With, Stored
    <2> QED
        BY <1>1, <2>1 DEF Whole, DInv, OnDisk
<1>7. CleanEntries'
    <2> SUFFICES ASSUME NEW b \in known' \ hollow'
                 PROVE  disk'[b] \ {"child"} = Flags(b)' \ {"child"}
        BY DEF CleanEntries
    <2>1. b \in Stored /\ b \in Blocks
        BY <1>1, <1>2 DEF Loaded
    <2>2. disk[b] \in SUBSET Statuses
        BY <2>1 DEF Stored, DInv, OnDisk
    <2>3. Flags(b)' = (IF b \in With("data") THEN {"data"} ELSE {})
                        \cup (IF b \in With("scripts") THEN {"scripts"} ELSE {})
                        \cup (IF b \in With("valid") THEN {"valid"} ELSE {})
                        \cup (IF b \in With("child") THEN {"child"} ELSE {})
        BY <1>1 DEF Flags
    <2>4. \A s : b \in With(s) <=> s \in disk[b]
        BY <2>1 DEF With
    <2>5. disk[b] = Flags(b)'
        BY <2>2, <2>3, <2>4 DEF Statuses
    <2> QED
        BY <2>5
<1>8. CoinsIndexed'
    BY DEF DInv, OnDisk, CoinsIndexed
<1> QED
    BY <1>1, <1>4, <1>5, <1>6, <1>7, <1>8 DEF DInv, Mem, OnDisk

\* The process starts.
LEMMA StartInv ==
    ASSUME DInv, Ended, NEW t \in Threads, Restart(t)
    PROVE  DInv'
<1>1. /\ Load /\ UNCHANGED <<disk, dBest>>
      /\ tip' = dBest
      /\ candidates' \subseteq UsableOnDisk
      /\ pc' = [pc EXCEPT ![t] = "activate"]
      /\ blk' = [blk EXCEPT ![t] = NULL]
      /\ \A u \in Threads : pc[u] = "idle"
    BY DEF Restart, Started, Ended
<1>2. /\ tip' \in Blocks
      /\ pc' \in [Threads -> PCs]
      /\ blk' \in [Threads -> Blocks \cup {NULL}]
    BY <1>1 DEF DInv, OnDisk, Mem, MemTypes, PCs
<1>3. Calls'
    BY <1>1 DEF Calls, DInv, Mem, MemTypes
<1> QED
    BY <1>1, <1>2, <1>3, LoadKeeps

\* It starts with the last entry that was recorded.
LEMMA RepairInv ==
    ASSUME DInv, Ended, NEW t \in Threads, RestartRepairs(t)
    PROVE  DInv'
<1>1. /\ Load /\ UNCHANGED <<disk, dBest>>
      /\ tip' = Parent[LastMeta]
      /\ candidates' \subseteq UsableOnDisk
      /\ pc' = [pc EXCEPT ![t] = "accept"]
      /\ blk' = [blk EXCEPT ![t] = LastMeta]
      /\ \A u \in Threads : pc[u] = "idle"
      /\ LastMeta \in With("data") \ {Genesis}
    BY DEF RestartRepairs, Ended, diskVars
<1>2. LastMeta \in Blocks \ {Genesis} /\ LastMeta \notin Orphaned
    BY <1>1 DEF With, Stored, Orphaned
<1>3. /\ tip' \in Blocks
      /\ pc' \in [Threads -> PCs]
      /\ blk' \in [Threads -> Blocks \cup {NULL}]
    BY <1>1, <1>2, TreeAssumption DEF DInv, Mem, MemTypes, PCs
<1>4. hollow' = Orphaned
    BY <1>1 DEF Load
<1>5. Calls'
    <2> SUFFICES ASSUME NEW u \in Threads
                 PROVE  /\ pc'[u] = "accept" => blk'[u] \in Blocks \ ({Genesis} \cup hollow')
                        /\ pc'[u] = "invalidate" => blk'[u] \in Blocks \ {Genesis}
                        /\ pc'[u] = "step" => most'[u] \in linked'
        BY DEF Calls
    <2>1. CASE u = t
        BY <1>1, <1>2, <1>4, <2>1 DEF DInv, Mem, MemTypes
    <2>2. CASE u # t
        BY <1>1, <2>2 DEF DInv, Mem, MemTypes
    <2> QED
        BY <2>1, <2>2
<1> QED
    BY <1>1, <1>3, <1>5, LoadKeeps

\* The recovery has worked.
LEMMA RepairedInv ==
    ASSUME DInv, NEW t \in Threads, Repaired(t)
    PROVE  DInv'
<1>1. Up
    BY DEF Repaired, Up
<1>2. /\ Written(Height[best])
      /\ dirty' = {}
      /\ UNCHANGED <<known, data, scripts, linked, failedValid, failedChild, unlinked, most,
                     best, hollow>>
      /\ pc' = [pc EXCEPT ![t] = "activate"]
      /\ blk' = [blk EXCEPT ![t] = NULL]
      /\ tip' = best
      /\ candidates' \subseteq candidates
    BY DEF Repaired, Started, indexVars
<1>3. /\ disk' \in [Blocks -> {None} \cup SUBSET Statuses]
      /\ dBest' = best /\ dBest' \in Blocks
      /\ \A b \in known \ hollow : disk'[b] \ {"child"} = Flags(b) \ {"child"}
      /\ CoinsIndexed'
    BY <1>1, <1>2, WrittenKeeps
<1>4. \A b : Flags(b)' = Flags(b)
    BY <1>2 DEF Flags
<1>5. CleanEntries'
    BY <1>2, <1>3, <1>4 DEF CleanEntries
<1>6. Whole(best)' /\ Whole(dBest)' /\ tip' \in Blocks
    BY <1>1, <1>2, <1>3 DEF DInv, OnDisk, Whole
<1>7. MemTypes' /\ Index'
    BY <1>2, <1>6 DEF DInv, Mem, MemTypes, Index, PCs
<1>8. Calls'
    BY <1>2, CallsFrame DEF DInv, Mem, MemTypes
<1> QED
    BY <1>2, <1>3, <1>5, <1>6, <1>7, <1>8 DEF DInv, Mem, OnDisk

---------------------------------------------------------------------------
(* The invariant. *)

LEMMA DInitInv == DInit => DInv /\ Ended
<1> SUFFICES ASSUME DInit PROVE DInv /\ Ended
    OBVIOUS
<1>1. Mem
    BY TreeAssumption DEF DInit, Init, Mem, MemTypes, Index, Calls, PCs
<1>2. disk = [b \in Blocks |-> IF b = Genesis THEN {"data"} ELSE None]
    BY DEF DInit
<1>3. disk \in [Blocks -> {None} \cup SUBSET Statuses]
    BY <1>2 DEF Statuses
<1>4. Whole(best) /\ Whole(dBest)
    BY TreeAssumption DEF DInit, Init, Whole
<1>5. CleanEntries
    <2>1. known = {Genesis} /\ Flags(Genesis) = {"data"} /\ disk[Genesis] = {"data"}
        BY <1>2, TreeAssumption DEF DInit, Init, Flags
    <2> QED
        BY <2>1 DEF CleanEntries
<1>6. CoinsIndexed
    BY <1>2, TreeAssumption DEF DInit, CoinsIndexed, None
<1>7. Ended
    BY DEF DInit, Ended, Up
<1> QED
    BY <1>1, <1>3, <1>4, <1>5, <1>6, <1>7, TreeAssumption DEF DInv, OnDisk, DInit

LEMMA DStepInv ==
    ASSUME DInv, NEW t \in Threads, DStep(t)
    PROVE  DInv'
<1>1. Up
    BY DEF DStep
<1> QED
    BY <1>1, QuietInv, DFindDropInv, DConnectFailsInv, DLoopEndsInv, DConnectInv,
       DConnectAbortsInv, DDisconnectInv, DDisconnectAbortsInv, AbruptEndInv
    DEF DStep

\* A process that ends leaves no call behind, and one that lives stays or ends.
LEMMA EndedKept ==
    ASSUME Ended, DNext
    PROVE  Ended'
<1>1. ASSUME NEW how, End(how)
      PROVE  Ended'
    BY <1>1 DEF End, Nothing, Ended
<1>2. CASE \E t \in Threads : DStep(t)
    <2>1. PICK t \in Threads : DStep(t)
        BY <1>2
    <2>2. CASE AssertFails(t)
        BY <1>1, <2>2 DEF AssertFails
    <2>3. CASE ~AssertFails(t)
        <3>1. Up /\ UNCHANGED phase
            BY <2>1, <2>3 DEF DStep, DAccept, Arrives, Marks, DFindDrop, DConnectFails,
               DLoopEnds, DConnect, DConnectAborts, DDisconnect, DDisconnectAborts
        <3> QED
            BY <3>1 DEF Up, Ended
    <2> QED
        BY <2>2, <2>3
<1>3. CASE Crash \/ Shutdown \/ \E t \in Threads : NotRepaired(t)
    BY <1>1, <1>3 DEF Crash, Shutdown, NotRepaired
<1>4. CASE \E t \in Threads : Restart(t) \/ RestartRepairs(t) \/ Repaired(t)
    BY <1>4 DEF Restart, RestartRepairs, Repaired, Started, Ended, Up
<1> QED
    BY <1>2, <1>3, <1>4 DEF DNext

LEMMA DNextInv ==
    ASSUME DInv, Ended, [DNext]_dvars
    PROVE  DInv' /\ Ended'
<1>1. CASE DNext
    BY <1>1, EndedKept, DStepInv, AbruptEndInv, WrittenEndInv, StartInv, RepairInv, RepairedInv
    DEF DNext
<1>2. CASE UNCHANGED dvars
    <2> USE <1>2 DEF dvars, memVars, diskVars, vars, indexVars, chainVars, localVars
    <2>1. Mem'
        BY DEF DInv, Mem, MemTypes, Index, Calls
    <2>2. \A b : Flags(b)' = Flags(b)
        BY DEF Flags
    <2>3. CleanEntries'
        BY <2>2 DEF DInv, OnDisk, CleanEntries, Up
    <2>4. CoinsIndexed'
        BY DEF DInv, OnDisk, CoinsIndexed
    <2>5. Up' = Up /\ Ended'
        BY DEF Up, Ended
    <2>6. OnDisk'
        BY <2>3, <2>4, <2>5 DEF DInv, OnDisk, Whole
    <2> QED
        BY <2>1, <2>5, <2>6 DEF DInv
<1> QED
    BY <1>1, <1>2

THEOREM DiskInvariance == DSpec => [](DInv /\ Ended)
<1>1. DInit => DInv /\ Ended
    BY DInitInv
<1>2. (DInv /\ Ended) /\ [DNext]_dvars => (DInv /\ Ended)'
    BY DNextInv
<1> QED
    BY <1>1, <1>2, PTL DEF DSpec

\* Wherever a flush stops or the process ends, the chain the coin database is at is in the
\* index on disk, with its data and undo data.
THEOREM CoinsAlwaysIndexed == DSpec => []CoinsIndexed
<1>1. DInv /\ Ended => CoinsIndexed
    BY DEF DInv, OnDisk
<1> QED
    BY <1>1, DiskInvariance, PTL

\* setDirtyBlockIndex misses no change of an entry, the mark FindMostWorkChain sets apart.
THEOREM EntriesAlwaysClean == DSpec => []CleanEntries
<1>1. DInv /\ Ended => CleanEntries
    BY DEF DInv, OnDisk
<1> QED
    BY <1>1, DiskInvariance, PTL

---------------------------------------------------------------------------
(* The index and mapStakeSpent after every start.                          *)

\* What Rebuilt says beyond DInv, and mapStakeSpent empty while there is no process.
RebuiltInv ==
    /\ Up => Sorted
    /\ phase = "run" => Whole(tip)

StakesInv ==
    /\ ~Up => \A o \in Outpoints : stakeSpent[o] = Absent
    /\ StakeSpentKept

\* Steps that move neither the coins nor the tip.
StillStep(t) ==
    \/ DAccept(t) \/ Arrives(t) \/ Marks(t) \/ DFindDrop(t)
    \/ DConnectFails(t) \/ DLoopEnds(t)

LEMMA StillStepFrame ==
    ASSUME NEW t \in Threads, StillStep(t)
    PROVE  /\ UNCHANGED <<phase, best, hollow, tip, coins, stakeSpent>>
           /\ \/ DAccept(t) /\ AcceptStore(t)
              \/ DFindDrop(t) /\ FindDrop(t)
              \/ UNCHANGED <<data, linked, unlinked>>
<1>1. CASE DAccept(t)
    BY <1>1 DEF DAccept, Accept, AcceptTurnedAway, AcceptDuplicate, AcceptInvalid,
       AcceptStakeSpent, AcceptBelowHollow, AcceptStore, indexVars, chainVars
<1>2. CASE Arrives(t)
    BY <1>2 DEF Arrives, ReceiveBlock, indexVars, chainVars
<1>3. CASE Marks(t)
    BY <1>3 DEF Marks, TryLock, FindNone, FindPick, InvalidateFinish, Invalidate, Reconsider,
       LoopTest, indexVars, chainVars
<1>4. CASE DFindDrop(t)
    BY <1>4 DEF DFindDrop, FindDrop, chainVars
<1>5. CASE DConnectFails(t)
    BY <1>5 DEF DConnectFails, StepConnectFails, chainVars
<1>6. CASE DLoopEnds(t)
    BY <1>6 DEF DLoopEnds, LoopTest, indexVars, chainVars
<1> QED
    BY <1>1, <1>2, <1>3, <1>4, <1>5, <1>6 DEF StillStep

\* Steps that move the coins find them at the tip, and leave the index alone.
MovingStep(t) ==
    DConnect(t) \/ DConnectAborts(t) \/ DDisconnect(t) \/ DDisconnectAborts(t)

LEMMA MovingStepFrame ==
    ASSUME NEW t \in Threads, MovingStep(t)
    PROVE  /\ UNCHANGED <<phase, hollow, known, data, linked, unlinked, seq, nextSeq>>
           /\ best = tip
           /\ DConnect(t) \/ DDisconnect(t) \/ UNCHANGED tip
<1>1. CASE DConnect(t)
    BY <1>1 DEF DConnect, StepConnect
<1>2. CASE DConnectAborts(t)
    BY <1>2 DEF DConnectAborts
<1>3. CASE DDisconnect(t)
    BY <1>3 DEF DDisconnect, StepDisconnect, InvalidateDisconnect, indexVars
<1>4. CASE DDisconnectAborts(t)
    BY <1>4 DEF DDisconnectAborts
<1> QED
    BY <1>1, <1>2, <1>3, <1>4 DEF MovingStep

\* Every step of the node is one of these, or its end.
LEMMA DStepKinds ==
    ASSUME NEW t \in Threads, DStep(t)
    PROVE  Up /\ (StillStep(t) \/ MovingStep(t) \/ AssertFails(t))
    BY DEF DStep, StillStep, MovingStep

\* The process ends, with nothing left in memory.
Ends == Crash \/ Shutdown \/ \E t \in Threads : AssertFails(t) \/ NotRepaired(t)

LEMMA EndsFrame ==
    ASSUME Ends
    PROVE  ~Up' /\ Nothing
    BY DEF Ends, Crash, Shutdown, AssertFails, NotRepaired, End, Up

\* The kinds of steps there are.
LEMMA DNextKinds ==
    ASSUME DNext
    PROVE  \/ Ends
           \/ \E t \in Threads :
                 \/ Up /\ (StillStep(t) \/ MovingStep(t))
                 \/ Restart(t) \/ RestartRepairs(t) \/ Repaired(t)
    BY DStepKinds DEF DNext, Ends

\* Blocks that are stored, linked or connected stay so while the process lives.
LEMMA StepGrows ==
    ASSUME DInv, Up, NEW t \in Threads, StillStep(t) \/ MovingStep(t)
    PROVE  Grows
<1>1. CASE StillStep(t)
    <2>1. UNCHANGED hollow
        BY <1>1, StillStepFrame
    <2>2. CASE DAccept(t)
        BY <2>1, <2>2, AcceptOtherMem, AcceptStoreMem DEF DAccept, Accept, DInv
    <2>3. CASE Arrives(t) \/ Marks(t) \/ DLoopEnds(t)
        BY <2>1, <2>3, ReceiveMem, MarksMem DEF Arrives, Marks, DLoopEnds, DInv
    <2>4. CASE DFindDrop(t) \/ DConnectFails(t)
        BY <2>1, <2>4, FindDropMem, ConnectFailsMem DEF DFindDrop, DConnectFails, DInv
    <2> QED
        BY <1>1, <2>2, <2>3, <2>4 DEF StillStep
<1>2. CASE MovingStep(t)
    <2>1. UNCHANGED hollow /\ Whole(tip)
        BY <1>2, MovingStepFrame, TipWhole
    <2> QED
        BY <1>2, <2>1, ConnectMem, ConnectAbortsMem, DisconnectMem, DisconnectAbortsMem
        DEF MovingStep, DConnect, DDisconnect, DInv
<1> QED
    BY <1>1, <1>2

\* A step of the node keeps the index sorted.
LEMMA RebuiltStep ==
    ASSUME DInv, DInv', Up, RebuiltInv, NEW t \in Threads, StillStep(t) \/ MovingStep(t)
    PROVE  RebuiltInv'
<1>1. UNCHANGED phase /\ Up'
    BY StillStepFrame, MovingStepFrame DEF Up
<1>2. Sorted /\ data \subseteq Blocks /\ linked \subseteq Blocks /\ tip \in Blocks
    BY DEF RebuiltInv, DInv, Mem, MemTypes, Index
<1>3. Sorted'
    <2>1. CASE DAccept(t) /\ AcceptStore(t)
        <3> DEFINE b == blk[t]
        <3>1. /\ b \in Blocks \ {Genesis} /\ b \notin data
              /\ data' = data \cup {b}
              /\ IF Parent[b] \in linked THEN Link(b) ELSE Wait(b)
            BY <2>1 DEF AcceptStore, AtAccept, DInv, Mem, Calls
        <3> QED
            BY <1>2, <3>1, LinkIndex, WaitIndex DEF Sorted
    <2>2. CASE DFindDrop(t) /\ FindDrop(t)
        <3>1. PICK c \in candidates : \E x \in Unusable(c) :
                  unlinked' = IF x \in Failed THEN unlinked ELSE unlinked \cup (Chain[c] \ Chain[x])
            BY <2>2 DEF FindDrop
        <3>2. unlinked' = unlinked
            BY <1>2, <3>1, DroppedAreInactive
        <3>3. UNCHANGED <<data, linked>>
            BY <2>2 DEF FindDrop
        <3> QED
            BY <1>2, <3>2, <3>3 DEF Sorted, DInv, Mem, Index
    <2>3. CASE UNCHANGED <<data, linked, unlinked>>
        BY <1>2, <2>3 DEF Sorted, DInv, Mem, Index
    <2> QED
        BY <2>1, <2>2, <2>3, StillStepFrame, MovingStepFrame
<1>4. phase = "run" => Whole(tip)'
    <2>1. CASE DConnect(t) \/ DDisconnect(t)
        <3>1. best' = tip'
            BY <2>1 DEF DConnect, DDisconnect
        <3> QED
            BY <1>1, <3>1 DEF DInv, OnDisk, Whole
    <2>2. CASE UNCHANGED tip
        <3>1. Grows
            BY StepGrows
        <3> QED
            BY <2>2, <3>1 DEF RebuiltInv, Whole, Grows
    <2> QED
        BY <2>1, <2>2, StillStepFrame, MovingStepFrame
<1> QED
    BY <1>1, <1>3, <1>4 DEF RebuiltInv

\* LoadBlockIndexDB sorts the entries it finds.
LEMMA LoadSorted ==
    ASSUME DInv', Load
    PROVE  Sorted'
<1>1. /\ data' = With("data")
      /\ linked' = LinkedOnDisk
      /\ unlinked' = With("data") \ LinkedOnDisk
    BY DEF Load
<1>2. \A b \in Blocks : Chain[b] \subseteq With("data") => b \in Loaded
    BY TreeAssumption DEF With, Loaded
<1>3. linked' \subseteq Blocks /\ candidates' \subseteq linked'
    BY DEF DInv, Mem, Index
<1> QED
    BY <1>1, <1>2, <1>3 DEF Sorted, LinkedOnDisk

LEMMA RebuiltNext ==
    ASSUME DInv, DInv', RebuiltInv, [DNext]_dvars
    PROVE  RebuiltInv'
<1>1. CASE Ends
    BY <1>1, EndsFrame DEF RebuiltInv, Up
<1>2. ASSUME NEW t \in Threads, Up, StillStep(t) \/ MovingStep(t)
      PROVE  RebuiltInv'
    BY <1>2, RebuiltStep
<1>3. ASSUME NEW t \in Threads, Restart(t)
      PROVE  RebuiltInv'
    <2>1. tip' = best' /\ Load /\ Up'
        BY <1>3 DEF Restart, Started, Load, Up
    <2> QED
        BY <2>1, LoadSorted DEF RebuiltInv, DInv, OnDisk, Whole
<1>4. ASSUME NEW t \in Threads, RestartRepairs(t)
      PROVE  RebuiltInv'
    BY <1>4, LoadSorted DEF RestartRepairs, RebuiltInv
<1>5. ASSUME NEW t \in Threads, Repaired(t)
      PROVE  RebuiltInv'
    <2>1. Up /\ tip' = best' /\ Up' /\ UNCHANGED <<data, linked, unlinked>>
        BY <1>5 DEF Repaired, Started, indexVars, Up
    <2>2. Sorted'
        BY <2>1 DEF RebuiltInv, Sorted, DInv, Mem, Index
    <2> QED
        BY <2>1, <2>2 DEF RebuiltInv, DInv, OnDisk, Whole
<1>6. CASE UNCHANGED dvars
    BY <1>6 DEF dvars, memVars, vars, indexVars, chainVars, RebuiltInv, Sorted, Whole, Up
<1> QED
    BY <1>1, <1>2, <1>3, <1>4, <1>5, <1>6, DNextKinds

\* The sorted index is inductive next to DInv.
THEOREM RebuiltInvariance == DSpec => []RebuiltInv
<1>1. DInit => RebuiltInv
    BY TreeAssumption DEF DInit, Init, RebuiltInv, Sorted, Whole
<1>2. DInv /\ DInv' /\ RebuiltInv /\ [DNext]_dvars => RebuiltInv'
    BY RebuiltNext
<1> QED
    BY <1>1, <1>2, DiskInvariance, PTL DEF DSpec

\* However the last run ended, the index LoadBlockIndexDB rebuilds, and every later step,
\* tells linked blocks from waiting ones, and the active chain is stored and was connected.
THEOREM AlwaysRebuilt == DSpec => []Rebuilt
<1>1. DInv /\ RebuiltInv => Rebuilt
    <2> SUFFICES ASSUME DInv, RebuiltInv, Up
                 PROVE  /\ linked = {b \in known : Chain[b] \subseteq data}
                        /\ unlinked = data \ linked
                        /\ candidates \subseteq linked
                        /\ phase = "run" => tip \in linked /\ Chain[tip] \ {Genesis} \subseteq scripts
        BY DEF Rebuilt
    <2>1. data \subseteq known /\ known \subseteq Blocks
        BY DEF DInv, Mem, MemTypes, Index
    <2>2. Sorted /\ (phase = "run" => Whole(tip))
        BY DEF RebuiltInv
    <2>3. \A b \in Blocks : Chain[b] \subseteq data => b \in known
        BY <2>1, TreeAssumption
    <2> QED
        BY <2>1, <2>2, <2>3 DEF Sorted, Whole
<1> QED
    BY <1>1, DiskInvariance, RebuiltInvariance, PTL

\* A step of the node moves mapStakeSpent with the coins.
LEMMA StakesStep ==
    ASSUME DInv, Up, StakesInv, NEW t \in Threads, MovingStep(t)
    PROVE  StakesInv'
<1>1. best = tip /\ UNCHANGED phase /\ Up'
    BY MovingStepFrame DEF Up
<1>2. CASE DConnect(t) \/ DConnectAborts(t)
    <2>1. PICK b \in Blocks : IsNext(t, b) /\ stakeSpent' = StakeSpentWith(b) /\ best' = b
        BY <1>2 DEF DConnect, StepConnect, DConnectAborts
    <2>2. b \in Blocks \ {Genesis} /\ Chain[b] = Chain[best] \cup {b}
        BY <1>1, <2>1, ParentChain DEF IsNext
    <2>3. ASSUME NEW o \in Outpoints, stakeSpent'[o] # Absent
          PROVE  \E c \in Chain[best'] : o \in Spends[c] /\ Height[c] = stakeSpent'[o]
        <3>1. CASE o \in Spends[b] /\ stakeSpent[o] = Absent
            BY <2>1, <2>2, <2>3, <3>1 DEF StakeSpentWith
        <3>2. CASE ~(o \in Spends[b] /\ stakeSpent[o] = Absent)
            <4>1. stakeSpent'[o] = stakeSpent[o] /\ stakeSpent[o] # Absent
                BY <2>1, <2>3, <3>2 DEF StakeSpentWith
            <4> QED
                BY <2>1, <2>2, <4>1 DEF StakesInv, StakeSpentKept
        <3> QED
            BY <3>1, <3>2
    <2> QED
        BY <1>1, <2>3 DEF StakesInv, StakeSpentKept
<1>3. CASE DDisconnect(t) \/ DDisconnectAborts(t)
    <2>1. /\ tip \in Blocks \ {Genesis}
          /\ best' = Parent[tip]
          /\ stakeSpent' = [o \in Outpoints |-> IF o \in Spends[tip] THEN Absent ELSE stakeSpent[o]]
        <3>1. \/ Holds(t, "step") /\ tip \notin Chain[most[t]]
              \/ Holds(t, "invalidate") /\ blk[t] \in Chain[tip]
            BY <1>3 DEF DDisconnect, DDisconnectAborts, StepDisconnect, InvalidateDisconnect
        <3>2. tip \in Blocks \ {Genesis}
            BY <3>1, AboveRoot DEF DInv
        <3>3. /\ best' = Parent[tip]
              /\ stakeSpent' = [o \in Outpoints |-> IF o \in Spends[tip] THEN Absent ELSE stakeSpent[o]]
            BY <1>3 DEF DDisconnect, DDisconnectAborts, StepDisconnect, InvalidateDisconnect,
               DisconnectTip
        <3> QED
            BY <3>2, <3>3
    <2>2. Chain[best'] = Chain[best] \ {tip}
        BY <1>1, <2>1, ParentChain
    <2>3. ASSUME NEW o \in Outpoints, stakeSpent'[o] # Absent
          PROVE  \E c \in Chain[best'] : o \in Spends[c] /\ Height[c] = stakeSpent'[o]
        <3>1. o \notin Spends[tip] /\ stakeSpent'[o] = stakeSpent[o]
            BY <2>1, <2>3
        <3> QED
            BY <2>2, <2>3, <3>1 DEF StakesInv, StakeSpentKept
    <2> QED
        BY <1>1, <2>3 DEF StakesInv, StakeSpentKept
<1> QED
    BY <1>2, <1>3 DEF MovingStep

\* VerifyDB notes spends of the chain it walks over only.
LEMMA VerifiedStakes ==
    ASSUME NEW t \in Threads, NEW C, Started(t, best', C)
    PROVE  StakesInv'
<1>1. Up' /\ \E n \in VerifyDepths : stakeSpent' = StakeSpentVerified(best', n)
    BY DEF Started, Up
<1>2. PICK n \in VerifyDepths : stakeSpent' = StakeSpentVerified(best', n)
    BY <1>1
<1>3. ASSUME NEW o \in Outpoints, stakeSpent'[o] # Absent
      PROVE  \E b \in Chain[best'] : o \in Spends[b] /\ Height[b] = stakeSpent'[o]
    BY <1>2, <1>3 DEF StakeSpentVerified
<1> QED
    BY <1>1, <1>3 DEF StakesInv, StakeSpentKept

LEMMA StakesNext ==
    ASSUME DInv, StakesInv, [DNext]_dvars
    PROVE  StakesInv'
<1>1. CASE Ends
    BY <1>1, EndsFrame DEF StakesInv, StakeSpentKept, Nothing
<1>2. ASSUME NEW t \in Threads, Up, StillStep(t)
      PROVE  StakesInv'
    BY <1>2, StillStepFrame DEF StakesInv, StakeSpentKept, Up
<1>3. ASSUME NEW t \in Threads, Up, MovingStep(t)
      PROVE  StakesInv'
    BY <1>3, StakesStep
<1>4. ASSUME NEW t \in Threads, Restart(t) \/ Repaired(t)
      PROVE  StakesInv'
    BY <1>4, VerifiedStakes DEF Restart, Repaired, Load
<1>5. ASSUME NEW t \in Threads, RestartRepairs(t)
      PROVE  StakesInv'
    BY <1>5 DEF RestartRepairs, StakesInv, StakeSpentKept, Up
<1>6. CASE UNCHANGED dvars
    BY <1>6 DEF dvars, memVars, vars, chainVars, StakesInv, StakeSpentKept, Up
<1> QED
    BY <1>1, <1>2, <1>3, <1>4, <1>5, <1>6, DNextKinds

\* mapStakeSpent, which is not on disk, never tells of a spend that is not on the chain of
\* the coins, wherever the process ends and however much of the chain VerifyDB walks over.
THEOREM StakesAlwaysKept == DSpec => []StakeSpentKept
<1>1. DInit => StakesInv
    BY DEF DInit, Init, StakesInv, StakeSpentKept, Up
<1>2. DInv /\ StakesInv /\ [DNext]_dvars => StakesInv'
    BY StakesNext
<1>3. StakesInv => StakeSpentKept
    BY DEF StakesInv
<1> QED
    BY <1>1, <1>2, <1>3, DiskInvariance, PTL DEF DSpec

---------------------------------------------------------------------------
(* The best chain after a restart.                                         *)

\* The chain of b can be connected again at any time: it spends what it may, and nothing
\* of it is marked failed.
Solid(b) == SoundChain(b) /\ Usable(b)

\* The search uses what ChainState's does, and no lock keeps a block out.
Tidy ==
    /\ seq \in [Blocks -> Nat] /\ nextSeq \in Nat
    /\ refused = {}
    /\ \A t \in Threads : pc[t] \in Critical <=> csMain = t

\* The coins, on disk and in memory, and the active chain are at solid blocks, and no
\* failure mark on disk is missing in memory.
SolidInv ==
    /\ Up => /\ coins = UnspentAt(best)
             /\ Solid(best) /\ Solid(dBest)
             /\ \A b \in Blocks : disk[b] \cap {"valid", "child"} \subseteq Flags(b)
    /\ phase = "run" => Solid(tip)
    /\ ~Up => SoundChain(dBest) /\ Chain[dBest] \cap FailedOnDisk = {}

\* The coins on disk are behind those in memory, or behind the tip where a flush failed.
Behind ==
    /\ Up /\ best = tip => dBest \in Chain[tip]
    /\ phase = "run" => dBest \in Chain[best] \cup Chain[tip]

\* A recovery processes a block that is stored, and InvalidateBlock works on a marked one.
Recovering ==
    \A t \in Threads :
        /\ phase = "recover" => (pc[t] = "accept" => blk[t] \in data) /\ pc[t] # "invalidate"
        /\ pc[t] = "invalidate" => blk[t] \in failedValid

\* A step leads over unmarked blocks.
Clear(t) == (Chain[most[t]] \ Chain[tip]) \cap Failed = {}

\* The search of ChainState, as far as it goes where the coins are not at the tip.
Searching ==
    /\ Up => FloorInv
    /\ phase = "run" => NoneWorse
    /\ phase = "run" /\ best = tip => StepBest /\ Settled
    /\ Up /\ best = tip => \A t \in Threads : pc[t] = "step" => Clear(t)

RestartInv == Tidy /\ SolidInv /\ Behind /\ Recovering /\ Searching

\* The step is no reconsiderblock, and no invalidateblock of a block of the active chain
\* or of the chain the coins are at.
OffChain ==
    \A t \in Threads, b \in Blocks :
        /\ ~Reconsider(t, b)
        /\ Invalidate(t, b) => b \notin Chain[tip] \cup Chain[best]

\* What is known before and after a step of the node.
Running == DInv /\ Up /\ RebuiltInv /\ RestartInv

---------------------------------------------------------------------------

LEMMA RunningBase ==
    ASSUME DInv, Up, RebuiltInv, Tidy
    PROVE  Base
    BY DEF DInv, Mem, MemTypes, Index, Calls, RebuiltInv, Tidy, Base

LEMMA WholeLinked ==
    ASSUME Sorted, NEW b, Whole(b)
    PROVE  b \in linked
    BY DEF Sorted, Whole

\* The coins go to where the database does, or the database stays; every entry on disk
\* stays or is written as it was or is.
LEMMA Writes ==
    ASSUME DInv, NEW t \in Threads, StillStep(t) \/ MovingStep(t)
    PROVE  /\ dBest' \in {dBest, best'}
           /\ DDisconnect(t) => dBest' = best'
           /\ DConnectAborts(t) \/ DDisconnectAborts(t) => dBest' = dBest
           /\ \A b \in Blocks : disk'[b] \in {disk[b], Flags(b), Flags(b)'}
<1>1. CASE NoFlush \/ UNCHANGED diskVars
    <2>1. UNCHANGED <<disk, dBest>>
        BY <1>1 DEF NoFlush, diskVars
    <2>2. ~DDisconnect(t) \/ dBest' = best'
        BY DEF DDisconnect, Flush
    <2> QED
        BY <2>1, <2>2
<1>2. CASE \E b \in Blocks : DirectWrite(b)
    <2>1. PICK b \in Blocks : DirectWrite(b)
        BY <1>2
    <2>2. dBest' = dBest /\ \A x \in Blocks : disk'[x] \in {disk[x], Flags(x)}
        BY <2>1 DEF DirectWrite, DiskWith, DInv, OnDisk
    <2>3. ~DDisconnect(t) \/ dBest' = best'
        BY DEF DDisconnect, Flush
    <2> QED
        BY <2>2, <2>3
<1>3. CASE Flush(best')
    <2>1. dBest' = best' /\ \A x \in Blocks : disk'[x] \in {disk[x], Flags(x)'}
        BY <1>3 DEF Flush
    <2>2. DConnectAborts(t) \/ DDisconnectAborts(t) => dBest' = dBest
        BY DEF DConnectAborts, DDisconnectAborts, FlushFails, WritesSome
    <2> QED
        BY <2>1, <2>2
<1>4. CASE \E E \in Disks : \E B : FlushFails(E, B)
    <2>1. PICK E \in Disks : \E B : FlushFails(E, B)
        BY <1>4
    <2>2. \A x \in Blocks : E[x] \in {disk[x], Flags(x)}
        BY DisksEntries DEF DInv, OnDisk
    <2>3. dBest' = dBest /\ \A x \in Blocks : disk'[x] \in {E[x], Flags(x)'}
        BY <2>1 DEF FlushFails, WritesSome
    <2>4. ~DDisconnect(t) \/ dBest' = best'
        BY DEF DDisconnect, Flush
    <2> QED
        BY <2>2, <2>3, <2>4
<1>5. CASE DConnectFails(t)
    <2>1. failedValid' \ failedValid \subseteq Blocks
        BY <1>5 DEF DConnectFails, StepConnectFails, InvalidBlockFound
    <2> QED
        BY <1>1, <1>2, <1>5, <2>1 DEF DConnectFails
<1>6. CASE DConnect(t)
    <2>1. tip' \in Blocks /\ best' = tip'
        BY <1>6 DEF DConnect, StepConnect
    <2>2. DirectWrite(tip') => \E b \in Blocks : DirectWrite(b)
        BY <2>1 DEF DirectWrite, Flags
    <2> QED
        BY <1>2, <1>3, <1>6, <2>1, <2>2 DEF DConnect
<1>7. CASE DDisconnect(t)
    <2>1. Flush(best')
        BY <1>7 DEF DDisconnect, Flush
    <2> QED
        BY <1>3, <2>1
<1>8. CASE DLoopEnds(t)
    <2>1. Flush(best) => Flush(best')
        BY <1>8 DEF DLoopEnds, Flush
    <2>2. disk \in Disks
        BY DEF Disks
    <2>3. CASE FlushFails(disk, best)
        BY <1>4, <2>2, <2>3
    <2> QED
        BY <1>1, <1>3, <1>8, <2>1, <2>3 DEF DLoopEnds
<1>9. CASE DAccept(t) \/ Arrives(t) \/ Marks(t) \/ DFindDrop(t)
    BY <1>1, <1>9 DEF DAccept, Arrives, Marks, DFindDrop
<1>10. CASE DConnectAborts(t) \/ DDisconnectAborts(t)
    <2>1. disk \in Disks /\ \A b \in Blocks : DiskWith(b) \in Disks
        BY DEF Disks
    <2>2. \E E \in Disks : \E B : FlushFails(E, B)
        BY <1>10, <2>1 DEF DConnectAborts, DDisconnectAborts
    <2> QED
        BY <1>4, <2>2
<1> QED
    BY <1>5, <1>6, <1>7, <1>8, <1>9, <1>10 DEF StillStep, MovingStep

\* InvalidateBlock has nothing to disconnect: its block is not on the active chain.
LEMMA NothingToInvalidate ==
    ASSUME Running, NEW t \in Threads, pc[t] = "invalidate"
    PROVE  blk[t] \notin Chain[tip]
<1>1. phase = "run" /\ blk[t] \in Failed
    BY DEF Running, RestartInv, Recovering, Up, Failed
<1> QED
    BY <1>1 DEF Running, RestartInv, SolidInv, Solid, Usable

\* A step up, and a step down.
LEMMA Moves ==
    ASSUME Running, NEW t \in Threads, MovingStep(t)
    PROVE  /\ Holds(t, "step")
           /\ UNCHANGED <<failedValid, failedChild>>
           /\ \/ /\ DConnect(t) \/ DConnectAborts(t)
                 /\ \E b \in Blocks : /\ IsNext(t, b) /\ Connects(t, b)
                                      /\ best' = b
                                      /\ coins' = (coins \ Spends[b]) \cup Creates[b]
              \/ /\ (DDisconnect(t) /\ StepDisconnect(t)) \/ DDisconnectAborts(t)
                 /\ tip \in Blocks \ {Genesis}
                 /\ tip \notin Chain[most[t]]
                 /\ best' = Parent[tip]
                 /\ coins' = (coins \ Creates[tip]) \cup Spends[tip]
<1>1. CASE DConnect(t) \/ DConnectAborts(t)
    BY <1>1 DEF DConnect, DConnectAborts, StepConnect
<1>2. CASE DDisconnect(t) \/ DDisconnectAborts(t)
    <2>1. ~(Holds(t, "invalidate") /\ blk[t] \in Chain[tip])
        BY NothingToInvalidate DEF Holds
    <2>2. /\ Holds(t, "step") /\ tip \notin Chain[most[t]]
          /\ UNCHANGED <<failedValid, failedChild>>
          /\ DDisconnect(t) => StepDisconnect(t)
        BY <1>2, <2>1 DEF DDisconnect, DDisconnectAborts, StepDisconnect, InvalidateDisconnect,
           indexVars
    <2>3. tip \in Blocks \ {Genesis}
        BY <2>2, AboveRoot DEF Running, DInv
    <2>4. /\ best' = Parent[tip]
          /\ coins' = (coins \ Creates[tip]) \cup Spends[tip]
        BY <1>2, <2>2 DEF DDisconnect, DDisconnectAborts, StepDisconnect, DisconnectTip
    <2> QED
        BY <1>2, <2>2, <2>3, <2>4
<1> QED
    BY <1>1, <1>2 DEF MovingStep

\* Marks stay, and no step marks a block of a chain that is whole and solid, unless the
\* operator says so.
LEMMA MarksSpare ==
    ASSUME Running, OffChain, NEW t \in Threads, StillStep(t) \/ MovingStep(t)
    PROVE  /\ failedValid \subseteq failedValid' /\ failedChild \subseteq failedChild'
           /\ \A q \in Blocks :
                 /\ Whole(q) /\ Solid(q)
                 /\ \A b \in Blocks : Invalidate(t, b) => b \notin Chain[q]
                 => Usable(q)'
<1>0. Base /\ refused = {}
    BY RunningBase DEF Running, RestartInv, Tidy
<1>1. CASE UNCHANGED <<failedValid, failedChild>>
    BY <1>1 DEF Solid, Usable, Failed
<1>2. CASE AcceptInvalid(t)
    <2>1. failedValid' = failedValid \cup {blk[t]} /\ UNCHANGED failedChild /\ blk[t] \notin data
        BY <1>2 DEF AcceptInvalid
    <2> QED
        BY <2>1 DEF Whole, Solid, Usable, Failed
<1>3. CASE FindDrop(t)
    BY <1>0, <1>3, DropSpares DEF Solid
<1>4. CASE DConnectFails(t)
    <2>1. PICK b \in Blocks : IsNext(t, b) /\ ~Connects(t, b) /\ InvalidBlockFound(b)
        BY <1>4 DEF DConnectFails, StepConnectFails
    <2>2. failedValid' = failedValid \cup {b} /\ UNCHANGED failedChild
        BY <1>4, <2>1 DEF DConnectFails, StepConnectFails, InvalidBlockFound
    <2>3. coins = UnspentAt(tip)
        BY <1>4 DEF DConnectFails, Running, RestartInv, SolidInv
    <2>4. ASSUME NEW q \in Blocks, Whole(q), Solid(q)
          PROVE  b \notin Chain[q]
        BY <1>0, <2>1, <2>3, <2>4, RefutedIsNew DEF Whole, Solid
    <2> QED
        BY <2>2, <2>4 DEF Solid, Usable, Failed
<1>5. ASSUME NEW b \in Blocks, Invalidate(t, b)
      PROVE  /\ failedValid \subseteq failedValid' /\ failedChild \subseteq failedChild'
             /\ \A q \in Blocks : Solid(q) /\ b \notin Chain[q] => Usable(q)'
    BY <1>5 DEF Invalidate, Solid, Usable, Failed
<1>6. CASE MovingStep(t)
    BY <1>1, <1>6, Moves
<1>7. CASE StillStep(t)
    <2>1. \A b \in Blocks : ~Reconsider(t, b)
        BY DEF OffChain
    <2>2. \/ UNCHANGED <<failedValid, failedChild>>
          \/ AcceptInvalid(t) \/ FindDrop(t) \/ DConnectFails(t)
          \/ \E b \in Blocks : Invalidate(t, b)
        <3>1. CASE DAccept(t)
            BY <3>1 DEF DAccept, Accept, AcceptTurnedAway, AcceptDuplicate, AcceptStakeSpent,
               AcceptStore, AcceptBelowHollow, indexVars
        <3>2. CASE Arrives(t)
            BY <3>2 DEF Arrives, ReceiveBlock, indexVars
        <3>3. CASE Marks(t)
            <4>1. Invalidatable \subseteq Blocks
                BY ChainStateAssumption
            <4> QED
                BY <2>1, <3>3, <4>1 DEF Marks, TryLock, FindNone, FindPick, InvalidateFinish,
                   LoopTest, indexVars
        <3>4. CASE DFindDrop(t)
            BY <3>4 DEF DFindDrop
        <3>5. CASE DLoopEnds(t)
            BY <3>5 DEF DLoopEnds, LoopTest, indexVars
        <3> QED
            BY <1>7, <3>1, <3>2, <3>3, <3>4, <3>5 DEF StillStep
    <2> QED
        BY <1>1, <1>2, <1>3, <1>4, <1>5, <2>2
<1> QED
    BY <1>6, <1>7

\* The operator's calls wait until a recovery is over.
LEMMA InvalidateRuns ==
    ASSUME Running, NEW t \in Threads, StillStep(t) \/ MovingStep(t),
           NEW b \in Blocks, Invalidate(t, b)
    PROVE  phase = "run"
<1>1. pc[t] = "idle" /\ pc'[t] = "invalidate" /\ csMain' = t /\ csMain = NULL
    BY DEF Invalidate, Acquire, Running, DInv, Mem, MemTypes
<1>2. ~MovingStep(t)
    BY <1>1, Moves DEF Holds
<1> QED
    BY <1>1, <1>2, ChainStateAssumption
    DEF StillStep, DAccept, Accept, AcceptTurnedAway, AcceptDuplicate, AcceptInvalid,
        AcceptStakeSpent, AcceptStore, AcceptBelowHollow, AtAccept, Arrives, Marks, TryLock,
        FindNone, FindPick, InvalidateFinish, LoopTest, DFindDrop, FindDrop, DConnectFails,
        StepConnectFails, DLoopEnds, Holds, Reconsider, Goto

\* One thread moves, and cs_main changes hands as it should.
LEMMA HandsKept ==
    ASSUME Tidy, NEW t \in Threads, \A u \in Threads \ {t} : pc'[u] = pc[u],
           \/ csMain' = csMain /\ (pc'[t] \in Critical <=> pc[t] \in Critical)
           \/ csMain \in {NULL, t} /\ csMain' = NULL /\ pc'[t] \notin Critical
           \/ csMain = NULL /\ csMain' = t /\ pc'[t] \in Critical
    PROVE  \A u \in Threads : pc'[u] \in Critical <=> csMain' = u
    BY ChainStateAssumption DEF Tidy

LEMMA TidyStep ==
    ASSUME Running, NEW t \in Threads, StillStep(t) \/ MovingStep(t)
    PROVE  Tidy'
<1>0. Tidy /\ Base /\ pc \in [Threads -> PCs]
    BY RunningBase DEF Running, RestartInv, Base
<1>1. CASE DAccept(t)
    <2>1. refused' = {}
        BY <1>0, <1>1 DEF DAccept, Accept, AcceptTurnedAway, AcceptDuplicate, AcceptInvalid,
           AcceptStakeSpent, AcceptStore, AcceptBelowHollow, lockVars, Tidy
    <2>2. seq' \in [Blocks -> Nat] /\ nextSeq' \in Nat
        <3>1. CASE AcceptStore(t) /\ Link(blk[t])
            BY <1>0, <3>1, LinkTypes DEF AcceptStore, AtAccept, Base, Sorted
        <3>2. CASE UNCHANGED <<seq, nextSeq>>
            BY <1>0, <3>2 DEF Tidy
        <3> QED
            BY <1>1, <3>1, <3>2 DEF DAccept, Accept, AcceptTurnedAway, AcceptDuplicate,
               AcceptInvalid, AcceptStakeSpent, AcceptStore, AcceptBelowHollow, Wait, indexVars
    <2>3. /\ pc[t] = "accept" /\ csMain = NULL /\ csMain' = NULL
          /\ pc'[t] \in {"idle", "activate"}
          /\ \A u \in Threads \ {t} : pc'[u] = pc[u]
        BY <1>0, <1>1 DEF DAccept, Accept, AcceptTurnedAway, AcceptDuplicate, AcceptInvalid,
           AcceptStakeSpent, AcceptStore, AcceptBelowHollow, AtAccept, Return, Goto
    <2> QED
        BY <1>0, <2>1, <2>2, <2>3, HandsKept DEF Tidy, Critical
<1>2. CASE ~DAccept(t)
    <2>1. UNCHANGED <<seq, nextSeq, refused>>
        BY <1>2 DEF StillStep, MovingStep, Arrives, ReceiveBlock, Marks, TryLock, FindNone,
           FindPick, InvalidateFinish, Invalidate, Reconsider, LoopTest, DFindDrop, FindDrop,
           DConnectFails, StepConnectFails, DLoopEnds, DConnect, StepConnect, DConnectAborts,
           DDisconnect, StepDisconnect, InvalidateDisconnect, DDisconnectAborts, indexVars,
           lockVars
    <2>2. CASE Arrives(t) \/ Marks(t) \/ DLoopEnds(t)
        <3>1. /\ \A u \in Threads \ {t} : pc'[u] = pc[u]
              /\ \/ csMain' = csMain /\ (pc'[t] \in Critical <=> pc[t] \in Critical)
                 \/ csMain \in {NULL, t} /\ csMain' = NULL /\ pc'[t] \notin Critical
                 \/ csMain = NULL /\ csMain' = t /\ pc'[t] \in Critical
            BY <1>0, <2>2 DEF Arrives, ReceiveBlock, Offered, Marks, TryLock, FindNone, FindPick,
               InvalidateFinish, Invalidate, Reconsider, LoopTest, DLoopEnds, Holds, Goto, Return,
               Release, Acquire, Critical
        <3> QED
            BY <1>0, <2>1, <3>1, HandsKept DEF Tidy
    <2>3. CASE ~(Arrives(t) \/ Marks(t) \/ DLoopEnds(t))
        <3>1. /\ \A u \in Threads \ {t} : pc'[u] = pc[u]
              /\ csMain = t /\ pc[t] \in Critical
              /\ \/ csMain' = csMain /\ pc'[t] \in Critical
                 \/ csMain' = NULL /\ pc'[t] \notin Critical
            BY <1>0, <1>2, <2>3 DEF StillStep, MovingStep, DFindDrop, FindDrop, DConnectFails,
               StepConnectFails, DConnect, StepConnect, DConnectAborts, DDisconnect,
               StepDisconnect, InvalidateDisconnect, DDisconnectAborts, Holds, Goto, Return,
               Release, Critical, localVars
        <3> QED
            BY <1>0, <2>1, <3>1, HandsKept DEF Tidy
    <2> QED
        BY <2>2, <2>3
<1> QED
    BY <1>1, <1>2

\* The coins move from a solid block to a solid block.
LEMMA SolidMove ==
    ASSUME Running, NEW t \in Threads, MovingStep(t)
    PROVE  coins' = UnspentAt(best') /\ SoundChain(best') /\ Usable(best')
<1>1. /\ best = tip /\ coins = UnspentAt(tip) /\ Solid(tip)
      /\ Holds(t, "step") /\ Clear(t)
    BY Moves, MovingStepFrame DEF Running, RestartInv, SolidInv, Searching, Holds
<1>2. most[t] \in linked /\ most[t] \in Blocks
    BY <1>1 DEF Running, DInv, Mem, Calls, Index, Holds
<1>3. ASSUME NEW b \in Blocks, IsNext(t, b), Connects(t, b), best' = b,
             coins' = (coins \ Spends[b]) \cup Creates[b]
      PROVE  coins' = UnspentAt(best') /\ SoundChain(best') /\ Usable(best)'
    <2>1. b \in Blocks \ {Genesis} /\ Parent[b] = tip /\ b \in Chain[most[t]]
        BY <1>3 DEF IsNext
    <2>2. Chain[b] = Chain[tip] \cup {b} /\ Chain[b] \subseteq Chain[most[t]]
        BY <1>2, <2>1, ParentChain, TreeAssumption
    <2>3. Chain[b] \cap Failed = {}
        BY <1>1, <2>2 DEF Clear, Solid, Usable
    <2> QED
        BY <1>1, <1>3, <2>1, <2>3, Redo, Moves DEF Connects, Solid, Usable, Failed
<1>4. ASSUME tip \in Blocks \ {Genesis}, best' = Parent[tip],
             coins' = (coins \ Creates[tip]) \cup Spends[tip]
      PROVE  coins' = UnspentAt(best') /\ SoundChain(best') /\ Usable(best)'
    BY <1>1, <1>4, Undo, ParentChain, Moves DEF Solid, Usable, Failed
<1>5. Usable(best)' <=> Usable(best')
    BY Moves DEF Usable, Failed
<1> QED
    BY <1>3, <1>4, <1>5, Moves

LEMMA SolidStep ==
    ASSUME Running, OffChain, NEW t \in Threads, StillStep(t) \/ MovingStep(t)
    PROVE  SolidInv'
<1>1. UNCHANGED phase /\ Up'
    BY StillStepFrame, MovingStepFrame DEF Up, Running
<1>2. \A b \in Blocks : disk'[b] \cap {"valid", "child"} \subseteq Flags(b)'
    <2>1. ASSUME NEW b \in Blocks
          PROVE  Flags(b) \cap {"valid", "child"} \subseteq Flags(b)'
        BY MarksSpare DEF Flags
    <2> QED
        BY <2>1, Writes DEF Running, RestartInv, SolidInv
<1>3. ASSUME NEW q \in Blocks, Whole(q), Solid(q),
             q \in {best, dBest} \/ (phase = "run" /\ q = tip)
      PROVE  Chain[q] \cap Failed' = {}
    <2>1. ASSUME NEW b \in Blocks, Invalidate(t, b)
          PROVE  b \notin Chain[q]
        <3>1. b \notin Chain[tip] \cup Chain[best]
            BY <2>1 DEF OffChain
        <3>2. phase = "run"
            BY <2>1, InvalidateRuns
        <3>3. Chain[q] \subseteq Chain[tip] \cup Chain[best]
            BY <1>3, <3>2, TreeAssumption
            DEF Running, RestartInv, Behind, DInv, Mem, MemTypes, OnDisk, Whole, Up
        <3> QED
            BY <3>1, <3>3
    <2>2. Usable(q)'
        BY <1>3, <2>1, MarksSpare
    <2> QED
        BY <2>2 DEF Usable
<1>4. /\ Solid(best) /\ Whole(best) /\ Solid(dBest) /\ Whole(dBest)
      /\ best \in Blocks /\ dBest \in Blocks
      /\ coins = UnspentAt(best)
    BY DEF Running, RestartInv, SolidInv, DInv, OnDisk, Whole
<1>5. coins' = UnspentAt(best') /\ SoundChain(best') /\ Chain[best'] \cap Failed' = {}
    <2>1. CASE StillStep(t)
        <3>1. best' = best /\ coins' = coins
            BY <2>1, StillStepFrame
        <3>2. Chain[best] \cap Failed' = {}
            BY <1>3, <1>4
        <3> QED
            BY <1>4, <3>1, <3>2 DEF Solid
    <2>2. CASE MovingStep(t)
        <3>1. Failed' = Failed
            BY <2>2, Moves DEF Failed
        <3>2. Usable(best')
            BY <2>2, SolidMove
        <3> QED
            BY <2>2, <3>1, <3>2, SolidMove DEF Usable
    <2> QED
        BY <2>1, <2>2
<1>6. SoundChain(dBest') /\ Chain[dBest'] \cap Failed' = {}
    <2>1. Chain[dBest] \cap Failed' = {} /\ SoundChain(dBest)
        BY <1>3, <1>4 DEF Solid
    <2> QED
        BY <1>5, <2>1, Writes DEF Running
<1>7. phase = "run" => SoundChain(tip') /\ Chain[tip'] \cap Failed' = {}
    <2> SUFFICES ASSUME phase = "run" PROVE SoundChain(tip') /\ Chain[tip'] \cap Failed' = {}
        OBVIOUS
    <2>1. Whole(tip) /\ Solid(tip) /\ tip \in Blocks
        BY DEF Running, RebuiltInv, RestartInv, SolidInv, Whole
    <2>2. Chain[tip] \cap Failed' = {} /\ SoundChain(tip)
        BY <1>3, <2>1 DEF Solid
    <2>3. tip' \in {tip, best'}
        BY StillStepFrame, MovingStepFrame DEF DConnect, DDisconnect
    <2> QED
        BY <1>5, <2>2, <2>3
<1>8. Solid(best)' /\ Solid(dBest)' /\ (phase = "run" => Solid(tip)')
    BY <1>5, <1>6, <1>7 DEF Solid, Usable
<1> QED
    BY <1>1, <1>2, <1>5, <1>8 DEF SolidInv

LEMMA BehindStep ==
    ASSUME Running, NEW t \in Threads, StillStep(t) \/ MovingStep(t)
    PROVE  Behind'
<1>0. /\ Behind /\ phase' = phase /\ Up
      /\ tip \in Blocks /\ best \in Blocks /\ dBest \in Blocks
    BY StillStepFrame, MovingStepFrame
    DEF Running, RestartInv, DInv, Mem, MemTypes, OnDisk, Whole
<1>1. CASE StillStep(t)
    <2>1. best' = best /\ tip' = tip /\ dBest' \in {dBest, best}
        BY <1>1, StillStepFrame, Writes DEF Running
    <2> QED
        BY <1>0, <2>1, TreeAssumption DEF Behind, Up
<1>2. CASE MovingStep(t)
    <2>1. best = tip /\ dBest \in Chain[tip] /\ dBest' \in {dBest, best'}
        BY <1>0, <1>2, MovingStepFrame, Writes DEF Behind, Running
    <2>2. tip' \in {tip, best'} /\ (DConnect(t) \/ DDisconnect(t) => tip' = best')
        BY <1>2, MovingStepFrame DEF DConnect, DDisconnect
    <2>3. CASE DConnect(t) \/ DConnectAborts(t)
        <3>1. PICK b \in Blocks : IsNext(t, b) /\ best' = b
            BY <1>2, <2>3 DEF DConnect, DConnectAborts, StepConnect
        <3>2. /\ b \in Blocks \ {Genesis} /\ Parent[b] = tip
              /\ Chain[b] = Chain[tip] \cup {b} /\ b \notin Chain[tip]
            BY <3>1, ParentChain DEF IsNext
        <3>3. dBest' \in Chain[best'] /\ best' # tip
            BY <2>1, <3>1, <3>2, TreeAssumption
        <3>4. dBest' = dBest \/ tip' = best'
            BY <1>2, <2>2, <2>3, Writes DEF Running
        <3> QED
            BY <1>0, <2>2, <3>3, <3>4, TreeAssumption DEF Behind
    <2>4. CASE DDisconnect(t)
        <3>1. best' \in Blocks /\ tip' = best' /\ dBest' = best'
            BY <1>2, <2>2, <2>4, Moves, Writes, TreeAssumption DEF Running
        <3> QED
            BY <3>1, TreeAssumption DEF Behind
    <2>5. CASE DDisconnectAborts(t)
        <3>1. tip' = tip /\ dBest' = dBest
            BY <1>2, <2>5, Writes DEF DDisconnectAborts, Running
        <3>2. best' # tip
            <4>1. best' = Parent[tip] /\ tip \in Blocks \ {Genesis}
                BY <2>5, AboveRoot DEF DDisconnectAborts, Running, DInv
            <4> QED
                BY <4>1, ParentChain, TreeAssumption
        <3> QED
            BY <2>1, <3>1, <3>2 DEF Behind
    <2> QED
        BY <1>2, <2>3, <2>4, <2>5 DEF MovingStep
<1> QED
    BY <1>1, <1>2

LEMMA RecoverStep ==
    ASSUME Running, OffChain, NEW t \in Threads, StillStep(t) \/ MovingStep(t)
    PROVE  Recovering'
<1>0. /\ phase' = phase /\ Recovering
      /\ data \subseteq data' /\ failedValid \subseteq failedValid'
      /\ pc \in [Threads -> PCs] /\ blk \in [Threads -> Blocks \cup {NULL}]
      /\ Invalidatable \subseteq Blocks
    BY StillStepFrame, MovingStepFrame, StepGrows, MarksSpare, ChainStateAssumption
    DEF Running, RestartInv, Grows, DInv, Mem, MemTypes
<1>1. \A u \in Threads \ {t} : pc'[u] = pc[u] /\ blk'[u] = blk[u]
    BY <1>0
    DEF StillStep, MovingStep, DAccept, Accept, AcceptTurnedAway, AcceptDuplicate,
        AcceptInvalid, AcceptStakeSpent, AcceptStore, AcceptBelowHollow, Arrives, ReceiveBlock,
        Marks, TryLock, FindNone, FindPick, InvalidateFinish, Invalidate, Reconsider, LoopTest,
        DFindDrop, FindDrop, DConnectFails, StepConnectFails, DLoopEnds, DConnect, StepConnect,
        DConnectAborts, DDisconnect, StepDisconnect, InvalidateDisconnect, DDisconnectAborts,
        Goto, Return, Release, Acquire, localVars
<1>2. CASE Arrives(t)
    <2>1. phase = "run" /\ pc'[t] = "accept"
        BY <1>0, <1>2 DEF Arrives, ReceiveBlock, Goto
    <2> QED
        BY <1>0, <1>1, <2>1 DEF Recovering
<1>3. CASE \E b \in Blocks : Invalidate(t, b)
    <2>1. PICK b \in Blocks : Invalidate(t, b)
        BY <1>3
    <2>2. phase = "run" /\ pc'[t] = "invalidate" /\ blk'[t] \in failedValid'
        BY <1>0, <2>1, InvalidateRuns DEF Invalidate, Acquire
    <2> QED
        BY <1>0, <1>1, <2>2 DEF Recovering
<1>4. CASE ~Arrives(t) /\ ~\E b \in Blocks : Invalidate(t, b)
    <2>1. pc'[t] \notin {"accept", "invalidate"}
        <3>1. CASE StillStep(t)
            BY <1>0, <1>4, <3>1
            DEF StillStep, DAccept, Accept, AcceptTurnedAway, AcceptDuplicate, AcceptInvalid,
                AcceptStakeSpent, AcceptStore, AcceptBelowHollow, Marks, TryLock, FindNone,
                FindPick, InvalidateFinish, Reconsider, LoopTest, DFindDrop, FindDrop,
                DConnectFails, StepConnectFails, DLoopEnds, Holds, Goto, Return, Release, Acquire
        <3>2. CASE MovingStep(t)
            BY <1>0, <3>2, Moves
            DEF MovingStep, DConnect, StepConnect, DConnectAborts, DDisconnect, StepDisconnect,
                DDisconnectAborts, Holds, Goto, Return, Release
        <3> QED
            BY <3>1, <3>2
    <2> QED
        BY <1>0, <1>1, <2>1 DEF Recovering
<1> QED
    BY <1>2, <1>3, <1>4

\* A thread begins a step over unmarked blocks, and no other thread marks any under it.
LEMMA ClearStill ==
    ASSUME Running, OffChain, NEW t \in Threads, StillStep(t), NEW u \in Threads,
           pc[u] = "step" => Clear(u), pc'[u] = "step"
    PROVE  Clear(u)'
<1>0. /\ Base /\ tip' = tip
      /\ pc \in [Threads -> PCs] /\ most \in [Threads -> Blocks \cup {NULL}]
    BY RunningBase, StillStepFrame DEF Running, RestartInv, Base
<1>1. ASSUME csMain \in {NULL, t}, u # t, pc'[u] = pc[u]
      PROVE  FALSE
    BY <1>0, <1>1, Alone DEF Critical
<1>2. CASE FindPick(t)
    <2>1. u = t
        BY <1>0, <1>1, <1>2 DEF FindPick, Holds, Goto
    <2>2. PICK c \in candidates : Unusable(c) = {} /\ most'[t] = c
        BY <1>0, <1>2 DEF FindPick
    <2>3. UNCHANGED <<failedValid, failedChild>>
        BY <1>2 DEF FindPick, indexVars
    <2> QED
        BY <1>0, <2>1, <2>2, <2>3 DEF Clear, Unusable, Failed
<1>3. CASE AcceptInvalid(t) \/ FindDrop(t) \/ DConnectFails(t) \/ \E b \in Blocks : Invalidate(t, b)
    <2>1. csMain \in {NULL, t} /\ (u # t => pc'[u] = pc[u]) /\ pc'[t] # "step"
        BY <1>0, <1>3 DEF AcceptInvalid, AtAccept, FindDrop, DConnectFails, StepConnectFails,
           Invalidate, Holds, Return, Release, Acquire
    <2> QED
        BY <1>1, <2>1
<1>4. CASE /\ UNCHANGED <<failedValid, failedChild>>
           /\ pc'[u] = pc[u] /\ most'[u] = most[u]
    BY <1>0, <1>4 DEF Clear, Failed
<1>5. ASSUME ~FindPick(t), ~AcceptInvalid(t), ~FindDrop(t), ~DConnectFails(t),
             ~\E b \in Blocks : Invalidate(t, b)
      PROVE  /\ UNCHANGED <<failedValid, failedChild>>
             /\ pc'[u] = pc[u] /\ most'[u] = most[u]
    <2>1. CASE DAccept(t)
        BY <1>0, <1>5, <2>1 DEF DAccept, Accept, AcceptTurnedAway, AcceptDuplicate,
           AcceptStakeSpent, AcceptStore, AcceptBelowHollow, Return, Goto, indexVars, localVars
    <2>2. CASE Arrives(t) \/ DFindDrop(t) \/ DLoopEnds(t)
        BY <1>0, <1>5, <2>2 DEF Arrives, ReceiveBlock, DFindDrop, DLoopEnds, LoopTest, Goto,
           indexVars, localVars
    <2>3. CASE Marks(t)
        BY <1>0, <1>5, <2>3, ChainStateAssumption
        DEF OffChain, Marks, TryLock, FindNone, InvalidateFinish, LoopTest, Return, Release,
            Acquire, indexVars, localVars
    <2> QED
        BY <1>5, <2>1, <2>2, <2>3 DEF StillStep
<1> QED
    BY <1>2, <1>3, <1>4, <1>5

\* A step up or down stays on the way to where it leads.
LEMMA ClearMove ==
    ASSUME Running, NEW t \in Threads, MovingStep(t), best' = tip', NEW u \in Threads,
           pc'[u] = "step"
    PROVE  Clear(u)'
<1>0. /\ Base /\ best = tip /\ pc[t] = "step" /\ csMain = t /\ Clear(t)
      /\ pc \in [Threads -> PCs] /\ most \in [Threads -> Blocks \cup {NULL}]
      /\ UNCHANGED <<failedValid, failedChild>>
    BY RunningBase, Moves, MovingStepFrame DEF Running, RestartInv, Searching, Base, Holds
<1>1. u = t
    <2>1. u # t => pc'[u] = pc[u]
        BY <1>0 DEF MovingStep, DConnect, StepConnect, DConnectAborts, DDisconnect,
           StepDisconnect, InvalidateDisconnect, DDisconnectAborts, Goto, Return, Release
    <2> QED
        BY <1>0, <2>1, Alone DEF Critical
<1>2. CASE DConnect(t)
    <2>1. PICK b \in Blocks : IsNext(t, b) /\ tip' = b /\ UNCHANGED most
        BY <1>2 DEF DConnect, StepConnect, localVars
    <2>2. Chain[tip] \subseteq Chain[b]
        BY <2>1, ParentChain DEF IsNext
    <2> QED
        BY <1>0, <1>1, <2>1, <2>2 DEF Clear, Failed
<1>3. CASE DDisconnect(t)
    <2>1. StepDisconnect(t) /\ tip \in Blocks \ {Genesis} /\ tip \notin Chain[most[t]]
        BY <1>0, <1>3, Moves, AboveRoot DEF Running, DInv, DDisconnect, StepDisconnect,
           InvalidateDisconnect, Holds
    <2>2. tip' = Parent[tip] /\ UNCHANGED most
        BY <2>1 DEF StepDisconnect, DisconnectTip, localVars
    <2> QED
        BY <1>0, <1>1, <2>1, <2>2, ParentChain DEF Clear, Failed
<1>4. ~DConnectAborts(t) /\ ~DDisconnectAborts(t)
    BY <1>0, <1>1 DEF DConnectAborts, DDisconnectAborts, Return
<1> QED
    BY <1>2, <1>3, <1>4 DEF MovingStep

\* What is left to show of a step of the node, with best and tip in place.
SearchStill ==
    /\ FloorInv'
    /\ phase = "run" => NoneWorse'
    /\ phase = "run" /\ best = tip => StepBest' /\ Settled'

LEMMA StillSearches ==
    ASSUME Running, OffChain, Base', NEW t \in Threads, StillStep(t)
    PROVE  SearchStill
<1>0. /\ Base /\ FloorInv /\ refused = {}
      /\ phase = "run" => NoneWorse
      /\ phase = "run" /\ best = tip => StepBest /\ Settled
    BY RunningBase DEF Running, RestartInv, Searching, Tidy
<1>1. CASE /\ NoneWorse => NoneWorse'
           /\ FloorInv => FloorInv'
           /\ StepBest => StepBest'
           /\ Settled => Settled'
    BY <1>0, <1>1 DEF SearchStill
<1>2. ASSUME \/ \E b \in Blocks : ReceiveBlock(t, b)
             \/ AcceptTurnedAway(t) \/ AcceptDuplicate(t) \/ AcceptStakeSpent(t)
             \/ AcceptBelowHollow(t)
             \/ TryLock(t) \/ FindNone(t) \/ LoopTest(t)
      PROVE  SearchStill
    <2>1. AcceptBelowHollow(t) =>
             AtAccept(t) /\ Return(t) /\ UNCHANGED <<indexVars, candidates, chainVars>>
        BY DEF AcceptBelowHollow
    <2> QED
        BY <1>0, <1>1, <1>2, <2>1, StillActions
<1>3. CASE AcceptInvalid(t)
    BY <1>0, <1>1, <1>3, AcceptInvalidSearch
<1>4. CASE AcceptStore(t)
    <2>1. phase = "run"
        BY <1>4 DEF Running, RestartInv, Recovering, Up, AcceptStore, AtAccept
    <2>2. tip \in linked
        BY <2>1, WholeLinked DEF Running, RebuiltInv, Up
    <2> QED
        BY <1>0, <1>4, <2>1, <2>2, AcceptStoreSearch DEF SearchStill
<1>5. CASE FindPick(t)
    BY <1>0, <1>5, FindPickSearch DEF SearchStill
<1>6. CASE FindDrop(t)
    BY <1>0, <1>6, FindDropSearch DEF SearchStill
<1>7. CASE DConnectFails(t)
    <2>1. StepConnectFails(t) /\ coins = UnspentAt(tip) /\ refused \cap scripts = {}
        BY <1>0, <1>7 DEF DConnectFails, Running, RestartInv, SolidInv
    <2> QED
        BY <1>0, <2>1, StepConnectFailsSearch DEF SearchStill
<1>8. ASSUME NEW b \in Blocks, Invalidate(t, b)
      PROVE  SearchStill
    BY <1>0, <1>8, InvalidateSearch DEF SearchStill
<1>9. CASE InvalidateFinish(t)
    <2>1. phase = "run"
        BY <1>9 DEF InvalidateFinish, Holds, Running, RestartInv, Recovering, Up
    <2>2. tip \in linked /\ Whole(tip) /\ Solid(tip)
        BY <2>1, WholeLinked DEF Running, RestartInv, SolidInv, RebuiltInv, Up
    <2> QED
        BY <1>0, <1>9, <2>1, <2>2, InvalidateFinishSearch DEF SearchStill, Solid, Whole
<1>10. CASE Marks(t)
    <2>1. Invalidatable \subseteq Blocks /\ \A b \in Blocks : ~Reconsider(t, b)
        BY ChainStateAssumption DEF OffChain
    <2> QED
        BY <1>2, <1>5, <1>8, <1>9, <1>10, <2>1 DEF Marks
<1> QED
    BY <1>2, <1>3, <1>4, <1>6, <1>7, <1>10 DEF StillStep, DAccept, Accept, Arrives, DFindDrop,
       DLoopEnds

\* A flush that fails leaves the candidates and the marks as they are.
LEMMA AbortSearches ==
    ASSUME Running, NEW t \in Threads, DConnectAborts(t) \/ DDisconnectAborts(t)
    PROVE  FloorInv' /\ NoneWorse' = NoneWorse /\ best' # tip'
<1>1. MovingStep(t)
    BY DEF MovingStep
<1>2. /\ Base /\ FloorInv /\ pc[t] = "step" /\ csMain = t
      /\ UNCHANGED <<failedValid, failedChild, linked, seq, tip>>
      /\ best = tip
    BY <1>1, RunningBase, Moves, MovingStepFrame
    DEF Running, RestartInv, Searching, Holds, DConnectAborts, DDisconnectAborts
<1>3. UNCHANGED candidates
    BY <1>1, <1>2 DEF DConnectAborts, DDisconnectAborts, Holds
<1>4. scripts \subseteq scripts'
    BY DEF DConnectAborts, DDisconnectAborts
<1>5. PICK p \in linked : Floor(p)
    BY <1>2, FloorHere
<1>6. Floor(p)'
    <2>1. Failed' = Failed
        BY <1>2 DEF Failed
    <2> QED
        BY <1>2, <1>3, <1>4, <1>5, <2>1, FloorFrame DEF Floor, Usable
<1>7. best' # tip
    <2>1. CASE DConnectAborts(t)
        <3>1. PICK b \in Blocks : IsNext(t, b) /\ best' = b
            BY <2>1 DEF DConnectAborts
        <3> QED
            BY <3>1, ParentChain, TreeAssumption DEF IsNext
    <2>2. CASE DDisconnectAborts(t)
        <3>1. best' = Parent[tip] /\ tip \in Blocks \ {Genesis}
            BY <2>2, AboveRoot DEF DDisconnectAborts, Running, DInv
        <3> QED
            BY <3>1, ParentChain, TreeAssumption
    <2> QED
        BY <2>1, <2>2
<1> QED
    BY <1>2, <1>3, <1>6, <1>7 DEF FloorInv, NoneWorse

LEMMA MoveSearches ==
    ASSUME Running, NEW t \in Threads, MovingStep(t)
    PROVE  /\ FloorInv'
           /\ phase = "run" => NoneWorse'
           /\ phase = "run" /\ best' = tip' => StepBest' /\ Settled'
<1>0. /\ Base /\ FloorInv /\ best = tip
      /\ phase = "run" => NoneWorse /\ StepBest /\ Settled
      /\ coins = UnspentAt(tip) /\ Solid(tip) /\ Whole(tip) /\ tip \in linked
      /\ Clear(t)
    BY RunningBase, WholeLinked, Moves, MovingStepFrame
    DEF Running, RestartInv, Searching, SolidInv, DInv, OnDisk, RebuiltInv, Holds
<1>1. CASE DConnectAborts(t) \/ DDisconnectAborts(t)
    BY <1>0, <1>1, AbortSearches
<1>2. CASE DConnect(t)
    <2>1. StepConnect(t) /\ ChainInv
        BY <1>0, <1>2 DEF DConnect, ChainInv, Solid, Whole
    <2> QED
        BY <1>0, <2>1, StepConnectSearch DEF Clear, Solid
<1>3. CASE DDisconnect(t)
    <2>1. StepDisconnect(t)
        BY <1>0, <1>3, Moves DEF DDisconnect, InvalidateDisconnect, Holds
    <2> QED
        BY <1>0, <2>1, StepDisconnectSearch
<1> QED
    BY <1>1, <1>2, <1>3 DEF MovingStep

LEMMA SearchStep ==
    ASSUME Running, OffChain, Base', NEW t \in Threads, StillStep(t) \/ MovingStep(t)
    PROVE  Searching'
<1>1. CASE StillStep(t)
    <2>1. UNCHANGED <<phase, best, tip>>
        BY <1>1, StillStepFrame
    <2>2. SearchStill
        BY <1>1, StillSearches
    <2>3. Up' /\ best' = tip' => \A u \in Threads : pc'[u] = "step" => Clear(u)'
        BY <1>1, <2>1, ClearStill DEF Running, RestartInv, Searching, Up
    <2> QED
        BY <2>1, <2>2, <2>3 DEF Searching, SearchStill
<1>2. CASE MovingStep(t)
    <2>1. UNCHANGED phase
        BY <1>2, MovingStepFrame
    <2> QED
        BY <1>2, <2>1, MoveSearches, ClearMove DEF Searching
<1> QED
    BY <1>1, <1>2

LEMMA RestartStep ==
    ASSUME Running, OffChain, DInv', NEW t \in Threads, StillStep(t) \/ MovingStep(t)
    PROVE  RestartInv'
<1>1. Tidy' /\ RebuiltInv' /\ Up'
    BY TidyStep, RebuiltStep, StillStepFrame, MovingStepFrame DEF Running, Up
<1>2. Base'
    BY <1>1, RunningBase DEF DInv, Mem, MemTypes, Index, Calls, RebuiltInv, Tidy, Base
<1> QED
    BY <1>1, <1>2, SolidStep, BehindStep, RecoverStep, SearchStep DEF RestartInv

\* The node starts at the chain the coin database is at: it is stored, was connected and is
\* not marked, so it is the floor of the candidates that are rebuilt from there up.
LEMMA LoadSearches ==
    ASSUME DInv, DInv', RestartInv, ~Up, Up', Load, UNCHANGED <<disk, dBest>>,
           \A b \in UsableOnDisk : ~Worse(seq, b, dBest) => b \in candidates'
    PROVE  /\ coins' = UnspentAt(best') /\ best' = dBest
           /\ SoundChain(dBest) /\ Chain[dBest] \cap Failed' = {}
           /\ \A b \in Blocks : disk'[b] \cap {"valid", "child"} \subseteq Flags(b)'
           /\ FloorInv'
<1>1. /\ best' = dBest /\ coins' = UnspentAt(dBest) /\ seq' = seq
      /\ failedValid' = With("valid") /\ failedChild' = With("child")
      /\ scripts' = With("scripts") /\ linked' = LinkedOnDisk
    BY DEF Load
<1>2. dBest \in Blocks /\ Failed' = FailedOnDisk
    BY <1>1 DEF DInv, OnDisk, Failed, FailedOnDisk
<1>3. SoundChain(dBest) /\ Chain[dBest] \cap FailedOnDisk = {}
    BY DEF RestartInv, SolidInv
<1>4. \A b \in Blocks : disk[b] \cap {"valid", "child"} \subseteq Flags(b)'
    BY <1>1 DEF Flags, With, Stored, None
<1>5. Chain[dBest] \subseteq Blocks /\ Chain[dBest] \subseteq With("data")
    BY <1>2, TreeAssumption DEF DInv, OnDisk, CoinsIndexed, With, Stored
<1>6. Chain[dBest] \ {Genesis} \subseteq With("scripts")
    BY <1>5 DEF DInv, OnDisk, CoinsIndexed, With, Stored
<1>7. dBest \in LinkedOnDisk
    BY <1>2, <1>5, TreeAssumption DEF LinkedOnDisk, Loaded, With
<1>8. ASSUME NEW b \in LinkedOnDisk, Chain[b] \cap FailedOnDisk = {}, ~Worse(seq, b, dBest)
      PROVE  b \in candidates'
    <2>1. b \in Blocks
        BY <1>1 DEF DInv, Mem, Index
    <2>2. b \notin FailedOnDisk
        BY <1>8, <2>1, TreeAssumption
    <2> QED
        BY <1>8, <2>2 DEF UsableOnDisk
<1>9. Floor(dBest)'
    BY <1>1, <1>2, <1>3, <1>6, <1>8 DEF Floor, Usable
<1> QED
    BY <1>1, <1>2, <1>3, <1>4, <1>7, <1>9 DEF FloorInv

LEMMA RestartStarts ==
    ASSUME DInv, DInv', Ended, RestartInv, NEW t \in Threads, Restart(t)
    PROVE  RestartInv'
<1>1. /\ ~Up /\ Up' /\ phase' = "run" /\ Load
      /\ UNCHANGED <<disk, dBest, seq, nextSeq, refused, csMain>>
      /\ tip' = dBest /\ best' = dBest
      /\ candidates' = {c \in UsableOnDisk : ~Worse(seq, c, dBest)}
      /\ pc' = [pc EXCEPT ![t] = "activate"]
      /\ \A u \in Threads : pc[u] = "idle"
    BY DEF Restart, Started, Load, Ended, Up
<1>2. dBest \in Blocks /\ pc \in [Threads -> PCs]
    BY DEF DInv, OnDisk, Mem, MemTypes
<1>3. /\ coins' = UnspentAt(best')
      /\ SoundChain(dBest) /\ Chain[dBest] \cap Failed' = {}
      /\ \A b \in Blocks : disk'[b] \cap {"valid", "child"} \subseteq Flags(b)'
      /\ FloorInv'
    BY <1>1, LoadSearches
<1>4. pc'[t] = "activate" /\ \A u \in Threads \ {t} : pc'[u] = "idle"
    BY <1>1, <1>2
<1>5. Tidy'
    BY <1>1, <1>4 DEF RestartInv, Tidy, Critical
<1>6. SolidInv'
    <2>1. Solid(best)' /\ Solid(dBest)' /\ Solid(tip)'
        BY <1>1, <1>3 DEF Solid, Usable
    <2> QED
        BY <1>1, <1>3, <2>1 DEF SolidInv
<1>7. Behind'
    BY <1>1, <1>2, TreeAssumption DEF Behind
<1>8. Recovering'
    BY <1>1, <1>4 DEF Recovering
<1>9. Searching'
    BY <1>1, <1>3, <1>4 DEF Searching, NoneWorse, StepBest, Settled, Pending
<1> QED
    BY <1>5, <1>6, <1>7, <1>8, <1>9 DEF RestartInv

LEMMA RepairStarts ==
    ASSUME DInv, DInv', Ended, RestartInv, NEW t \in Threads, RestartRepairs(t)
    PROVE  RestartInv'
<1>1. /\ ~Up /\ Up' /\ phase' = "recover" /\ Load
      /\ UNCHANGED <<disk, dBest, seq, nextSeq, refused, csMain>>
      /\ best' = dBest
      /\ candidates' = UsableOnDisk
      /\ pc' = [pc EXCEPT ![t] = "accept"]
      /\ blk' = [blk EXCEPT ![t] = LastMeta]
      /\ LastMeta \in With("data") /\ data' = With("data")
      /\ \A u \in Threads : pc[u] = "idle"
    BY DEF RestartRepairs, Load, Ended, Up, diskVars
<1>2. /\ dBest \in Blocks /\ pc \in [Threads -> PCs]
      /\ blk \in [Threads -> Blocks \cup {NULL}]
    BY DEF DInv, OnDisk, Mem, MemTypes
<1>3. /\ coins' = UnspentAt(best')
      /\ SoundChain(dBest) /\ Chain[dBest] \cap Failed' = {}
      /\ \A b \in Blocks : disk'[b] \cap {"valid", "child"} \subseteq Flags(b)'
      /\ FloorInv'
    BY <1>1, LoadSearches
<1>4. /\ pc'[t] = "accept" /\ blk'[t] \in data'
      /\ \A u \in Threads \ {t} : pc'[u] = "idle"
    BY <1>1, <1>2
<1>5. Tidy'
    BY <1>1, <1>4 DEF RestartInv, Tidy, Critical
<1>6. SolidInv'
    <2>1. Solid(best)' /\ Solid(dBest)'
        BY <1>1, <1>3 DEF Solid, Usable
    <2> QED
        BY <1>1, <1>3, <2>1 DEF SolidInv
<1>7. Behind'
    BY <1>1, <1>2, TreeAssumption DEF Behind
<1>8. Recovering'
    BY <1>1, <1>4 DEF Recovering
<1>9. Searching'
    BY <1>1, <1>3, <1>4 DEF Searching
<1> QED
    BY <1>5, <1>6, <1>7, <1>8, <1>9 DEF RestartInv

\* A recovery ends where the coins are, which can be connected again: it is a floor too.
LEMMA RepairedStarts ==
    ASSUME Running, DInv', NEW t \in Threads, Repaired(t)
    PROVE  RestartInv'
<1>1. /\ phase' = "run" /\ Up' /\ tip' = best /\ best' = best /\ dBest' = best
      /\ Quiet
      /\ UNCHANGED <<linked, scripts, data, failedValid, failedChild, seq, nextSeq, refused,
                     coins, csMain>>
      /\ candidates' = NotWorseThan(best)
      /\ pc' = [pc EXCEPT ![t] = "activate"]
      /\ disk' = [b \in Blocks |-> IF b \in dirty THEN Flags(b) ELSE disk[b]]
    BY DEF Repaired, Started, Written, NotWorseThan, Up, indexVars, lockVars
<1>2. /\ best \in Blocks /\ Whole(best) /\ Solid(best) /\ best \in linked
      /\ pc \in [Threads -> PCs] /\ Base /\ FloorInv
      /\ coins = UnspentAt(best)
    BY RunningBase, WholeLinked
    DEF Running, RestartInv, SolidInv, Searching, RebuiltInv, DInv, OnDisk, Whole, Mem, MemTypes
<1>3. pc'[t] = "activate" /\ \A u \in Threads \ {t} : pc'[u] = "idle"
    BY <1>1, <1>2 DEF Quiet
<1>4. Tidy'
    BY <1>1, <1>3 DEF Running, RestartInv, Tidy, Quiet, Critical
<1>5. SolidInv'
    <2>1. \A b \in Blocks : Flags(b)' = Flags(b)
        BY <1>1 DEF Flags
    <2>2. \A b \in Blocks : disk'[b] \cap {"valid", "child"} \subseteq Flags(b)'
        BY <1>1, <2>1 DEF Running, RestartInv, SolidInv
    <2>3. Solid(best)' /\ Solid(dBest)' /\ Solid(tip)'
        BY <1>1, <1>2 DEF Solid, Usable, Failed
    <2> QED
        BY <1>1, <1>2, <2>2, <2>3 DEF SolidInv
<1>6. Behind'
    BY <1>1, <1>2, TreeAssumption DEF Behind
<1>7. Recovering'
    BY <1>1, <1>3 DEF Recovering
<1>8. FloorInv'
    <2>1. PICK p \in linked : Floor(p)
        BY <1>1, <1>2 DEF FloorInv, Quiet
    <2>2. \E q \in linked' : Floor(q)'
        BY <1>1, <1>2, <2>1, FloorPruned DEF Base, Sorted, Solid, Whole
    <2> QED
        BY <2>2 DEF FloorInv
<1>9. Searching'
    BY <1>1, <1>3, <1>8 DEF Searching, NoneWorse, NotWorseThan, StepBest, Settled, Pending
<1> QED
    BY <1>4, <1>5, <1>6, <1>7, <1>9 DEF RestartInv

\* However the process ends, the coin database is left at a solid chain.
LEMMA EndsSolid ==
    ASSUME DInv, Ended, RestartInv, Ends
    PROVE  RestartInv'
<1>1. ~Up' /\ Nothing
    BY EndsFrame
<1>2. dBest' \in {dBest, best} /\ \A b \in Blocks : disk'[b] \in {disk[b], Flags(b)}
    BY DEF Ends, Crash, Shutdown, AssertFails, NotRepaired, Written, WrittenInPart, diskVars, DInv, OnDisk
<1>3. Up
    BY DEF Ends, Crash, Shutdown, AssertFails, NotRepaired, Ended, Holds, Up
<1>4. \A x \in {dBest, best} : SoundChain(x) /\ Chain[x] \cap Failed = {}
    BY <1>3 DEF RestartInv, SolidInv, Solid, Usable
<1>5. FailedOnDisk' \subseteq Failed
    <2> SUFFICES ASSUME NEW b \in Blocks, disk'[b] \cap {"valid", "child"} # {}
                 PROVE  b \in Failed
        BY DEF FailedOnDisk, With, Stored
    <2>1. Flags(b) \cap {"valid", "child"} # {}
        BY <1>2, <1>3 DEF RestartInv, SolidInv
    <2> QED
        BY <2>1 DEF Flags, Failed
<1>6. SoundChain(dBest') /\ Chain[dBest'] \cap FailedOnDisk' = {}
    BY <1>2, <1>4, <1>5
<1>7. Tidy'
    BY <1>1, ChainStateAssumption DEF Nothing, Tidy, Critical
<1>8. phase' \notin {"run", "recover"} /\ \A t \in Threads : pc'[t] = "idle"
    BY <1>1 DEF Up, Nothing
<1> QED
    BY <1>1, <1>6, <1>7, <1>8 DEF RestartInv, SolidInv, Behind, Recovering, Searching

LEMMA InitSolid == DInit => RestartInv
<1> SUFFICES ASSUME DInit PROVE RestartInv
    OBVIOUS
<1>1. /\ phase = "run" /\ Up /\ tip = Genesis /\ best = Genesis /\ dBest = Genesis
      /\ Genesis \in Blocks /\ Chain[Genesis] = {Genesis}
      /\ linked = {Genesis} /\ candidates = {Genesis} /\ Failed = {}
      /\ \A t \in Threads : pc[t] = "idle"
      /\ seq \in [Blocks -> Nat]
    BY TreeAssumption DEF DInit, Init, Up, Failed
<1>2. SoundChain(Genesis) /\ coins = UnspentAt(Genesis)
    BY <1>1, TreeAssumption, CoinAssumption
    DEF DInit, Init, SoundChain, UnspentAt, Created, Spent
<1>3. Solid(Genesis)
    BY <1>1, <1>2 DEF Solid, Usable
<1>4. \A b \in Blocks : disk[b] \cap {"valid", "child"} \subseteq Flags(b)
    BY DEF DInit, None
<1>5. Tidy
    BY <1>1, ChainStateAssumption DEF DInit, Init, Tidy, Critical
<1>6. SolidInv
    BY <1>1, <1>2, <1>3, <1>4 DEF SolidInv
<1>7. Behind /\ Recovering
    BY <1>1 DEF Behind, Recovering
<1>8. FloorInv
    BY <1>1, <1>3 DEF FloorInv, Floor, Solid
<1>9. ~Worse(seq, Genesis, Genesis)
    BY <1>1, WorseIrreflexive
<1>10. Searching
    BY <1>1, <1>8, <1>9 DEF Searching, NoneWorse, StepBest, Settled, TipBest
<1> QED
    BY <1>5, <1>6, <1>7, <1>10 DEF RestartInv

LEMMA RestartNext ==
    ASSUME DInv, DInv', Ended, RebuiltInv, RestartInv, [DNext]_dvars, [OffChain]_dvars
    PROVE  RestartInv'
<1>1. CASE Ends
    BY <1>1, EndsSolid
<1>2. ASSUME NEW t \in Threads, Up, StillStep(t) \/ MovingStep(t), OffChain
      PROVE  RestartInv'
    BY <1>2, RestartStep DEF Running
<1>3. ASSUME NEW t \in Threads, Restart(t) \/ RestartRepairs(t)
      PROVE  RestartInv'
    BY <1>3, RestartStarts, RepairStarts
<1>4. ASSUME NEW t \in Threads, Repaired(t)
      PROVE  RestartInv'
    BY <1>4, RepairedStarts DEF Running, Repaired, Up
<1>5. CASE UNCHANGED dvars
    <2> USE <1>5 DEF dvars, memVars, diskVars, vars, indexVars, chainVars, lockVars, localVars
    <2>1. Tidy' /\ Behind' /\ Recovering'
        BY DEF RestartInv, Tidy, Behind, Recovering, Up
    <2>2. SolidInv'
        BY DEF RestartInv, SolidInv, Up, Solid, Usable, Failed, Flags, FailedOnDisk, With, Stored
    <2>3. Searching'
        <3>1. FloorInv' = FloorInv /\ NoneWorse' = NoneWorse
            BY DEF FloorInv, Floor, Usable, Failed, NoneWorse
        <3>2. StepBest' = StepBest /\ Settled' = Settled
            BY DEF StepBest, Settled, Pending, TipBest
        <3>3. \A t \in Threads : Clear(t)' = Clear(t)
            BY DEF Clear, Failed
        <3> QED
            BY <3>1, <3>2, <3>3 DEF RestartInv, Searching, Up
    <2> QED
        BY <2>1, <2>2, <2>3 DEF RestartInv
<1> QED
    BY <1>1, <1>2, <1>3, <1>4, <1>5, DNextKinds

\* After every start, repaired or not, and after every call that no failing flush cut short,
\* no usable block is better than the tip, wherever earlier runs ended: as long as the
\* operator neither reconsiders blocks nor invalidates a block of the active chain.
THEOREM BestAfterEveryRestart == DSpec /\ [][OffChain]_dvars => []BestAfterRestart
<1>1. DInit => RestartInv
    BY InitSolid
<1>2. /\ DInv /\ Ended /\ RebuiltInv /\ DInv' /\ RestartInv
      /\ [DNext]_dvars /\ [OffChain]_dvars
      => RestartInv'
    BY RestartNext
<1>3. DInv /\ RebuiltInv /\ RestartInv => BestAfterRestart
    <2> SUFFICES ASSUME DInv, RebuiltInv, RestartInv, phase = "run", best = tip, Quiet,
                        NEW b \in linked, Chain[b] \cap Failed = {}
                 PROVE  ~Worse(seq, tip, b)
        BY DEF BestAfterRestart, MostWorkActive
    <2>1. Base /\ FloorInv /\ Settled
        BY RunningBase DEF RestartInv, Searching, Up
    <2> QED
        BY <2>1, QuietIsBest DEF Usable
<1> QED
    BY <1>1, <1>2, <1>3, DiskInvariance, RebuiltInvariance, PTL DEF DSpec

\* A node whose operator leaves its blocks alone needs no such condition.
THEOREM PlainRestarts ==
    ASSUME Invalidatable = {}
    PROVE  DSpec => []BestAfterRestart
<1>1. [OffChain]_dvars
    BY DEF OffChain, Invalidate, Reconsider
<1> QED
    BY <1>1, BestAfterEveryRestart, PTL

=============================================================================
