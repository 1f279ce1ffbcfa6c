---------------------------- MODULE ChainState ----------------------------
(***************************************************************************)
(* The block index and the active chain of one node (main.cpp), with the   *)
(* threads that work on them: the message handler, which feeds "block"     *)
(* messages to ProcessNewBlock and runs ReprocessBlocks when a transaction *)
(* lock completes, and RPC or staking threads, which submit blocks and     *)
(* invalidate or reconsider them.                                          *)
(*                                                                         *)
(* cs_main is the variable csMain.  What a thread does without it, and     *)
(* each loop iteration it does under it (one candidate of                  *)
(* FindMostWorkChain, one DisconnectTip, one ConnectTip), is one action.   *)
(* ActivateBestChain gives cs_main up after every ActivateBestChainStep,   *)
(* so the threads interleave between steps.                                *)
(*                                                                         *)
(* Abstracted: a block is valid when the outputs it spends are unspent     *)
(* (ConnectBlock), its header context is right (BadContext) and CheckBlock *)
(* does not refuse it for a transaction lock held at that moment (refused).*)
(* Warnings, notifications, chain trust, stake modifiers, pruned block     *)
(* files and failing disk operations are left out; the disk is the subject *)
(* of a module of its own.                                                 *)
(***************************************************************************)
EXTENDS BlockTree

CONSTANTS
    NetThreads,      \* threads that handle network messages
    RpcThreads,      \* RPC server, miner and staker threads
    NULL,            \* no block, no thread
    MaxReorg,        \* -maxreorg, MaxReorganizationDepth()
    BadContext,      \* blocks ContextualCheckBlock rejects
    Lockable,        \* blocks with a transaction that a SwiftTX lock can conflict with
    Invalidatable,   \* blocks the operator names in invalidateblock and reconsiderblock
    ReprocessDepths  \* arguments ReprocessBlocks is called with

Threads == NetThreads \cup RpcThreads

ASSUME ChainStateAssumption ==
    /\ NULL \notin Blocks \cup Threads
    /\ MaxReorg \in Nat
    /\ BadContext \subseteq Blocks \ {Genesis}
    /\ Lockable \subseteq Blocks \ {Genesis}
    /\ Invalidatable \subseteq Blocks \ {Genesis}
    /\ ReprocessDepths \subseteq Nat

VARIABLES
    \* mapBlockIndex and the fields of its entries
    known,         \* blocks with an entry
    data,          \* BLOCK_HAVE_DATA: the block itself is stored
    linked,        \* nChainTx # 0: so are all its ancestors
    scripts,       \* BLOCK_VALID_SCRIPTS: connected at least once
    failedValid,   \* BLOCK_FAILED_VALID
    failedChild,   \* BLOCK_FAILED_CHILD
    seq,           \* nSequenceId
    nextSeq,       \* nBlockSequenceId
    unlinked,      \* values of mapBlocksUnlinked (each under its parent)
    candidates,    \* setBlockIndexCandidates
    \* the active chain
    tip,           \* chainActive.Tip()
    coins,         \* unspent outputs in pcoinsTip
    stakeSpent,    \* mapStakeSpent: output -> height, or Absent
    \* block filtering by transaction locks
    refused,       \* blocks that conflict with mapLockedInputs now
    rejected,      \* mapRejectedBlocks
    \* threads
    csMain,        \* the holder of cs_main, or NULL
    pc,
    blk,           \* the block the call is about: pblock of ProcessNewBlock
    most,          \* pindexMostWork of ActivateBestChain
    oldTip,        \* pindexOldTip of ActivateBestChainStep
    left           \* iterations left in DisconnectBlocksAndReprocess

indexVars == <<known, data, linked, scripts, failedValid, failedChild, seq, nextSeq, unlinked>>
chainVars == <<tip, coins, stakeSpent>>
lockVars == <<refused, rejected>>
localVars == <<blk, most, oldTip, left>>
vars == <<indexVars, candidates, chainVars, lockVars, csMain, pc, localVars>>

Absent == -1

PCs == {"idle", "accept", "activate", "find", "step", "test",
        "invalidate", "reconsider", "disconnect"}

Init ==
    /\ known = {Genesis} /\ data = {Genesis} /\ linked = {Genesis}
    /\ scripts = {} /\ failedValid = {} /\ failedChild = {}
    /\ seq = [b \in Blocks |-> IF b = Genesis THEN 1 ELSE 0]
    /\ nextSeq = 2
    /\ unlinked = {}
    /\ candidates = {Genesis}
    /\ tip = Genesis
    /\ coins = Creates[Genesis]
    /\ stakeSpent = [o \in Outpoints |-> Absent]
    /\ refused = {} /\ rejected = {}
    /\ csMain = NULL
    /\ pc = [t \in Threads |-> "idle"]
    /\ blk = [t \in Threads |-> NULL]
    /\ most = [t \in Threads |-> NULL]
    /\ oldTip = [t \in Threads |-> NULL]
    /\ left = [t \in Threads |-> 0]

---------------------------------------------------------------------------
(* Status of index entries. *)

\* nStatus & BLOCK_FAILED_MASK
Failed == failedValid \cup failedChild

\* CBlockIndexWorkComparator(a, b) under the sequence numbers s: a sorts before b.
Worse(s, a, b) ==
    \/ Work[a] < Work[b]
    \/ Work[a] = Work[b] /\ s[a] > s[b]
    \/ Work[a] = Work[b] /\ s[a] = s[b] /\ Addr[a] > Addr[b]

\* Mistake: PruneBlockIndexCandidates is forgotten.
PruneNothing(b) == candidates

\* PruneBlockIndexCandidates with b as the tip: what is left.  Blocks as good as b stay,
\* among them the tip a failing reorganisation has to come back to.
NotWorseThan(b) == {c \in candidates : ~Worse(seq, c, b)}

\* Best entry of the candidate set: setBlockIndexCandidates.rbegin().
IsBest(c) == c \in candidates /\ \A d \in candidates : ~Worse(seq, c, d)

---------------------------------------------------------------------------
(* Threads and cs_main. *)

Acquire(t, next) ==
    /\ csMain = NULL
    /\ csMain' = t
    /\ pc' = [pc EXCEPT ![t] = next]

Goto(t, next) ==
    /\ pc' = [pc EXCEPT ![t] = next]
    /\ UNCHANGED csMain

Release(t, next) ==
    /\ csMain' = NULL
    /\ pc' = [pc EXCEPT ![t] = next]

\* The call returns: the thread's locals are gone.
Return(t) ==
    /\ csMain' = NULL
    /\ pc' = [pc EXCEPT ![t] = "idle"]
    /\ blk' = [blk EXCEPT ![t] = NULL]
    /\ most' = [most EXCEPT ![t] = NULL]
    /\ oldTip' = [oldTip EXCEPT ![t] = NULL]
    /\ left' = [left EXCEPT ![t] = 0]

Holds(t, at) == pc[t] = at /\ csMain = t

---------------------------------------------------------------------------
(* ProcessNewBlock, up to AcceptBlock.  CheckBlock runs before cs_main is  *)
(* taken.  A "block" message whose hash is in the index is skipped, and    *)
(* one whose parent is unknown only triggers getblocks.                    *)

\* The blocks a thread may hand to ProcessNewBlock.  submitblock, and a block this node
\* mined, need no parent, and may complete a header whose block was never stored.
Offered(t, b) ==
    /\ pc[t] = "idle"
    /\ b # Genesis
    /\ \/ /\ t \in NetThreads
          /\ b \notin known
          /\ Parent[b] \in known
       \/ /\ t \in RpcThreads
          /\ csMain = NULL
          /\ b \notin scripts \cup Failed

ReceiveBlock(t, b) ==
    /\ Offered(t, b)
    /\ b \notin refused
    /\ Goto(t, "accept")
    /\ blk' = [blk EXCEPT ![t] = b]
    /\ UNCHANGED <<indexVars, candidates, chainVars, lockVars, most, oldTip, left>>

\* CheckBlock finds an input locked for another transaction: the hash goes to
\* mapRejectedBlocks and the block is dropped.
RefuseBlock(t, b) ==
    /\ Offered(t, b)
    /\ b \in refused
    /\ rejected' = rejected \cup {b}
    /\ UNCHANGED <<indexVars, candidates, chainVars, refused, csMain, pc, localVars>>

---------------------------------------------------------------------------
(* AcceptBlock, one action per way it can end.  It runs under cs_main      *)
(* from beginning to end.                                                  *)

\* ContextualCheckBlockHeader: a new header may not fork off too far below the tip.
TooDeep(b) == Height[tip] - Height[b] >= MaxReorg

\* The block is turned away before it gets an index entry, or its entry has failed.
TurnedAway(b) ==
    \/ Parent[b] \notin known
    \/ Parent[b] \in Failed
    \/ b \notin known /\ TooDeep(b)
    \/ b \in known /\ b \in Failed

\* The coinstake check: its inputs are unspent at the tip or were spent above the
\* parent's height on the active chain, and no block of the fork spends them.
StakeLooksSpent(b) ==
    \/ /\ ~(Stake[b] \subseteq coins)
       /\ \E o \in Stake[b] : stakeSpent[o] < Height[Parent[b]]
    \/ \E a \in (Chain[Parent[b]] \ Chain[tip]) \cap data : Spends[a] \cap Stake[b] # {}

AtAccept(t) == pc[t] = "accept" /\ csMain = NULL

AcceptTurnedAway(t) ==
    /\ AtAccept(t)
    /\ TurnedAway(blk[t])
    /\ Return(t)
    /\ UNCHANGED <<indexVars, candidates, chainVars, lockVars>>

AcceptDuplicate(t) ==
    /\ AtAccept(t)
    /\ ~TurnedAway(blk[t])
    /\ blk[t] \in data
    /\ Goto(t, "activate")
    /\ UNCHANGED <<indexVars, candidates, chainVars, lockVars, localVars>>

\* AddToBlockIndex has run and ContextualCheckBlock fails.
AcceptInvalid(t) ==
    /\ AtAccept(t)
    /\ ~TurnedAway(blk[t])
    /\ blk[t] \in BadContext \ data
    /\ known' = known \cup {blk[t]}
    /\ failedValid' = failedValid \cup {blk[t]}
    /\ Return(t)
    /\ UNCHANGED <<data, linked, scripts, failedChild, seq, nextSeq, unlinked,
                   candidates, chainVars, lockVars>>

\* The coinstake check returns false: the header stays in the index without its block.
AcceptStakeSpent(t) ==
    /\ AtAccept(t)
    /\ ~TurnedAway(blk[t])
    /\ blk[t] \notin BadContext \cup data
    /\ StakeLooksSpent(blk[t])
    /\ known' = known \cup {blk[t]}
    /\ Return(t)
    /\ UNCHANGED <<data, linked, scripts, failedValid, failedChild, seq, nextSeq, unlinked,
                   candidates, chainVars, lockVars>>

\* Mistake: the waiting descendants are not visited.
CascadeAlone(b) == {b}

\* The blocks the queue of ReceivedBlockTransactions visits once b is stored: b and
\* the waiting descendants that reach it through waiting blocks only.
Cascade(b) ==
    {b} \cup {x \in unlinked : b \in Chain[x] /\ Chain[x] \ Chain[b] \subseteq unlinked}

\* The orders in which that queue can visit S (breadth first).
VisitOrders(S) ==
    {f \in [S -> 0 .. Cardinality(S) - 1] :
        \A x, y \in S : /\ f[x] = f[y] => x = y
                        /\ Height[x] < Height[y] => f[x] < f[y]}

\* Mistake: only the block that arrived is considered, not the descendants it links.
ArrivedCandidate(s, S) == {x \in S : Parent[x] \in linked /\ ~Worse(s, x, tip)}

\* Which of the newly linked blocks S, numbered by s, can become the tip.
NewCandidates(s, S) == {x \in S : ~Worse(s, x, tip)}

\* ReceivedBlockTransactions, with all ancestors of b stored.
Link(b) ==
    LET S == Cascade(b) IN
    \E f \in VisitOrders(S) :
       LET s == [x \in Blocks |-> IF x \in S THEN nextSeq + f[x] ELSE seq[x]] IN
       /\ linked' = linked \cup S
       /\ seq' = s
       /\ nextSeq' = nextSeq + Cardinality(S)
       /\ candidates' = candidates \cup NewCandidates(s, S)
       /\ unlinked' = unlinked \ S

\* ReceivedBlockTransactions, with an ancestor of b missing.
Wait(b) ==
    /\ unlinked' = unlinked \cup {b}
    /\ UNCHANGED <<linked, seq, nextSeq, candidates>>

AcceptStore(t) ==
    /\ AtAccept(t)
    /\ ~TurnedAway(blk[t])
    /\ blk[t] \notin BadContext \cup data
    /\ ~StakeLooksSpent(blk[t])
    /\ known' = known \cup {blk[t]}
    /\ data' = data \cup {blk[t]}
    /\ IF Parent[blk[t]] \in linked THEN Link(blk[t]) ELSE Wait(blk[t])
    /\ Goto(t, "activate")
    /\ UNCHANGED <<scripts, failedValid, failedChild, chainVars, lockVars, localVars>>

---------------------------------------------------------------------------
(* ActivateBestChain and FindMostWorkChain. *)

TryLock(t) ==
    /\ pc[t] = "activate"
    /\ Acquire(t, "find")
    /\ UNCHANGED <<indexVars, candidates, chainVars, lockVars, localVars>>

\* Mistake: the failure marks on the path are not looked at.
UnusableByData(c) == {x \in Chain[c] \ Chain[tip] : x \notin data}

\* Blocks between the active chain and c that make c unusable.
Unusable(c) == {x \in Chain[c] \ Chain[tip] : x \in Failed \/ x \notin data}

\* The best candidate has a failed or missing block on its path: walking down from the
\* candidate stops at the first such block, x, and drops x and everything above it.
FindDrop(t) ==
    /\ Holds(t, "find")
    /\ \E c \in candidates : \E x \in Unusable(c) :
          /\ IsBest(c)
          /\ \A y \in Unusable(c) : Height[y] <= Height[x]
          /\ LET above == Chain[c] \ Chain[x] IN
             /\ failedChild' = IF x \in Failed THEN failedChild \cup above ELSE failedChild
             /\ unlinked' = IF x \in Failed THEN unlinked ELSE unlinked \cup above
             /\ candidates' = candidates \ (above \cup {x})
    /\ UNCHANGED <<known, data, linked, scripts, failedValid, seq, nextSeq, chainVars,
                   lockVars, csMain, pc, localVars>>

\* No candidate, or the tip is the best one: ActivateBestChain returns.
FindNone(t) ==
    /\ Holds(t, "find")
    /\ \/ candidates = {}
       \/ IsBest(tip)
    /\ Return(t)
    /\ UNCHANGED <<indexVars, candidates, chainVars, lockVars>>

FindPick(t) ==
    /\ Holds(t, "find")
    /\ \E c \in candidates :
          /\ IsBest(c)
          /\ c # tip
          /\ Unusable(c) = {}
          /\ most' = [most EXCEPT ![t] = c]
    /\ oldTip' = [oldTip EXCEPT ![t] = tip]
    /\ Goto(t, "step")
    /\ UNCHANGED <<indexVars, candidates, chainVars, lockVars, blk, left>>

---------------------------------------------------------------------------
(* ActivateBestChainStep: disconnect down to the fork, then connect.       *)

\* Mistakes: the outputs the block spent are not restored, its spends stay in mapStakeSpent.
DisconnectLosesInputs ==
    /\ tip' = Parent[tip]
    /\ coins' = coins \ Creates[tip]
    /\ stakeSpent' = [o \in Outpoints |-> IF o \in Spends[tip] THEN Absent ELSE stakeSpent[o]]

DisconnectKeepsStakes ==
    /\ tip' = Parent[tip]
    /\ coins' = (coins \ Creates[tip]) \cup Spends[tip]
    /\ UNCHANGED stakeSpent

\* DisconnectTip and DisconnectBlock: undo the tip's effect on the coins.
DisconnectTip ==
    /\ tip' = Parent[tip]
    /\ coins' = (coins \ Creates[tip]) \cup Spends[tip]
    /\ stakeSpent' = [o \in Outpoints |-> IF o \in Spends[tip] THEN Absent ELSE stakeSpent[o]]

\* ConnectTip rechecks the block unless it is the one this call brought and checked.
Rechecked(t, b) == ~(b = blk[t] /\ b = most[t])

\* ConnectBlock's verdict.
Connects(t, b) ==
    /\ Rechecked(t, b) => b \notin refused
    /\ Spends[b] \subseteq coins

\* mapStakeSpent after connecting b: new entries do not replace old ones, and those
\* too far below b are dropped.
StakeSpentWith(b) ==
    [o \in Outpoints |->
        LET h == IF o \in Spends[b] /\ stakeSpent[o] = Absent THEN Height[b] ELSE stakeSpent[o]
        IN  IF h < Height[b] - MaxReorg THEN Absent ELSE h]

\* The block above the tip on the way to most[t].
IsNext(t, b) == b \in Chain[most[t]] \ {Genesis} /\ Parent[b] = tip

\* With the fork reached and nothing to connect above it the step is over.
StepDisconnect(t) ==
    /\ Holds(t, "step")
    /\ tip \notin Chain[most[t]]
    /\ DisconnectTip
    /\ IF Parent[tip] = most[t] THEN Release(t, "test") ELSE Goto(t, "step")
    /\ UNCHANGED <<indexVars, candidates, lockVars, localVars>>

\* ConnectTip succeeds, PruneBlockIndexCandidates drops what is now worse than the
\* tip, and cs_main is given up as soon as the tip beats the one the step began with.
StepConnect(t) ==
    /\ Holds(t, "step")
    /\ tip \in Chain[most[t]]
    /\ \E b \in Blocks :
          /\ IsNext(t, b)
          /\ Connects(t, b)
          /\ tip' = b
          /\ coins' = (coins \ Spends[b]) \cup Creates[b]
          /\ stakeSpent' = StakeSpentWith(b)
          /\ scripts' = scripts \cup {b}
          /\ candidates' = NotWorseThan(b)
          /\ IF b = most[t] \/ Work[b] > Work[oldTip[t]]
             THEN Release(t, "test")
             ELSE Goto(t, "step")
    /\ UNCHANGED <<known, data, linked, failedValid, failedChild, seq, nextSeq, unlinked,
                   lockVars, localVars>>

\* Mistake: the invalid block is not marked and stays a candidate.
InvalidBlockIgnored(b) == UNCHANGED <<failedValid, candidates>>

InvalidBlockFound(b) ==
    /\ failedValid' = failedValid \cup {b}
    /\ candidates' = candidates \ {b}

\* ConnectBlock finds the block invalid, and the step ends wherever the chain happens
\* to be.
StepConnectFails(t) ==
    /\ Holds(t, "step")
    /\ tip \in Chain[most[t]]
    /\ \E b \in Blocks :
          /\ IsNext(t, b)
          /\ ~Connects(t, b)
          /\ InvalidBlockFound(b)
          /\ rejected' = IF Rechecked(t, b) /\ b \in refused THEN rejected \cup {b} ELSE rejected
    /\ Release(t, "test")
    /\ UNCHANGED <<known, data, linked, scripts, failedChild, seq, nextSeq, unlinked,
                   chainVars, refused, localVars>>

\* Mistake: one step, and no look at whether the best candidate was reached.
LoopOnce(t) ==
    /\ pc[t] = "test"
    /\ pc' = [pc EXCEPT ![t] = "idle"]
    /\ blk' = [blk EXCEPT ![t] = NULL]
    /\ most' = [most EXCEPT ![t] = NULL]
    /\ oldTip' = [oldTip EXCEPT ![t] = NULL]
    /\ UNCHANGED <<indexVars, candidates, chainVars, lockVars, csMain, left>>

\* The loop condition of ActivateBestChain reads the tip without cs_main.
LoopTest(t) ==
    /\ pc[t] = "test"
    /\ IF most[t] = tip
       THEN /\ pc' = [pc EXCEPT ![t] = "idle"]
            /\ blk' = [blk EXCEPT ![t] = NULL]
       ELSE /\ pc' = [pc EXCEPT ![t] = "activate"]
            /\ UNCHANGED blk
    /\ most' = [most EXCEPT ![t] = NULL]
    /\ oldTip' = [oldTip EXCEPT ![t] = NULL]
    /\ UNCHANGED <<indexVars, candidates, chainVars, lockVars, csMain, left>>

---------------------------------------------------------------------------
(* invalidateblock and reconsiderblock.                                    *)

Invalidate(t, b) ==
    /\ t \in RpcThreads
    /\ pc[t] = "idle"
    /\ b \in Invalidatable \cap known
    /\ Acquire(t, "invalidate")
    /\ failedValid' = failedValid \cup {b}
    /\ candidates' = candidates \ {b}
    /\ blk' = [blk EXCEPT ![t] = b]
    /\ UNCHANGED <<known, data, linked, scripts, failedChild, seq, nextSeq, unlinked,
                   chainVars, lockVars, most, oldTip, left>>

\* While the block is in the active chain, mark the tip and disconnect it.
InvalidateDisconnect(t) ==
    /\ Holds(t, "invalidate")
    /\ blk[t] \in Chain[tip]
    /\ failedChild' = failedChild \cup {tip}
    /\ candidates' = candidates \ {tip}
    /\ DisconnectTip
    /\ UNCHANGED <<known, data, linked, scripts, failedValid, seq, nextSeq, unlinked,
                   lockVars, csMain, pc, localVars>>

\* Mistake: a header whose block is missing is restored too.
RestoredHeaders == {x \in known \ Failed : ~Worse(seq, x, tip)}

\* The valid blocks InvalidateBlock finds to be at least as good as the new tip.
Restored == {x \in linked \ Failed : ~Worse(seq, x, tip)}

InvalidateFinish(t) ==
    /\ Holds(t, "invalidate")
    /\ blk[t] \notin Chain[tip]
    /\ candidates' = candidates \cup Restored
    /\ Release(t, "activate")
    /\ blk' = [blk EXCEPT ![t] = NULL]
    /\ UNCHANGED <<indexVars, chainVars, lockVars, most, oldTip, left>>

\* ReconsiderBlock: b, its descendants and its ancestors are no longer failed; only the
\* descendants (and b) can become candidates again.
ReconsiderBlock(b) ==
    LET D == {x \in known \cap Failed : b \in Chain[x]} IN
    /\ failedValid' = failedValid \ (D \cup Chain[b])
    /\ failedChild' = failedChild \ (D \cup Chain[b])
    /\ candidates' = candidates \cup {x \in D \cap linked : Worse(seq, tip, x)}

Reconsider(t, b) ==
    /\ t \in RpcThreads
    /\ pc[t] = "idle"
    /\ csMain = NULL
    /\ b \in Invalidatable \cap known
    /\ ReconsiderBlock(b)
    /\ Goto(t, "activate")
    /\ UNCHANGED <<known, data, linked, scripts, seq, nextSeq, unlinked, chainVars,
                   lockVars, localVars>>

---------------------------------------------------------------------------
(* Transaction locks and ReprocessBlocks (spork.cpp).                      *)

\* Locks complete (ProcessConsensusVote) and expire (CleanTransactionLocksList)
\* without cs_main.
ChangeLocks(S) ==
    /\ S # refused
    /\ refused' = S
    /\ UNCHANGED <<indexVars, candidates, chainVars, rejected, csMain, pc, localVars>>

Reprocess(t, n) ==
    /\ t \in NetThreads
    /\ pc[t] = "idle"
    /\ Goto(t, "reconsider")
    /\ left' = [left EXCEPT ![t] = n + 1]
    /\ UNCHANGED <<indexVars, candidates, chainVars, lockVars, blk, most, oldTip>>

\* One rejected block that is still inside the time window; cs_main is taken and given
\* up for each.  Which entries are inside the window is left open.
ReprocessReconsider(t, b) ==
    /\ pc[t] = "reconsider"
    /\ csMain = NULL
    /\ b \in rejected \cap known
    /\ ReconsiderBlock(b)
    /\ UNCHANGED <<known, data, linked, scripts, seq, nextSeq, unlinked, chainVars,
                   lockVars, csMain, pc, localVars>>

ReprocessBegin(t) ==
    /\ pc[t] = "reconsider"
    /\ Acquire(t, "disconnect")
    /\ UNCHANGED <<indexVars, candidates, chainVars, lockVars, localVars>>

\* Mistake: the tip is taken back and the coins are not.
ReprocessTipOnly(t) ==
    /\ Holds(t, "disconnect")
    /\ left[t] > 0
    /\ tip # Genesis
    /\ tip' = Parent[tip]
    /\ left' = [left EXCEPT ![t] = @ - 1]
    /\ UNCHANGED <<indexVars, candidates, coins, stakeSpent, lockVars, csMain, pc, blk, most, oldTip>>

\* DisconnectBlocksAndReprocess: i = 0 .. n, one DisconnectTip each.
ReprocessDisconnect(t) ==
    /\ Holds(t, "disconnect")
    /\ left[t] > 0
    /\ tip # Genesis
    /\ DisconnectTip
    /\ left' = [left EXCEPT ![t] = @ - 1]
    /\ UNCHANGED <<indexVars, candidates, lockVars, csMain, pc, blk, most, oldTip>>

\* Mistake: ActivateBestChain is not called.
ReprocessForgets(t) ==
    /\ Holds(t, "disconnect")
    /\ left[t] = 0 \/ tip = Genesis
    /\ Return(t)
    /\ UNCHANGED <<indexVars, candidates, chainVars, lockVars>>

\* Done, or at the root, which has no undo data: its DisconnectTip fails and the
\* result is ignored.
ReprocessFinish(t) ==
    /\ Holds(t, "disconnect")
    /\ left[t] = 0 \/ tip = Genesis
    /\ left' = [left EXCEPT ![t] = 0]
    /\ Release(t, "activate")
    /\ UNCHANGED <<indexVars, candidates, chainVars, lockVars, blk, most, oldTip>>

---------------------------------------------------------------------------
(* The specification.                                                      *)

\* ActivateBestChain once it has been entered.
Activation(t) ==
    \/ TryLock(t)
    \/ FindDrop(t)
    \/ FindNone(t)
    \/ FindPick(t)
    \/ StepDisconnect(t)
    \/ StepConnect(t)
    \/ StepConnectFails(t)
    \/ LoopTest(t)

Accept(t) ==
    \/ AcceptTurnedAway(t)
    \/ AcceptDuplicate(t)
    \/ AcceptInvalid(t)
    \/ AcceptStakeSpent(t)
    \/ AcceptStore(t)

\* What a thread does to finish a call it has begun.
Continue(t) ==
    \/ Accept(t)
    \/ Activation(t)
    \/ InvalidateDisconnect(t)
    \/ InvalidateFinish(t)
    \/ ReprocessBegin(t)
    \/ ReprocessDisconnect(t)
    \/ ReprocessFinish(t)

\* Calls that arrive.
Begin(t) ==
    \/ \E b \in Blocks : ReceiveBlock(t, b) \/ RefuseBlock(t, b)
    \/ \E b \in Invalidatable : Invalidate(t, b) \/ Reconsider(t, b)
    \/ \E n \in ReprocessDepths : Reprocess(t, n)

\* Every thread is idle: the node waits for the next message or call.
Rest == (\A t \in Threads : pc[t] = "idle") /\ UNCHANGED vars

Next ==
    \/ \E t \in Threads : Begin(t) \/ Continue(t)
    \/ \E t \in Threads, b \in Blocks : ReprocessReconsider(t, b)
    \/ \E S \in SUBSET Lockable : ChangeLocks(S)
    \/ Rest

Spec == Init /\ [][Next]_vars

\* A thread that has begun a call is not stopped, and cs_main is handed over to each
\* thread that keeps asking for it.
Fairness == \A t \in Threads : SF_vars(Continue(t))

FairSpec == Spec /\ Fairness

---------------------------------------------------------------------------
(* What is checked.                                                        *)

TypeOK ==
    /\ known \subseteq Blocks /\ data \subseteq Blocks /\ linked \subseteq Blocks
    /\ scripts \subseteq Blocks
    /\ failedValid \subseteq Blocks /\ failedChild \subseteq Blocks
    /\ seq \in [Blocks -> Nat] /\ nextSeq \in Nat
    /\ unlinked \subseteq Blocks /\ candidates \subseteq Blocks
    /\ tip \in Blocks
    /\ coins \subseteq Outpoints
    /\ stakeSpent \in [Outpoints -> Nat \cup {Absent}]
    /\ refused \subseteq Blocks /\ rejected \subseteq Blocks
    /\ csMain \in Threads \cup {NULL}
    /\ pc \in [Threads -> PCs]
    /\ blk \in [Threads -> Blocks \cup {NULL}]
    /\ most \in [Threads -> Blocks \cup {NULL}]
    /\ oldTip \in [Threads -> Blocks \cup {NULL}]
    /\ left \in [Threads -> Nat]

\* The index agrees with itself in every state, as CheckBlockIndex asserts: a block is
\* linked (nChainTx) exactly when it and all its ancestors are stored, mapBlocksUnlinked
\* holds exactly the stored blocks that miss an ancestor, and only linked blocks are
\* candidates for the tip.
IndexConsistent ==
    /\ data \subseteq known
    /\ \A b \in known : Chain[b] \subseteq known
    /\ linked = {b \in Blocks : Chain[b] \subseteq data}
    /\ unlinked = data \ linked
    /\ candidates \subseteq linked
    /\ \A b \in scripts : Chain[b] \ {Genesis} \subseteq scripts

\* FindMostWorkChain stops at the active chain "as we know all blocks in it are valid
\* already": whenever cs_main is free, every block of the active chain is stored, was
\* connected, and none is marked failed.
ActiveChainValid ==
    /\ tip \in linked
    /\ Chain[tip] \ {Genesis} \subseteq scripts
    /\ csMain = NULL => Chain[tip] \cap Failed = {}

\* mapStakeSpent describes spends of the active chain only: an entry left behind by a
\* disconnected block would let a coinstake of a fork pass, or fail, on a spend that is
\* no longer there.
StakeSpentSound ==
    \A o \in Outpoints :
        stakeSpent[o] # Absent =>
            \E b \in Chain[tip] : o \in Spends[b] /\ Height[b] = stakeSpent[o]

Quiet == \A t \in Threads : pc[t] = "idle"

\* When every call has returned the tip is the only candidate there may be: no lock, no
\* reconsiderblock, no invalidateblock and no ReprocessBlocks leaves one behind that nobody
\* looks at, in whatever order they come between the steps of ActivateBestChain.
NoCandidateLeft == Quiet => candidates \subseteq {tip}

\* CheckBlockIndex, with no call in progress: the candidates are exactly the linked
\* blocks that are not worse than the tip, those below a failed block apart.
CandidatesExact ==
    Quiet => \A b \in linked :
                IF Worse(seq, b, tip)
                THEN b \notin candidates
                ELSE Chain[b] \cap failedValid = {} => b \in candidates

\* When every call has returned, the tip is at least as good as any linked block with
\* no failed block on its chain: no interleaving of calls leaves a better chain unused.
MostWorkActive ==
    Quiet => \A b \in linked : Chain[b] \cap Failed = {} => ~Worse(seq, tip, b)

\* Every call returns: neither cs_main, nor the retry loop of ActivateBestChain, nor
\* the candidates another thread adds meanwhile, keeps a thread busy for ever.
CallsReturn == \A t \in Threads : pc[t] # "idle" ~> pc[t] = "idle"

\* A linked block whose whole chain is valid is activated in the end, unless the tip
\* is at least as good.
Deserves(b) ==
    /\ b \in linked
    /\ SoundChain(b)
    /\ Chain[b] \cap BadContext = {}

BestChainActivated == \A b \in Blocks : Deserves(b) ~> ~Worse(seq, tip, b)

\* The active chain and the coins move as an append-only ledger with undo.
L == INSTANCE Ledger

ImplementsLedger == L!Spec

=============================================================================
