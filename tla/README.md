# A TLA+ model of the Transcendence node

This directory holds a formal model of parts of `transcendenced`
(a Bitcoin/PIVX descendant, C++), the TLC runs that check it on small instances
and the theorems about it that TLAPS proves for all instances. Paths such as
`main.cpp` are below `src/src/` of the repository.

```
tlc -workers 2 -config ChainState_core.cfg MCChainState     # a run
tlapm ChainState_proofs.tla                                 # a proof
```

`PROJECT.json` lists the runs with their properties, the source lines each
definition is translated from ("map"), the mistakes each property was seen to
catch ("mutants"), and the hazards with the properties that answer them.

## 1. The system and its components

One process, many threads: the message handler (`ThreadMessageHandler` ->
`ProcessMessages` -> `ProcessMessage`), the RPC and HTTP workers, the staker and
the miner, the script check workers, the import thread, and the
Obfuscation thread, which drives masternode housekeeping once a second.
`cs_main` guards the block index, the active chain and the coins; almost
everything else has a lock of its own or none.

| component | state | operations | what is hard | what makes it correct |
|---|---|---|---|---|
| **block index and active chain** (`main.cpp`, `chain.h`) | `mapBlockIndex` with the status of each entry, `mapBlocksUnlinked`, `setBlockIndexCandidates`, `chainActive`, `mapStakeSpent`, `mapRejectedBlocks` | `ProcessNewBlock`, `AcceptBlock`, `ActivateBestChain`, `InvalidateBlock`, `ReconsiderBlock`, `ReprocessBlocks` | blocks before their ancestors; reorganisations that fail half-way; `cs_main` given up between the steps of one; calls of other threads in between | the index agrees with what is stored; the active chain is valid; the best valid chain is active when every call has returned; every call returns |
| **coin database and caches** (`coins.cpp`, `txdb.cpp`) | database, `pcoinsTip`, scratch views, DIRTY and FRESH flags, best block at each level | `GetCoins`, `ModifyCoins`, `BatchWrite`, `Flush` | flags that let a flush forget; crashes; failing writes | the caches do not show; coins and best block belong together |
| **SwiftTX locks** (`swifttx.cpp`) | `mapTxLockReq`, `mapTxLocks`, `mapLockedInputs`, `mapTxLockVote` | `ix` and `txlvote` messages, expiry | votes before requests, votes repeated, conflicts, expiry in another thread without a lock | a vote counts once; two conflicting transactions are both locked only if masternodes voted for both, and the node's own masternode does so only when it has lost one of them |
| **sporks** (`spork.cpp`) | `mapSporks`, `mapSporksActive`, the spork database | `spork` and `getsporks` messages, `UpdateSpork`, `ReprocessBlocks` | reordering, restart | the newest signed value wins, also after a restart |
| **memory pool and orphans** (`txmempool.cpp`, `main.cpp`) | `mapTx`, `mapNextTx`, `mapOrphanTransactions` | accept, remove, `removeForBlock`, conflicts, return after a disconnect | connect and disconnect against arrivals | no two pool transactions spend one output; `mapNextTx` is exact |
| **masternode synchronisation** (`masternode-sync.cpp`) | the asset, attempts, fulfilled requests per peer, time stamps | `Process`, `AddedMasternodeList`, ... | timeouts against late answers, resets | it ends, and no asset is skipped in silence |
| **masternode list** (`masternodeman.cpp`, `masternode.cpp`) | `vMasternodes`, seen broadcasts and pings, who was asked for what | broadcasts, pings, `CheckAndRemove` | expiry, order | an entry is removed only when its ping or collateral is gone |
| **payments and budgets** (`masternode-payments.cpp`, `masternode-budget.cpp`) | votes per height, finalized budgets, orphan votes | votes, `IsTransactionValid` | votes out of order | one vote per masternode and height |
| **script check queue** (`checkqueue.h`) | `queue`, `nIdle`, `nTotal`, `nTodo`, `fAllOk` | `Add`, `Wait`, worker loop | lost wake-ups | `Wait` returns, with the conjunction of all results |
| **index on disk, start and stop** (`main.cpp`, `txdb.cpp`, `init.cpp`) | `setDirtyBlockIndex`, block index database, coin database, flag "shutdown" | `FlushStateToDisk`, `PrepareShutdown`, `LoadBlockIndexDB`, `VerifyDB` | crashes and failing flushes between any two writes | the coins' chain is in the index on disk; a start rebuilds the index and finds the best chain |
| **HTTP work queue** (`httpserver.cpp`) | `queue`, `running`, `numThreads` | `Enqueue`, `Run`, `Interrupt`, `WaitExit` | depth limit, shutdown | no item is lost while running, shutdown ends |
| **peers and block download** (`net.cpp`, `main.cpp`) | `mapNodeState`, `mapBlocksInFlight`, `nSyncStarted`, `hashContinue`, `setInventoryKnown` | `inv`, `getblocks`, `getdata`, `block`, `SendMessages`, `FinalizeNode` | late answers, stalling peers, connections that end, blocks whose parents are unknown | what is in flight is known exactly; a connected honest chain is fetched |
| **address manager** (`addrman.cpp`) | new and tried tables | add, good, select | consistency of five indexes | every index agrees |
| mining and staking (`miner.cpp`, `kernel.cpp`) | a block template, `mapHashedBlocks` | `CreateNewBlock`, `ProcessBlockFound` | the tip moves while hashing | a stale block is not submitted |
| scheduler, mixing, wallet, zerocoin, alerts, checkpoints, scripts, serialisation, RPC, GUI | | | | see section 7 |

How they meet in what is modelled so far: `SendMessages` asks peers for blocks;
a `block` message, `submitblock` or a block of the node's own staker enters
`ProcessNewBlock`; `CheckBlock` asks
SwiftTX for locked inputs before `cs_main` is taken; `AcceptBlock` writes the
index; `ActivateBestChain` moves the active chain, one `ConnectTip` or
`DisconnectTip` at a time, each over a scratch view of `pcoinsTip` that is
flushed into it, hands its script checks to the check queue, and takes
transactions out of the memory pool or puts them back; `FlushStateToDisk` writes
dirty index entries and then flushes `pcoinsTip` into the database, which is
what a start finds; a completed transaction lock calls `ReprocessBlocks`, which
reconsiders rejected blocks and disconnects some. Masternode synchronisation
waits for a recent tip, and SwiftTX ignores every message until there is one.

## 2. Modules

```
BlockTree            the tree of blocks, as constants with assumptions
  Ledger             abstract: a chain of blocks with undo and its unspent outputs
  ChainState         main.cpp: index, candidates, active chain, threads   => Ledger
    MCChainState     small trees for TLC
    ChainDisk        the same node with its disk: flushes, crashes, starts
      MCChainDisk    two branches, an entry written before its parent's
      ChainDisk_proofs  what is on disk is enough; a start finds the best chain
    ChainState_proofs  chains and coins, invariants, refinement, no double
                     spend, the best chain
  Mempool            txmempool.cpp, orphans: the pool beside a moving chain
    MCMempool        two branches that confirm different transactions
    Mempool_proofs   the assertions of CTxMemPool::check
  BlockSync          main.cpp: block download, and peers that serve blocks
    MCBlockSync      a node on another branch than its peers
    BlockSync_proofs requests in flight, counts, last common blocks
CoinStore            abstract: flat maps, a copy on commit, save and restart
CoinsCache           coins.cpp, txdb.cpp: caches with flags               => CoinStore
  MCCoinsCache       two transactions, three block states
  CoinsCache_proofs  invariants, refinement
SwiftTX              swifttx.cpp: requests, votes, locks, expiry, three threads
  MCSwiftTX          two or three transactions in conflict
  SwiftTX_proofs     invariants, what two conflicting locks take
CheckQueue           checkqueue.h: the master, the workers, one mutex
  MCCheckQueue       two workers and three checks
  CheckQueue_proofs  the verdict, the assertion of CCheckQueueControl
MasternodeSync       masternode-sync.cpp: stages, peers asked, timeouts, Reset
  MCMasternodeSync   one connection at a time
  MasternodeSync_proofs  what a stage was left with
```

Operators whose comment begins with "Mistake:" are not part of the model. Each
is a form of the definition after it with a plausible bug; putting it in that
definition's place makes the property named in `PROJECT.json` fail.

### BlockTree

A block is its hash, so the tree of all blocks a node can meet is fixed before
it starts. `Parent` is `pprev`, `Work` is `nChainWork`, `Addr` is the address of
the `CBlockIndex`, which `CBlockIndexWorkComparator` uses as its last tie
breaker. `Chain[b]` (b and its ancestors) is a constant constrained by
`TreeAssumption`, not a recursive operator, so that it can be reasoned about.
Coins are abstract outpoints with the block that creates and the blocks that
spend them. Two blocks of different branches may spend the same outpoint; two
blocks of one chain may too (the second is then invalid).

### ChainState

| variable | code |
|---|---|
| `known`, `data`, `linked`, `scripts`, `failedValid`, `failedChild`, `seq` | `mapBlockIndex` and, of its entries, BLOCK_HAVE_DATA, `nChainTx != 0`, BLOCK_VALID_SCRIPTS, the two failure bits, `nSequenceId` |
| `nextSeq`, `unlinked`, `candidates` | `nBlockSequenceId`, `mapBlocksUnlinked`, `setBlockIndexCandidates` |
| `tip`, `coins`, `stakeSpent` | `chainActive.Tip()`, `pcoinsTip`, `mapStakeSpent` |
| `refused`, `rejected` | what `CheckBlock` would refuse for `mapLockedInputs` now; `mapRejectedBlocks` |
| `csMain`, `pc`, `blk`, `most`, `oldTip`, `left` | the holder of `cs_main` and the program counter and locals of each thread |

One action is what a thread does without `cs_main`, or one iteration of a loop
under it:

| actions | code |
|---|---|
| `ReceiveBlock`, `RefuseBlock` | `ProcessMessage("block")` or `submitblock`, then `CheckBlock` without `cs_main` |
| `AcceptTurnedAway`, `AcceptDuplicate`, `AcceptInvalid`, `AcceptStakeSpent`, `AcceptStore` | `AcceptBlock` with `AcceptBlockHeader`, `AddToBlockIndex`, `ContextualCheckBlock`, the coinstake check and `ReceivedBlockTransactions`: one action per way out |
| `TryLock`, `FindDrop`, `FindNone`, `FindPick` | `ActivateBestChain` takes the lock; one round of `FindMostWorkChain` |
| `StepDisconnect`, `StepConnect`, `StepConnectFails` | one `DisconnectTip` or `ConnectTip` of `ActivateBestChainStep`, with `PruneBlockIndexCandidates` |
| `LoopTest` | the loop condition of `ActivateBestChain`, which reads the tip without the lock |
| `Invalidate`, `InvalidateDisconnect`, `InvalidateFinish`, `Reconsider` | the RPC commands and what they call |
| `Reprocess`, `ReprocessReconsider`, `ReprocessBegin`, `ReprocessDisconnect`, `ReprocessFinish` | `ReprocessBlocks` and `DisconnectBlocksAndReprocess` |
| `ChangeLocks` | locks that complete and expire in other threads |

Abstracted: a block connects when the outputs it spends are unspent and it is
not refused for a lock (scripts, amounts and rewards are one more way to fail,
with the same effect). `ContextualCheckBlock` is the constant `BadContext`. The
window of `ReprocessBlocks` (mapRejectedBlocks entries not older than a time
stamp) is a choice. Left out: failing disk operations, pruned block files,
checkpoints, warnings and notifications, chain trust and stake modifiers.

### CoinsCache

`disk`, `diskBest` are the LevelDB entries and key `'B'`; `tip`, `hashBlock`
are `pcoinsTip`; `view[v]` is a scratch view on some thread's stack. An entry is
a value with the two flags, or `None`. `Read` and `ReadTip` are `FetchCoins`;
`Modify` is `ModifyCoins` with the destructor of the `CCoinsModifier`; `Commit`
is `SetBestBlock` and `Flush` at the end of `ConnectTip` and `DisconnectTip`
(`BatchWrite` per entry is `Merged`); `Save` is `pcoinsTip->Flush()`; `Restart`
is a crash at any point and the start after it. `SaveFails` belongs to
`FailSpec` only. Views may be nested, as when `CreateNewBlock` calls
`TestBlockValidity` while its own view is open; only the single view of
`ConnectTip` or `DisconnectTip` is ever flushed.

### SwiftTX

One node, which may run a masternode (`Me`), sees lock requests and votes from
a network that loses, repeats and reorders them.

| variable | code |
|---|---|
| `request`, `rejected` | `mapTxLockReq` (whose entry may be an empty transaction, made by `mapTxLockReq[...]`), `mapTxLockReqRejected` |
| `lock` | `mapTxLocks`: height, counted votes, and whether `nExpiration` has passed |
| `votes`, `locked` | the keys of `mapTxLockVote`, `mapLockedInputs` |
| `pool`, `mined` | the memory pool and the active chain, as sets of transactions |
| `signed` | what this node's masternode has signed, before a restart too: the network may still deliver it |
| `lost` | history: what this node voted for and no longer holds, because the pool was emptied, a block was undone or the node restarted |
| `pc`, `subject`, `height`, `cleaning` | where the message handler and `CleanTransactionLocksList` are |

| actions | code |
|---|---|
| `RequestArrives`, `AcceptRequest`, `RequestAccepted`, `RequestRefused` | the `ix` branch of `ProcessMessageSwiftTX`, cut where it takes and releases `cs_main` |
| `VoteArrives`, `DropVote`, `CountVote` | the `txlvote` branch: remember, then check and count in `ProcessConsensusVote`, with `CheckForConflictingLocks` |
| `Expire`, `CleanRequest`, `CleanLock` | an hour passes; `CleanTransactionLocksList` in the Obfuscation thread |
| `WalletRequest` | `CommitTransaction` and `RelayWalletTransaction("ix")` |
| `TxArrives`, `Mine`, `Undo` | a `tx` message; a block with the transaction that is connected, and one that is disconnected |
| `ClearPool` | `mempool.clear()` in `CreateNewBlock`, when its block is not valid |
| `Restart` | a stop or crash and the next start: the maps and the pool are gone, and the chain may be shorter |

What other masternodes vote for is not restricted (`Sent`): a vote is made from
the pool of the moment (`DoConsensusVote` looks at no earlier vote), and pools
are emptied, as this node's is.

No lock guards these maps (`wallet.cpp` holds `cs_main`, the message handler
and the Obfuscation thread do not). What two threads do inside one
`std::map` call is undefined behaviour, which a map can only corrupt; each call
is taken to be atomic and what happens between calls is modelled. Also taken as
given: the masternodes that rank among the first
SWIFTTX_SIGNATURES_TOTAL at a height (`Top`) are the same for every node, and
that a transaction spends only outputs that are mined. `CheckBlock`'s lock filter is not a guard of
`Mine`: it may be off, and locks may complete after it ran. `ReprocessBlocks`,
which a complete lock calls, is in `ChainState` as `Reprocess`, and the inputs
a lock holds are there as `ChangeLocks`.

### ChainDisk

`ChainDisk` EXTENDS `ChainState`: the steps of the node are the same actions,
each with what it leaves dirty and what it writes. Locks and `ReprocessBlocks`
are not among them; they leave nothing else on disk.

| variable | code |
|---|---|
| `best` | `pcoinsTip->GetBestBlock()`, which is not the tip between a failed flush and the end of the process |
| `dirty`, `hollow`, `high` | `setDirtyBlockIndex`; entries that `InsertBlockIndex` made for a parent that is not on disk; `vinfoBlockFile[nLastBlockFile].nHeightLast` |
| `disk`, `dBest`, `dHigh`, `clean` | entries of the index database, the best block of the coin database, the file information, the flag "shutdown" |
| `phase` | the process runs, repairs, or how it ended |

| actions | code |
|---|---|
| `DAccept`, `Arrives`, `Marks`, `DFindDrop`, `DConnectFails` | steps of `ChainState` that only dirty entries; `FindMostWorkChain` sets BLOCK_FAILED_CHILD without even that, and `ConnectBlock` writes its entry at once (`DirectWrite`) |
| `DConnect`, `DDisconnect`, `DLoopEnds` | the steps that call `FlushStateToDisk`: if needed, always, periodically |
| `DConnectAborts`, `DDisconnectAborts`, `FlushFails` | the flush stops after some of its writes; the coins have moved in memory and the tip has not |
| `AssertFails`, `Crash`, `Shutdown` | the assertion on `GetBestBlock()` in `ConnectBlock`; an end anywhere; `PrepareShutdown`, whose flush may fail |
| `Restart`, `RestartRepairs`, `Repaired`, `NotRepaired` | `LoadBlockIndexDB` with the rest of `AppInit2`, without and with the repair after an unclean end |

Index entries are written one by one in the order of a set of pointers, that is
of `Addr`; a flush stops after any prefix of them, the one of `PrepareShutdown`
included. `DConnectAborts` counts the entry that `ConnectBlock` has written by
then. Left out: `submitblock` of a block whose entry is hollow; file information
that cannot be read, after which `LoadBlockIndexDB` goes on without it; entries
that `TestBlockValidity` leaves in the index database for block templates, of
which a start makes headers without data; and that entries get new addresses in
every run of the process.

### Mempool

| variable | code |
|---|---|
| `tip`, `best` | `chainActive.Tip()`; the block of `pcoinsTip`, which is the parent while `DisconnectTip` puts transactions back |
| `pool`, `nextTx` | `mapTx`, `mapNextTx` |
| `undo` | what `DisconnectTip` still has to offer to the pool |
| `orphans`, `byPrev`, `loop` | `mapOrphanTransactions`, `mapOrphanTransactionsByPrev`, the locals of the `tx` handler |

`AcceptLocal` is every call of `AcceptToMemoryPool` by this node itself;
`Tx`, `NextParent`, `TryOrphan` and `FinishOrphans` are the `tx` handler;
`ConnectTip`, `DisconnectTip`, `Resurrect` and `FinishDisconnect` are what the
chain does to the pool; `ClearPool` is `CreateNewBlock`'s `mempool.clear()`;
`PeerGone` is `EraseOrphansFor`. The coins are `UnspentAt(best)`, which is what
`ChainState` is proved to keep. That a fitting transaction is refused for a fee,
a script, a lock or its size is a choice.

### BlockSync

| variable | code |
|---|---|
| `index`, `data`, `tip` | `mapBlockIndex`, entries with BLOCK_HAVE_DATA, the tip |
| `conn`, `leaving` | `mapNodeState`, `fDisconnect` |
| `best`, `unknown`, `common`, `started`, `stalling`, `flight`, `asked` | the fields of `CNodeState`, and the hashes this peer was asked for by `getdata` |
| `inFlight`, `nSync`, `nQueued` | `mapBlocksInFlight`, `nSyncStarted`, `nQueuedValidatedHeaders` |
| `peerTip`, `known`, `toSend`, `continue` | of the peer: its tip, `setInventoryKnown`, `vInventoryToSend`, `hashContinue` |
| `toPeer`, `toNode` | the two directions of the connection, in order |

The node runs `ReceiveInv`, `ReceiveBlock`, `SubmitBlock`, `SendMessages`,
`TimeOut` and `FinalizeNode`; a peer, which runs the same program, runs
`ServeGetBlocks`, `ServeGetData` and `Announce`, and finds blocks (`FindBlock`).
`Connect` and `Lose` begin and end connections, with whatever was on its way.
All blocks are valid. The node may still refuse one in two ways: a header that
forks off more than `-maxreorg` below the tip leaves nothing behind
(`TooDeep`), and the coinstake check (`Refused`) leaves the header. How much
that check sees depends on `mapStakeSpent`, which may hold all spends of the
active chain or, after pruning or a start, some of them (`MayRefuse`).
Checkpoints are left out; a header one forbids has the effect of one that forks
off too deep.

### CheckQueue

The variables are the members of `CCheckQueue` (`queue`, `nTotal`, `nIdle`,
`nTodo`, `fAllOk`) and, of each thread, its place, its batch `vChecks` and `fOk`.
An action is one critical section of `Loop`: it begins where the thread holds
the mutex (again) and ends where it waits or goes off to work, so the end of one
batch and the beginning of the next are one action (`Take`, after `AllOkNow`,
`TodoNow`, `TotalNow`). `Work` is the part without the mutex. `WakeUp` is a
spurious wake-up and `Interrupt` that of `threadGroup.interrupt_all`: an
interrupted worker is gone, an interrupted master runs the destructor of its
control, which waits again.

### MasternodeSync

| variable | code |
|---|---|
| `stage`, `attempt`, `late` | `RequestedMasternodeAssets`, `RequestedMasternodeAttempt`, `nAssetSyncStarted` is 25 seconds ago |
| `last`, `seen` | the time stamps of the last item (never, fresh, older than ten seconds) and the counts of a repeated item |
| `retry`, `syncCount` | `lastFailure` is a minute ago; the resynchronisations of a node that knows no masternode |
| `connected`, `fulfilled` | `vNodes` and their fulfilled requests |
| `pc`, `resetting`, `torn` | where two threads are in `GetNextAsset` and `Reset`, which no lock protects |

`Process` is `Resync`, `Retry`, `Begin` and one visit of a peer: `AskForSporks`,
`Leave`, `TimeOut` or `AskForItems`. `GetNextAsset` reads the stage (`Switch`)
and writes what goes with it (`Store`); `Reset` clears the items (`ResetItems`)
and then the stage (`ResetStage`). The message handler's calls are `Added`;
`Forget` is what `CheckAndRemove` and the clean-up of payments do to the counts
of items seen (`mapSeenSyncMNB` and the like); the clock is `TenSeconds`,
`StageIsOld` and `AMinutePasses`.

## 3. Runs

| run | question | instance |
|---|---|---|
| `chain_core` | Does the node follow the best valid chain, whatever the order blocks arrive in, with two threads that submit them, and do calls end? | eight blocks, four branches from the root: an invalid block that shows only when its branch is connected (C2, after A1), a coinstake on an output of its own branch (B2) and on one of the root (A2), a block with a bad context (D1); one network and one RPC thread; `-maxreorg` 2. Liveness under `FairSpec` |
| `chain_rpc` | Are the index and the active chain right, do chain and coins move together, and is no candidate left untried, under `invalidateblock`, `reconsiderblock`, `ReprocessBlocks` and locks that come and go? | five blocks, two branches of two; A1 can be locked against and invalidated; depths 0 and 1 |
| `coins_flags` | Do the flags mean what `coins.h` says; are the caches invisible, across restarts? | two transactions, two views, three block states that differ in both transactions |
| `coins_savefails` | Does the database's best block name its coins when a write can fail? | the same; violated, section 6 |
| `swift_locks` | What does it take that two conflicting transactions are both locked, and can a vote count twice? | tx1 and tx2 spend the same output, either may be requested; three masternodes, any two of which make a lock, vote as they like; blocks undone, the pool emptied, restarts; masternodes are symmetric, and so are the transactions |
| `swift_own` | When does this node's masternode vote for two conflicting transactions, and can a vote count twice when votes of two heights mix? | tx1 spends two outputs, tx2 and tx3 one of them each; requests for tx1 and tx2, tx2 of this node's wallet; the inputs of tx1 may look unknown or too young, so that its requests and votes have height 0; this node's masternode is the only one and its vote makes a lock; the same events |
| `swift_expire` | Is an input ever released after its lock's hour? | tx1 and tx2, two masternodes, no wallet request, under `FairSpec`; violated, section 6 |
| `checkqueue` | Is the verdict right, the queue idle between blocks, and does `Wait` return? | two workers, three checks of which one fails, batches of at most two; every thread may be interrupted once. Liveness under `FairSpec` |
| `mempool` | Could the pool be mined after every step of a reorganisation, and are its indexes exact? | ten transactions: conflicts, chains of three, a coinbase and its spend (maturity 2), two zerocoin spends of one serial; two branches of two blocks; two peers, at most two orphans |
| `chain_disk` | Is what is on disk enough to start again, wherever the process ends? | seven blocks: branches of three and two, one block with a bad context, one to invalidate, an entry written before its parent's; two ends of the process, one failing flush; `VerifyDB` over no block or two |
| `block_sync` | Is every request known, and does one peer suffice to catch up? | seven blocks, a node that starts at the root or on another branch, at its first block or at its second, from where the peers' branch is too deep to change to (`-maxreorg` 1); two peers, one preferred; batches of two, window 2, one block in transit per peer; two connections in all, two blocks found or submitted. Liveness under `FairSpec` |
| `mn_sync` | Is a stage passed only with what it is for, and does none last for ever? | one connection at a time, items of the list and the winners that may be forgotten and come again, one resynchronisation. Liveness under `FairSpec` |

Why the bounds are enough. The cases a reorganisation can meet need two
branches that overtake each other (so a branch of three against one of two), an
invalid block above a valid one (so that a failing step has already
disconnected blocks), a block that arrives before its parent (an RPC thread may
offer any block) with a descendant above it, and a fork at the depth limit. All
of them occur in the eight-block tree of `chain_core`; the invalidation commands are tried on
the five-block one, where every combination of failure marks on two branches is
reached. Two threads are enough for the hand-over of `cs_main` between steps,
since only its holder can change the chain; what a third thread could add is
covered by the proofs, which hold for any number. No counter needs a bound:
blocks are finite and each gets a sequence number once. For the cache, one transaction would do
for the flags; the second makes the best block a statement about more than one
entry, and the second view the nesting. For the locks, two transactions
conflict directly; tx3 gives a block that makes tx1 impossible and leaves tx2
alive, so that a masternode may vote for tx2 after tx1. Two votes of three
masternodes is the smallest quorum system whose quorums differ and still
intersect, as 6 of 10 do, and both locks do complete in `swift_locks`, with a
masternode that voted for both. What this node itself votes for does not depend
on how many others there are: in `swift_own` it is alone, and since a node does
not count its own vote when it makes it (`RequestAccepted`), only when it comes
back from the network, locks complete early, late or never.
Votes of two heights, 0 and the right one, appear there. Votes, locks and
requests may expire and come again without bound; the state stays finite because
votes and locks are sets.

For the check queue, two workers give a batch taken by each while the master is
asleep, adds, or joins; three checks in batches of two give a queue that is not
emptied at once. For the pool, the longest chain of spends that crosses a block
boundary has three transactions; conflicts are direct, by a common descendant
and by serial number. Two ends of the process give a crash during what a start
after a crash does; a second failing flush can only follow an end, where memory
is read from disk again. Two connections give one that breaks and one that
takes over, or two at a time; batches of two make the four blocks of the
longer branch two batches, and the window of two is shorter than that branch.
In MasternodeSync peers differ only by what they were asked for, so that a peer
that comes again stands for another one; two connections at a time add only an
order of visits, since `Process` stops at the first peer it asks.
`MaxResync`, `MaxConnections`, `MaxFound`, `MaxDowns`, `MaxAborts` are the bounds
that appear in guards; the first is 2 in the code.

`chain_disk` does not check for deadlock because a start whose assertion fails
leaves the node down, and `block_sync` because connections and new blocks run
out.

`Rest` lets the node wait when every thread is idle, so that TLC reports a
deadlock only if a call is stuck. SwiftTX has the same. CoinsCache can always
restart.

## 4. Fairness

`Fairness` is strong fairness of `Continue(t)` for each thread: a call that was
begun is not stopped, and a thread that asks for `cs_main` again and again gets
it. Weak fairness would not do: between two steps of thread t another thread
takes the lock, so t's next action is disabled again and again. Boost's
recursive mutex promises no order of waiters, but every holder releases it
after bounded work and the operating system wakes waiters, which is what strong
fairness states. Nothing is assumed of `Begin`, of locks or of expiry: messages
and calls need never come. In the run with liveness no locks change and no
block is invalidated, so nothing but the code itself decides whether the best
chain is reached.

In SwiftTX, `Fairness` is weak fairness of the message handler (it finishes what
it began), of `Expire` for each lock (time passes) and of the Obfuscation
thread's `CleanRequest` and `CleanLock` (`ThreadCheckObfuScationPool` loops for
ever and cleans every 60 rounds). No message need come.

In CheckQueue, each thread that is not in a wait goes on (weak fairness of
`Step`): the mutex is held for bounded work only. Nothing is assumed of workers
that have not started, so `WaitReturns` says that the master needs none.

In BlockSync, the message handlers, `SendMessages`, `FinalizeNode` and the
serving side of each peer are weakly fair: all are loops of a thread that runs
for ever (`ThreadMessageHandler`, `ThreadSocketHandler`). Nothing is assumed of
connections, timeouts, new blocks or `submitblock`.

In MasternodeSync, `Process` is called every five seconds and time passes, which
is weak fairness. The visit of a peer has strong fairness: a connection that
comes again and again lasts, some time, until `Process` looks at it. That is an
assumption on the network, not on the code: peers that always leave within five
seconds would keep the node where it is. `NoStageForever` also assumes that
items are forgotten (`Forget`) finitely often. An item that is removed from the
list and its counts, comes back and is removed again without end would renew the
time stamp each time, and the node would stay; removal takes an expired or spent
masternode, so this is slow and needs someone who keeps sending it.

## 5. Properties and proofs

Checked and proved:

* **IndexConsistent** - what `CheckBlockIndex` asserts of `nChainTx`,
  `mapBlocksUnlinked` and the candidates, in every state and not only when the
  check is called.
* **ActiveChainValid** - whenever `cs_main` is free, no block of the active
  chain is marked failed. `FindMostWorkChain` relies on it: it stops walking at
  the active chain.
* **StakeSpentSound** - every entry of `mapStakeSpent` describes a spend on the
  active chain at that height.
* **ImplementsLedger** - chain and coins move as `Ledger` allows, however calls
  interleave and fail, and however many blocks `ReprocessBlocks` and
  `InvalidateBlock` take off; with it **NoDoubleSpend** on the active chain.
* **FlagsSound**, **FlushAssertion**, **BestBlockNamesState**,
  **ImplementsCoinStore** - the caches; the second is the assertion in
  `CCoinsViewCache::BatchWrite`.
* **CountedOnce** - a masternode counts once in a lock, whatever is repeated,
  and whatever the Obfuscation thread forgets between two steps of the handler.
* **ConflictsShareVoters** - two conflicting transactions are not both locked at
  one height unless masternodes of their quorum, at least two of the ten,
  voted for both, and `mapTxLockVote` of this node shows which. The case itself
  is possible, as `swifttx.cpp:386` says: a masternode votes for what its pool
  takes at the moment, whatever it voted for before, so a pool that is emptied,
  a restart or a disconnected block is enough.
* **OwnVotesAgree** - this node never votes for two conflicting transactions that
  can both be mined unless one of them was lost (`lost`) in one of these ways.
  Neither an expired lock, nor a refused request, nor a vote of height 0 is
  enough: the pool still holds the first transaction.
* **CoinsIndexed** - wherever a flush or the process stops, each block of the
  coin database's chain has its entry, data and undo data on disk.
* **CleanEntries** - what is not dirty is on disk as it is in memory, but for
  the mark `FindMostWorkChain` sets.
* **NextTxExact**, **InputsAvailable** - what `CTxMemPool::check` asserts, in
  every state in which it could be called and not only with `-checkmempool`.
* **NoImmatureSpend**, **NotConfirmed** - the pool stays minable when coinbases
  become immature again and when the pool could not recognise a transaction
  of the chain by its coins.
* **OrphanIndex** - the orphan maps are exact inside the handler's loop too, so
  `mapOrphanTransactions[...]` never makes an entry.
* **VerdictSound**, **IdleAssertion** - `Wait` returns the conjunction of the
  checks, and the assertion in `CCheckQueueControl` never fails.
* **InFlightExact**, **SyncCountExact**, **LastCommonIsFull**, **StallerOwes** -
  the lists of requests agree, the count of peers being synchronised from is
  exact, what lies below a last common block is there, and only a peer that
  owes a block can be dropped for stalling.
* **NoCandidateLeft** - when every call has returned, no candidate but the tip
  is left: nobody stopped looking too early, although `cs_main` is given up
  between the steps and the loop condition is read without it. No condition on
  locks or commands.
* **CandidatesExact**, **MostWorkActive** - the candidates are those
  `CheckBlockIndex` demands, and no usable block is better than the tip. Proved
  under `Calm` and `MarksStay`, see below; **PlainNode** needs neither.
* **Rebuilt** - a start gives back `nChainTx`, `mapBlocksUnlinked` and
  candidates, wherever the process ended.
* **StakeSpentKept** - `mapStakeSpent`, as `VerifyDB` fills it, tells of nothing
  that is not on the chain.
* **BestAfterRestart** - no usable block is better than the chain a start ends
  at. Proved under `OffChain`, see below; **PlainRestarts** without it, for a
  node on which no block is invalidated.
* **AssetsEarned** - where payments are enforced, masternode synchronisation
  goes on from the list and the winners only with something received since the
  last `Reset`. It leaves out the state `torn`: a `Reset` between the read and
  the write of `GetNextAsset` is overwritten, and the node does go on with
  nothing.

`TypeOK` of MasternodeSync is checked and proved, that of the other modules
proved (`TypeCorrect`, or within their invariant) and left out of the runs.

Checked only:

* Liveness, which is out of the prover's reach: `CallsReturn`,
  `BestChainActivated`, `WaitReturns`, `CatchesUp`, `NoStageForever`.
* The two disagreements of section 6, which are counterexamples and not
  theorems.

So every safety property of a passing run is proved, for every block tree and
any number of threads, peers and workers; three of them under the conditions
named. `PROJECT.json` names the theorems.

`CatchesUp` says that one peer that was asked for its chain and stays is enough.
What it must assume (`NoLoss`, and that no header lacks its block) names the
four ways in which a download does stop in this code: a block that is thrown
away after the peer announced it, since the peer's `setInventoryKnown` keeps it
from announcing it again; a header that is refused because it forks off too far
below the tip (`main.cpp:4117`; one a checkpoint forbids, `main.cpp:4129`, would
do the same), since all that follows it is thrown away then; the block in
`hashContinue` coming from someone else, since the peer then never sends the hash
that starts the next batch; and a header the coinstake check left behind. A new
block of the network starts the download again after the first and the third.
After a refused header nothing does as long as the tip stays that far above the
fork.

Assumptions of the proofs are the ASSUMEs of the modules, which TLC evaluates
on every run: `TreeAssumption` (the blocks form a finite tree), `MeasureAssumption`
(height and work grow along it, addresses differ), `CoinAssumption` (no output
is created twice along a chain, as transaction hashes do not repeat; coinstake
inputs are among the spent ones), `ChainStateAssumption`, `CacheAssumption`,
`TxAssumption` (a chain holds each transaction at most once),
`CheckQueueAssumption`, `SyncAssumption`, `SwiftAssumption` and `QuorumAssumption`
(fewer than twice the required votes rank at a height).

The argument for ChainState. None of the properties is inductive. `Inv` adds
three things. `ThreadInv` says who may be where while `cs_main` is held, and
that a thread inside `ActivateBestChainStep` is on its way to a linked block
with no failed block between it and the active chain: this is what makes
connecting safe without another look. `ChainInv` says the coins are
`UnspentAt(tip)` and the tip's chain is sound; the lemmas about chains show that
undoing a block gives exactly its parent's coins (`Undo`) and connecting one
gives its own (`Redo`). `FailedInv` weakens "no failed block is active" to what
holds while `InvalidateBlock` is at work: a failed active block lies above the
block some thread is invalidating. One lemma per action shows that `Inv` is
kept, with frame lemmas for the parts an action does not touch.

The argument for the best chain. The three properties speak of states without a
call in progress; what is inductive speaks of all. `LookInv` is about the
candidates there are: none is worse than the tip (`NoneWorse`), a thread inside
a step is on its way to the best of them (`StepBest`), and if one is better than
the tip some thread will still look (`Settled`; it is `Pending` before the loop
test has seen its own `most` as the tip). It holds whatever locks and operators
do, and gives `NoCandidateLeft`.

That they are all the candidates there should be is another matter, because
blocks pruned while a better tip was active are missing while the tip is worse
again. `FloorInv` says from where upwards they are complete: a linked block, the
floor, that was connected, is not marked and cannot be refused, with every
usable block not worse than it among the candidates. The floor is where a failed
reorganisation can come back to at worst. `InvalidateBlock` is without one while
it works, and ends with the tip as the next (`MarksGrounded`: marks go back to a
block found or declared invalid, so that the tip has none). A floor moves up
when a step connects a better block. It survives a step that fails, because the
marks are on the failed block's side, and `ReprocessBlocks`, because the tip
that is disconnected stays a candidate. Two things take it away. One is a lock
that conflicts with a block which was connected before: a reorganisation fails
and the way back is refused, so that the candidates are empty and the tip stays
low. The other is `ReconsiderBlock`, which clears marks, but not those of
siblings. With either, TLC finds `CandidatesExact` violated (locks on A1, B1
and B2 in the tree of `chain_rpc`; A1, B1 and C2 invalidated and reconsidered in
that of `chain_core`), and `MostWorkActive` too where locks on A1 and B2 come
with `ReprocessBlocks`. So the theorems assume `[]Calm` (no lock on a block
connected before) and `[][MarksStay]_vars` (no step clears a mark).
`invalidateblock`, locks on any other block, and `ReprocessBlocks` when there
is nothing to reconsider, are covered. A node on which nothing is lockable or
can be invalidated, as in `chain_core`, is one of `PlainNode`.

The argument for CoinsCache. `Inv` adds `ViewsBacked`: a view holds an unspent
coin that is not fresh only if `pcoinsTip` has the entry, because reading pulls
it in. This is why the assertion in `BatchWrite` cannot fail, and it is lost if
`pcoinsTip` is flushed while a view is on some stack, which is the guard of
`Save`. Every step that reads or flushes shows the same coins before and after,
so it maps to a stutter of `CoinStore`.

The argument for SwiftTX. `SigsInv` says where a counted vote comes from: its
masternode ranks at its height, and it is still in `mapTxLockVote` unless its
lock is just being erased. With `PendingInv`, the same of the vote in the
handler's hands, a counted vote cannot come again: the handler remembers a vote
before it checks it, and the cleaner forgets only votes that its lock has
counted. The votes of a complete lock then map one to one onto masternodes of
`Top[height]` that the node remembers (`Signers`), and two sets of `Required` in
a set of `Top` have `2 * Required` less its size in common: those voted for
both. Nothing is assumed of what masternodes vote for. `HeldInv` says that what
this node voted for stays in its pool until it is mined, made impossible or
lost, and `PoolInv` that no two transactions of pool and chain conflict; so its
votes agree but for `lost`. `lost` is a history variable: no guard reads it.

The argument for ChainDisk. `DInv` has a part about memory alone: linked blocks
have their chain's data, and threads on their way work for such blocks. It is
kept by every step, flushing or not. The other part relates memory and disk:
the chains of `best` and `dBest` are stored and connected in memory, an entry
that is not dirty is on disk as in memory, so `AllWritten` may move `dBest` to
`best`, and `SomeWritten`, which stops before the coins, cannot take anything
from the chain of `dBest`: flags other than the failure marks are never taken
back.

On top of it come three invariants. `RebuiltInv` says that while the process is
up the index is `Sorted` into linked, waiting and candidate blocks; a start
computes that from the entries in the order of their height. `StakesInv` adds
that the map is empty while there is no process. `RestartInv` carries the best
chain over a restart: `SolidInv` says that the blocks the coins are at, in
memory and on disk, were connected and have no failed block below them;
`Behind` that the coins on disk lie below those in memory unless a flush failed.
So the block of the coins that a start finds is a floor, and `Searching` is
`LookInv` and `FloorInv` as far as they hold with the coins one block away from
the tip; the lemmas of `ChainState_proofs` are used again for every step.
`OffChain` is needed: if a crash cuts `InvalidateBlock` short after its first
flush, the coins on disk are at a block that is marked failed, and if the
reorganisation away from it fails half-way, the node stays below a usable branch
(TLC finds it with branches A1-A2, B1 and C1-C2-C3, where A1 is invalidated and
C1 does not connect). The theorem therefore allows `invalidateblock` for blocks
outside the active chain only, and no `reconsiderblock`.

The argument for MasternodeSync. The stage that `GetNextAsset` has read and not
yet written counts too (`Coming`): what it was read with must still be there
when it is written. Only `Reset` takes time stamps back, and it sets the stage
back as well unless the write of `GetNextAsset` comes after, which is `torn`.

The argument for Mempool. `Backed` weakens `InputsAvailable` to what holds
between the steps of a disconnection: an input belongs to the pool, to the coins
or to a transaction that is still to be offered to the pool again. If that one
is refused, everything that spends it goes (`RemoveRecursive`); when none is
left the property is there again. `Undo` and `Redo`, as for ChainState, give
the coins on both sides.

The argument for CheckQueue. `Placed` says that a check which is not done is in
the queue or in exactly one batch, `Counted` that `nTodo` counts them and
`nTotal - nIdle` the threads with a batch, `Judged` that a failed check shows in
`fAllOk` or in the `fOk` of a thread that still has its batch. When `nTodo` is 0
no batch is left, so `fAllOk` is the conjunction, and no thread is busy, so the
queue is idle.

The argument for BlockSync. The four properties with `TypeOK` and the fact that
the tip's chain is stored are inductive together (`SInv`): `LastCommonIsFull`
starts from the active chain, which is where `TipIsFull` is needed, and moves
over stored blocks with `nChainTx` only.

## 6. Where the code departs from its own words

Two runs end in a counterexample to something the repository states; the
quotations are in `PROJECT.json`.

1. `coins_savefails`: when the write of the coin database throws, the cache is
   already empty and still carries its best block; the flush at shutdown writes
   that block over older coins.
2. `swift_expire`: a lock request that the memory pool refuses locks its free
   inputs, but `CleanTransactionLocksList` releases inputs only of requests in
   `mapTxLockReq`, where a refused one is not: its inputs stay locked, and
   blocks and transactions that spend them are refused, long after the hour the
   comments promise.

The models also show, without a run of their own:

* `ReconsiderBlock` does not clear the marks of siblings that were marked
  because of the ancestors it clears; a block can stay failed without an invalid
  ancestor, which `CheckBlockIndex` calls impossible.
* `DisconnectBlocksAndReprocess` does not put back the candidates that were
  pruned while the disconnected blocks were active. If a lock keeps those out,
  the node leaves a chain with more work unused until the next start.
* `-maxreorg` limits where a new header may fork off, not how deep a
  reorganisation goes.
* `FinalizeNode` does not take the requests of its peer from
  `nQueuedValidatedHeaders`, as `MarkBlockAsReceived` does; the count
  only grows, and makes later download timeouts longer (`main.cpp:6672`).
* `DoConsensusVote` consults no earlier votes (`swifttx.cpp:252-290`). A masternode
  whose pool `CreateNewBlock` empties (`miner.cpp:430`), or that is restarted,
  while a lock it voted for is incomplete, votes for a conflicting request: two
  transactions can be locked by masternodes that all run this code.
* `CheckAndRemove` erases an expired broadcast and then the count of the one after
  it, as the iterator has moved on (`masternodeman.cpp:323`; it may have reached the
  end of the map); the expired one keeps its count.
* `TestBlockValidity` lets `ConnectBlock` write the index entry of a block template
  to disk (`main.cpp:2997`), where a start finds an entry without data.
* A failed stage has the number 998, which `> MASTERNODE_SYNC_LIST` tests (in
  `ProcessNewBlock`, for one) take for a list that is there.

## 7. Not modelled

* Block and undo files: they are flushed before anything that refers to them,
  and a loss of power in the middle is left out.
* The scheduler: no thread of this program runs `CScheduler::serviceQueue`.
* Masternode list, payments, budgets, spork messages, the HTTP work queue and
  the address manager: see the plan. The masternode list is a constant ranking
  in `SwiftTX` and an event in `MasternodeSync`.
* Scripts, signatures, zerocoin accumulators, kernel hashes, difficulty,
  amounts: computation on data that decides whether a block is valid, which
  `ChainState` has as a choice of the block tree.
* The wallet (large and sequential), mixing, alerts, time data, the GUI,
  ZeroMQ, REST: not core logic, or presentation and I/O.
* Sockets, addresses and misbehaviour scores. In `ChainState` the network is what
  it can deliver: any block, in any order, again. In `BlockSync` peers follow
  the protocol, over connections that keep the order and may end.
* Hash functions, most of the lines of this repository: pure computation.

## 8. Plan

In this order; each item is a module with its runs, and theorems where named.

1. **MasternodePayments**: winner votes per height and masternode, the tally
   that is updated after the locks were given up, clean-up by height, and what
   `IsTransactionValid` makes of it. Theorem: one vote per masternode and height
   is counted.
2. **MasternodeList**: broadcasts, pings, `CheckAndRemove`, composed with
   `SwiftTX` so that rankings differ between nodes and in time.
3. **Sporks** with their database and restarts; finalized budgets.
4. The composition of `SwiftTX` with `ChainState`, so that a complete lock
   drives `Reprocess` and blocks that hold locked transactions are undone.
5. **WorkQueue** of the HTTP server, and the address manager.
6. Proofs: every safety property the runs check has its theorem. The runs of the
   new modules should have theirs from the start; of what is there, liveness
   stays with TLC.
