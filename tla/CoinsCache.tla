----------------------------- MODULE CoinsCache -----------------------------
(***************************************************************************)
(* The coin database and its caches (coins.cpp, txdb.cpp): scratch views   *)
(* (CCoinsViewCache view(pcoinsTip)) over pcoinsTip over the LevelDB       *)
(* database.  A cache holds an entry only for what was read or changed     *)
(* through it, with the flags                                              *)
(*   dirty   the entry is potentially different from the parent's          *)
(*   fresh   the parent does not have the entry, or has it pruned          *)
(* that decide what a flush writes and what it may simply forget.          *)
(*                                                                         *)
(* Every operation runs under cs_main from the construction of its view    *)
(* to its end, so one action is one operation on one transaction's coins.  *)
(* Views may be nested (the miner tests a block while its own view is on   *)
(* the stack), but only ConnectTip and DisconnectTip flush one, when it is *)
(* the only one.                                                           *)
(*                                                                         *)
(* Abstracted: the outputs of one transaction are one value.  That a view  *)
(* which is flushed holds the coins of the block it is flushed for, when   *)
(* it started from those of the parent or child, is what ConnectBlock and  *)
(* DisconnectBlock do (module ChainState) and a guard here.                *)
(***************************************************************************)
EXTENDS Integers, FiniteSets

CONSTANTS
    Txids, Values, Pruned,
    None,       \* no entry in a cache
    Hashes, NoHash, StateAt,
    Views

Coins == Values \cup {Pruned}

Entries == [coins : Coins, dirty : BOOLEAN, fresh : BOOLEAN]

ASSUME CacheAssumption ==
    /\ Pruned \notin Values
    /\ None \notin Entries
    /\ NoHash \notin Hashes
    /\ StateAt \in [Hashes \cup {NoHash} -> [Txids -> Coins]]
    /\ \A x \in Txids : StateAt[NoHash][x] = Pruned

VARIABLES
    disk,       \* the database; a transaction without a key is Pruned
    diskBest,   \* its key 'B'
    tip,        \* pcoinsTip->cacheCoins
    hashBlock,  \* pcoinsTip->hashBlock, NoHash until it is read or set
    open,       \* the scratch views on some stack
    view        \* cacheCoins of each scratch view

vars == <<disk, diskBest, tip, hashBlock, open, view>>

Empty == [x \in Txids |-> None]

Init ==
    /\ disk = StateAt[NoHash] /\ diskBest = NoHash
    /\ tip = Empty /\ hashBlock = NoHash
    /\ open = {}
    /\ view = [v \in Views |-> Empty]

---------------------------------------------------------------------------
(* What each level shows to the one above. *)

TipCoins == [x \in Txids |-> IF tip[x] = None THEN disk[x] ELSE tip[x].coins]

ViewCoins(v) == [x \in Txids |-> IF view[v][x] = None THEN TipCoins[x] ELSE view[v][x].coins]

\* pcoinsTip->GetBestBlock()
TipBlock == IF hashBlock = NoHash THEN diskBest ELSE hashBlock

---------------------------------------------------------------------------
(* Reading and modifying. *)

\* pcoinsTip after FetchCoins(x): what the database has is pulled in.
TipWith(x) ==
    IF tip[x] = None /\ disk[x] # Pruned
    THEN [tip EXCEPT ![x] = [coins |-> disk[x], dirty |-> FALSE, fresh |-> FALSE]]
    ELSE tip

\* FetchCoins in a view without an entry for x: a copy of the parent's, fresh if the
\* parent's is pruned.
Fetched(x) ==
    LET p == TipWith(x)[x] IN
    IF p = None
    THEN None
    ELSE [coins |-> p.coins, dirty |-> FALSE, fresh |-> p.coins = Pruned]

\* Mistake: the new entry is always marked fresh.
AlwaysFresh(x, c) == [coins |-> c, dirty |-> TRUE, fresh |-> TRUE]

\* ModifyCoins in a view without an entry for x, once the modifier has written c.
FirstModified(x, c) == [coins |-> c, dirty |-> TRUE, fresh |-> TipCoins[x] = Pruned]

\* A read through pcoinsTip itself.
ReadTip(x) ==
    /\ tip' = TipWith(x)
    /\ UNCHANGED <<disk, diskBest, hashBlock, open, view>>

\* GetBestBlock reads the database once.
ReadBestBlock ==
    /\ hashBlock' = TipBlock
    /\ UNCHANGED <<disk, diskBest, tip, open, view>>

Open(v) ==
    /\ v \notin open
    /\ open' = open \cup {v}
    /\ UNCHANGED <<disk, diskBest, tip, hashBlock, view>>

\* GetCoins, AccessCoins, HaveCoins.
Read(v, x) ==
    /\ v \in open
    /\ view[v][x] = None
    /\ tip' = TipWith(x)
    /\ view' = [view EXCEPT ![v] = [@ EXCEPT ![x] = Fetched(x)]]
    /\ UNCHANGED <<disk, diskBest, hashBlock, open>>

\* ModifyCoins, the change made through the modifier, and the modifier's destructor,
\* which erases an entry the parent need not hear of.
Modify(v, x, c) ==
    LET e == IF view[v][x] = None
             THEN FirstModified(x, c)
             ELSE [coins |-> c, dirty |-> TRUE, fresh |-> view[v][x].fresh]
    IN
    /\ v \in open
    /\ tip' = IF view[v][x] = None THEN TipWith(x) ELSE tip
    /\ view' = [view EXCEPT ![v] =
                  [@ EXCEPT ![x] = IF e.fresh /\ c = Pruned THEN None ELSE e]]
    /\ UNCHANGED <<disk, diskBest, hashBlock, open>>

---------------------------------------------------------------------------
(* Flushing. *)

\* Mistake: a coin spent in the child is erased in the parent whether or not the parent's
\* own parent has it.
MergedErased(p, e) ==
    IF e = None \/ (e # None /\ ~e.dirty)
    THEN p
    ELSE IF e.coins = Pruned
    THEN None
    ELSE [coins |-> e.coins, dirty |-> TRUE, fresh |-> p = None \/ p.fresh]

\* CCoinsViewCache::BatchWrite of the child's entry e into the parent's entry p.
Merged(p, e) ==
    IF e = None \/ (e # None /\ ~e.dirty)
    THEN p
    ELSE IF e.coins = Pruned /\ (p = None \/ (p # None /\ p.fresh))
    THEN None
    ELSE [coins |-> e.coins, dirty |-> TRUE, fresh |-> p = None \/ p.fresh]

\* ConnectTip and DisconnectTip: SetBestBlock(b) and Flush, and the view is gone.
Commit(v, b) ==
    /\ open = {v}
    /\ ViewCoins(v) = StateAt[b]
    /\ tip' = [x \in Txids |-> Merged(tip[x], view[v][x])]
    /\ hashBlock' = b
    /\ open' = {}
    /\ view' = [view EXCEPT ![v] = Empty]
    /\ UNCHANGED <<disk, diskBest>>

\* The view goes out of scope without a flush.
Abandon(v) ==
    /\ v \in open
    /\ open' = open \ {v}
    /\ view' = [view EXCEPT ![v] = Empty]
    /\ UNCHANGED <<disk, diskBest, tip, hashBlock>>

\* Mistake: spent coins are not erased from the database.
SavedUnspent(x) ==
    IF tip[x] # None /\ tip[x].dirty /\ tip[x].coins # Pruned THEN tip[x].coins ELSE disk[x]

\* CCoinsViewDB::BatchWrite: one atomic LevelDB batch of the dirty entries.
Saved(x) == IF tip[x] # None /\ tip[x].dirty THEN tip[x].coins ELSE disk[x]

\* Mistake: the tip is flushed while views read through it.
SaveUnderViews ==
    /\ disk' = [x \in Txids |-> Saved(x)]
    /\ diskBest' = TipBlock
    /\ tip' = Empty
    /\ UNCHANGED <<hashBlock, open, view>>

\* pcoinsTip->Flush() in FlushStateToDisk.
Save ==
    /\ open = {}
    /\ disk' = [x \in Txids |-> Saved(x)]
    /\ diskBest' = TipBlock
    /\ tip' = Empty
    /\ UNCHANGED <<hashBlock, open, view>>

\* The write fails: LevelDB throws once BatchWrite has emptied the cache, FlushStateToDisk
\* catches it and asks for a shutdown, and hashBlock keeps its value.
SaveFails ==
    /\ open = {}
    /\ tip' = Empty
    /\ UNCHANGED <<disk, diskBest, hashBlock, open, view>>

\* The process dies and starts again with the database it left.
Restart ==
    /\ tip' = Empty /\ hashBlock' = NoHash
    /\ open' = {}
    /\ view' = [v \in Views |-> Empty]
    /\ UNCHANGED <<disk, diskBest>>

---------------------------------------------------------------------------
(* The specification. *)

Next ==
    \/ \E x \in Txids : ReadTip(x)
    \/ ReadBestBlock
    \/ \E v \in Views : Open(v) \/ Abandon(v)
    \/ \E v \in Views, x \in Txids : Read(v, x)
    \/ \E v \in Views, x \in Txids, c \in Coins : Modify(v, x, c)
    \/ \E v \in Views, b \in Hashes : Commit(v, b)
    \/ Save
    \/ Restart

Spec == Init /\ [][Next]_vars

\* With writes to the database that can fail.
FailSpec == Init /\ [][Next \/ SaveFails]_vars

---------------------------------------------------------------------------
(* What is checked. *)

TypeOK ==
    /\ disk \in [Txids -> Coins]
    /\ diskBest \in Hashes \cup {NoHash}
    /\ tip \in [Txids -> Entries \cup {None}]
    /\ hashBlock \in Hashes \cup {NoHash}
    /\ open \subseteq Views
    /\ view \in [Views -> [Txids -> Entries \cup {None}]]
    /\ \A v \in Views \ open : view[v] = Empty

\* What coins.h says of the flags, at both levels and in every state: an entry that is
\* not dirty equals the parent's, and one that is fresh is pruned in the parent, so that
\* forgetting it loses nothing.
FlagsSound ==
    \A x \in Txids :
        /\ tip[x] # None => /\ tip[x].fresh => disk[x] = Pruned
                            /\ ~tip[x].dirty => tip[x].coins = disk[x]
        /\ \A v \in Views :
              view[v][x] # None => /\ view[v][x].fresh => TipCoins[x] = Pruned
                                   /\ ~view[v][x].dirty => view[v][x].coins = TipCoins[x]

\* The assertion in BatchWrite: a changed coin the parent has no entry for is fresh,
\* because the parent would have pulled it in at the first read.
FlushAssertion ==
    \A v \in Views, x \in Txids :
        LET e == view[v][x] IN
        e # None /\ tip[x] = None => (e.dirty /\ e.coins # Pruned => e.fresh)

\* The best block pcoinsTip reports names the coins it shows, and the one in the database
\* those in the database: in every state, so after a crash at any point too.
DiskNamesState == disk = StateAt[diskBest]

BestBlockNamesState == TipCoins = StateAt[TipBlock] /\ DiskNamesState

\* Caches, flags and lazy reads do not show: the plain maps of CoinStore.
Store == INSTANCE CoinStore WITH view <- [v \in Views |-> ViewCoins(v)],
                                 tip <- TipCoins,
                                 best <- TipBlock

ImplementsCoinStore == Store!Spec

=============================================================================
