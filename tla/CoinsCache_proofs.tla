------------------------- MODULE CoinsCache_proofs -------------------------
(***************************************************************************)
(* Proofs about the coin caches, for any set of transactions, values,      *)
(* blocks and views.                                                       *)
(***************************************************************************)
EXTENDS CoinsCache, TLAPS

\* An entry of a view that is not fresh has an entry of pcoinsTip below it: the reason
\* why a flush never meets a changed old coin that pcoinsTip does not know.
ViewsBacked ==
    \A v \in Views, x \in Txids :
        view[v][x] # None /\ ~view[v][x].fresh => tip[x] # None

Inv == TypeOK /\ FlagsSound /\ ViewsBacked /\ BestBlockNamesState

---------------------------------------------------------------------------
(* Pulling an entry into pcoinsTip. *)

\* Only x's entry can change, only from none to a clean copy of the database's coins,
\* and what pcoinsTip shows stays the same.
LEMMA TipWithFacts ==
    ASSUME TypeOK, NEW x \in Txids
    PROVE  /\ TipWith(x) \in [Txids -> Entries \cup {None}]
           /\ \A y \in Txids : tip[y] # None => TipWith(x)[y] = tip[y]
           /\ \A y \in Txids :
                 tip[y] = None /\ TipWith(x)[y] # None =>
                    TipWith(x)[y] = [coins |-> disk[y], dirty |-> FALSE, fresh |-> FALSE]
           /\ (IF TipWith(x)[x] = None THEN Pruned ELSE TipWith(x)[x].coins) = TipCoins[x]
           /\ TipCoins[x] # Pruned => TipWith(x)[x] # None
<1> DEFINE e == [coins |-> disk[x], dirty |-> FALSE, fresh |-> FALSE]
<1>1. e \in Entries
  BY DEF TypeOK, Entries
<1>2. /\ TipWith(x) \in [Txids -> Entries \cup {None}]
      /\ \A y \in Txids :
            TipWith(x)[y] = IF y = x /\ tip[x] = None /\ disk[x] # Pruned THEN e ELSE tip[y]
  BY <1>1 DEF TypeOK, TipWith
<1>3. e # None
  BY <1>1, CacheAssumption
<1>4. \A y \in Txids : tip[y] # None => TipWith(x)[y] = tip[y]
  BY <1>2
<1>5. \A y \in Txids :
         tip[y] = None /\ TipWith(x)[y] # None =>
            TipWith(x)[y] = [coins |-> disk[y], dirty |-> FALSE, fresh |-> FALSE]
  BY <1>2
<1>6. /\ (IF TipWith(x)[x] = None THEN Pruned ELSE TipWith(x)[x].coins) = TipCoins[x]
      /\ TipCoins[x] # Pruned => TipWith(x)[x] # None
  <2>1. e.coins = disk[x]
    OBVIOUS
  <2>2. TipCoins[x] = IF tip[x] = None THEN disk[x] ELSE tip[x].coins
    BY DEF TipCoins
  <2> HIDE DEF e
  <2> QED BY <1>2, <1>3, <2>1, <2>2
<1> QED BY <1>2, <1>4, <1>5, <1>6

\* A pull leaves the invariant's clauses about pcoinsTip true, and the coins it shows.
LEMMA PullStep ==
    ASSUME Inv, NEW x \in Txids, tip' = TipWith(x), UNCHANGED disk
    PROVE  /\ tip' \in [Txids -> Entries \cup {None}]
           /\ TipCoins' = TipCoins
           /\ \A y \in Txids : tip[y] # None => tip'[y] # None
           /\ \A y \in Txids :
                 tip'[y] # None => /\ tip'[y].fresh => disk'[y] = Pruned
                                   /\ ~tip'[y].dirty => tip'[y].coins = disk'[y]
<1>1. tip' \in [Txids -> Entries \cup {None}]
  BY TipWithFacts DEF Inv
<1>2. \A y \in Txids : tip[y] # None => tip'[y] = tip[y]
  BY TipWithFacts DEF Inv
<1>3. \A y \in Txids :
         tip[y] = None /\ tip'[y] # None =>
            tip'[y] = [coins |-> disk[y], dirty |-> FALSE, fresh |-> FALSE]
  BY TipWithFacts DEF Inv
<1> DEFINE clean(c) == [coins |-> c, dirty |-> FALSE, fresh |-> FALSE]
<1>f. \A c : clean(c).coins = c /\ ~clean(c).dirty /\ ~clean(c).fresh
  OBVIOUS
<1>c. \A y \in Txids : tip[y] = None /\ tip'[y] # None => tip'[y] = clean(disk[y])
  BY <1>3
<1> HIDE DEF clean
<1>4. ASSUME NEW y \in Txids PROVE TipCoins'[y] = TipCoins[y]
  BY <1>2, <1>c, <1>f, CacheAssumption DEF TipCoins
<1>5. TipCoins' = TipCoins
  BY <1>4 DEF TipCoins
<1>6. ASSUME NEW y \in Txids, tip'[y] # None
      PROVE  /\ tip'[y].fresh => disk'[y] = Pruned
             /\ ~tip'[y].dirty => tip'[y].coins = disk'[y]
  <2>1. CASE tip[y] = None
    BY <1>c, <1>f, <1>6, <2>1
  <2>2. CASE tip[y] # None
    BY <1>2, <2>2 DEF Inv, FlagsSound
  <2> QED BY <2>1, <2>2
<1> QED BY <1>1, <1>2, <1>5, <1>6

---------------------------------------------------------------------------
(* Changing an entry of a view. *)

Shown == [v \in Views |-> ViewCoins(v)]

\* An operation puts e for x into view v, at most pulls x into pcoinsTip, and the flags
\* of e are right.
Puts(v, x, e) ==
    /\ tip' = tip \/ tip' = TipWith(x)
    /\ view' = [view EXCEPT ![v] = [@ EXCEPT ![x] = e]]
    /\ UNCHANGED <<disk, diskBest, hashBlock, open>>
    /\ e # None => /\ e.fresh => TipCoins[x] = Pruned
                   /\ ~e.dirty => e.coins = TipCoins[x]
                   /\ ~e.fresh => tip'[x] # None

\* Such an operation keeps the invariant, and shows in the view alone.
LEMMA ViewUpdate ==
    ASSUME Inv, NEW v \in open, NEW x \in Txids, NEW e \in Entries \cup {None},
           Puts(v, x, e)
    PROVE  /\ Inv'
           /\ TipCoins' = TipCoins
           /\ TipBlock' = TipBlock
           /\ Shown' = [Shown EXCEPT ![v] =
                          [@ EXCEPT ![x] = IF e = None THEN TipCoins[x] ELSE e.coins]]
<1> USE DEF Puts
<1>1. /\ tip' \in [Txids -> Entries \cup {None}]
      /\ TipCoins' = TipCoins
      /\ \A y \in Txids : tip[y] # None => tip'[y] # None
      /\ \A y \in Txids :
            tip'[y] # None => /\ tip'[y].fresh => disk'[y] = Pruned
                              /\ ~tip'[y].dirty => tip'[y].coins = disk'[y]
  <2>1. CASE tip' = tip
    BY <2>1 DEF Inv, TypeOK, FlagsSound, TipCoins
  <2>2. CASE tip' = TipWith(x)
    BY <2>2, PullStep
  <2> QED BY <2>1, <2>2
<1>2. TipBlock' = TipBlock
  BY DEF TipBlock
<1>3. v \in Views /\ view \in [Views -> [Txids -> Entries \cup {None}]]
  BY DEF Inv, TypeOK
<1>4. /\ view' \in [Views -> [Txids -> Entries \cup {None}]]
      /\ \A w \in Views, y \in Txids :
            view'[w][y] = IF w = v /\ y = x THEN e ELSE view[w][y]
      /\ \A w \in Views : w # v => view'[w] = view[w]
  BY <1>3
<1>5. TypeOK'
  BY <1>1, <1>4 DEF Inv, TypeOK
<1>6. FlagsSound'
  <2>1. ASSUME NEW w \in Views, NEW y \in Txids, view'[w][y] # None
        PROVE  /\ view'[w][y].fresh => TipCoins'[y] = Pruned
               /\ ~view'[w][y].dirty => view'[w][y].coins = TipCoins'[y]
    <3>1. CASE w = v /\ y = x
      BY <1>1, <1>4, <2>1, <3>1
    <3>2. CASE ~(w = v /\ y = x)
      BY <1>1, <1>4, <2>1, <3>2 DEF Inv, FlagsSound
    <3> QED BY <3>1, <3>2
  <2> QED BY <1>1, <2>1 DEF FlagsSound
<1>7. ViewsBacked'
  <2> SUFFICES ASSUME NEW w \in Views, NEW y \in Txids,
                      view'[w][y] # None, ~view'[w][y].fresh
               PROVE  tip'[y] # None
    BY DEF ViewsBacked
  <2>1. CASE w = v /\ y = x
    BY <1>4, <2>1
  <2>2. CASE ~(w = v /\ y = x)
    BY <1>1, <1>4, <2>2 DEF Inv, ViewsBacked
  <2> QED BY <2>1, <2>2
<1>8. BestBlockNamesState'
  BY <1>1, <1>2 DEF Inv, BestBlockNamesState, DiskNamesState
<1>9. Shown' = [Shown EXCEPT ![v] =
                  [@ EXCEPT ![x] = IF e = None THEN TipCoins[x] ELSE e.coins]]
  <2> DEFINE S == [Shown EXCEPT ![v] =
                     [@ EXCEPT ![x] = IF e = None THEN TipCoins[x] ELSE e.coins]]
  <2>1. /\ Shown \in [Views -> [Txids -> Coins]]
        /\ \A w \in Views, y \in Txids :
              Shown[w][y] = IF view[w][y] = None THEN TipCoins[y] ELSE view[w][y].coins
    <3>1. TipCoins \in [Txids -> Coins]
      BY DEF Inv, TypeOK, TipCoins, Entries
    <3>2. \A w \in Views : ViewCoins(w) \in [Txids -> Coins]
      BY <1>3, <3>1 DEF ViewCoins, Entries
    <3> QED BY <3>2 DEF Shown, ViewCoins
  <2>2. \A w \in Views, y \in Txids :
           Shown'[w][y] = IF view'[w][y] = None THEN TipCoins[y] ELSE view'[w][y].coins
    BY <1>1 DEF Shown, ViewCoins
  <2>3. \A w \in Views, y \in Txids : S[w][y] = Shown'[w][y]
    <3>1. \A w \in Views, y \in Txids :
             S[w][y] = IF w = v /\ y = x
                       THEN IF e = None THEN TipCoins[x] ELSE e.coins
                       ELSE Shown[w][y]
      BY <2>1, <1>3
    <3> QED BY <1>4, <2>1, <2>2, <3>1
  <2>4. \A w \in Views : DOMAIN S[w] = Txids /\ DOMAIN Shown'[w] = Txids
    BY <2>1, <1>3 DEF Shown, ViewCoins
  <2>5. \A w \in Views : S[w] = [y \in Txids |-> S[w][y]] /\ Shown'[w] = [y \in Txids |-> Shown'[w][y]]
    BY <2>1, <2>4, <1>3 DEF Shown, ViewCoins
  <2>6. \A w \in Views : S[w] = Shown'[w]
    BY <2>3, <2>5
  <2>7. S = [w \in Views |-> S[w]] /\ Shown' = [w \in Views |-> Shown'[w]]
    BY <2>1 DEF Shown
  <2> HIDE DEF S
  <2>8. S = Shown'
    BY <2>6, <2>7
  <2> QED BY <2>8 DEF S
<1> QED BY <1>1, <1>2, <1>5, <1>6, <1>7, <1>8, <1>9 DEF Inv

---------------------------------------------------------------------------
(* The operations. *)

\* The variables of CoinStore, as the refinement mapping gives them.
Stutter == UNCHANGED <<open, Shown, TipCoins, TipBlock, disk, diskBest>>

\* An empty database under empty caches.
LEMMA InitInv == Init => Inv
<1> SUFFICES ASSUME Init PROVE Inv
  OBVIOUS
<1>1. TypeOK
  BY CacheAssumption DEF Init, TypeOK, Empty
<1>2. TipCoins = disk
  BY CacheAssumption DEF Init, TipCoins, Empty
<1>3. FlagsSound /\ ViewsBacked
  BY DEF Init, Empty, FlagsSound, ViewsBacked
<1>4. BestBlockNamesState
  BY <1>2 DEF Init, BestBlockNamesState, DiskNamesState, TipBlock
<1> QED BY <1>1, <1>3, <1>4 DEF Inv

\* A read through pcoinsTip shows nowhere.
LEMMA ReadTipStep == ASSUME Inv, NEW x \in Txids, ReadTip(x) PROVE Inv' /\ Stutter
<1>1. /\ tip' \in [Txids -> Entries \cup {None}]
      /\ TipCoins' = TipCoins
      /\ \A y \in Txids : tip[y] # None => tip'[y] # None
      /\ \A y \in Txids :
            tip'[y] # None => /\ tip'[y].fresh => disk'[y] = Pruned
                              /\ ~tip'[y].dirty => tip'[y].coins = disk'[y]
  BY PullStep DEF ReadTip
<1>2. TypeOK'
  BY <1>1 DEF Inv, TypeOK, ReadTip
<1>3. FlagsSound'
  BY <1>1 DEF Inv, FlagsSound, ReadTip
<1>4. ViewsBacked'
  BY <1>1 DEF Inv, ViewsBacked, ReadTip
<1>5. BestBlockNamesState' /\ TipBlock' = TipBlock
  BY <1>1 DEF Inv, BestBlockNamesState, DiskNamesState, TipBlock, ReadTip
<1>6. Shown' = Shown
  BY <1>1 DEF Shown, ViewCoins, ReadTip
<1> QED BY <1>1, <1>2, <1>3, <1>4, <1>5, <1>6 DEF Inv, Stutter, ReadTip

\* The lazy read of the best block shows nowhere.
LEMMA ReadBestBlockStep == ASSUME Inv, ReadBestBlock PROVE Inv' /\ Stutter
<1>1. TipCoins' = TipCoins /\ Shown' = Shown
  BY DEF ReadBestBlock, TipCoins, Shown, ViewCoins
<1>2. TypeOK'
  BY DEF Inv, TypeOK, ReadBestBlock, TipBlock
<1>3. FlagsSound' /\ ViewsBacked'
  BY <1>1 DEF Inv, FlagsSound, ViewsBacked, ReadBestBlock
<1>4. TipBlock' = TipBlock
  BY DEF ReadBestBlock, TipBlock
<1> QED
  BY <1>1, <1>2, <1>3, <1>4
  DEF Inv, Stutter, ReadBestBlock, BestBlockNamesState, DiskNamesState

\* A new view shows what pcoinsTip shows.
LEMMA OpenStep ==
    ASSUME Inv, NEW v \in Views, Open(v)
    PROVE  Inv' /\ Shown' = Shown /\ UNCHANGED <<TipCoins, TipBlock, disk, diskBest>>
<1>1. TipCoins' = TipCoins /\ Shown' = Shown /\ TipBlock' = TipBlock
  BY DEF Open, TipCoins, Shown, ViewCoins, TipBlock
<1>2. TypeOK'
  BY DEF Inv, TypeOK, Open
<1>3. FlagsSound' /\ ViewsBacked'
  BY <1>1 DEF Inv, FlagsSound, ViewsBacked, Open
<1> QED
  BY <1>1, <1>2, <1>3 DEF Inv, Open, BestBlockNamesState, DiskNamesState

\* A read through a view, with the pull it makes in pcoinsTip, shows nowhere.
LEMMA ReadStep ==
    ASSUME Inv, NEW v \in Views, NEW x \in Txids, Read(v, x)
    PROVE  Inv' /\ Stutter
<1> DEFINE e == Fetched(x)
<1>1. /\ v \in open /\ view[v][x] = None /\ tip' = TipWith(x)
      /\ view' = [view EXCEPT ![v] = [@ EXCEPT ![x] = e]]
      /\ UNCHANGED <<disk, diskBest, hashBlock, open>>
  BY DEF Read
<1>2. /\ TipWith(x) \in [Txids -> Entries \cup {None}]
      /\ (IF TipWith(x)[x] = None THEN Pruned ELSE TipWith(x)[x].coins) = TipCoins[x]
  BY TipWithFacts DEF Inv
<1>3. /\ e \in Entries \cup {None}
      /\ e # None => /\ e.coins = TipCoins[x] /\ ~e.dirty
                     /\ e.fresh <=> TipCoins[x] = Pruned
                     /\ TipWith(x)[x] # None
      /\ e = None => TipCoins[x] = Pruned
  <2>1. CASE TipWith(x)[x] = None
    BY <1>2, <2>1 DEF Fetched
  <2>2. CASE TipWith(x)[x] # None
    <3> DEFINE f == [coins |-> TipCoins[x], dirty |-> FALSE, fresh |-> TipCoins[x] = Pruned]
    <3>1. e = f
      BY <1>2, <2>2 DEF Fetched
    <3>2. TipCoins[x] \in Coins
      BY <1>2, <2>2 DEF Entries
    <3>3. f \in Entries
      BY <3>2 DEF Entries
    <3>4. f.coins = TipCoins[x] /\ ~f.dirty /\ (f.fresh <=> TipCoins[x] = Pruned)
      OBVIOUS
    <3> HIDE DEF f
    <3> QED BY <2>2, <3>1, <3>3, <3>4, CacheAssumption
  <2> QED BY <2>1, <2>2
<1> HIDE DEF e
<1>u. Puts(v, x, e)
  BY <1>1, <1>3 DEF Puts
<1>4. /\ Inv' /\ TipCoins' = TipCoins /\ TipBlock' = TipBlock
      /\ Shown' = [Shown EXCEPT ![v] =
                     [@ EXCEPT ![x] = IF e = None THEN TipCoins[x] ELSE e.coins]]
  BY <1>1, <1>3, <1>u, ViewUpdate
<1>5. Shown[v] \in [Txids -> Coins] /\ Shown[v][x] = TipCoins[x] /\ v \in Views
  BY <1>1 DEF Shown, ViewCoins, Inv, TypeOK, TipCoins, Entries
<1>6. (IF e = None THEN TipCoins[x] ELSE e.coins) = Shown[v][x]
  BY <1>3, <1>5
<1>7. Shown' = Shown
  <2>1. [Shown[v] EXCEPT ![x] = Shown[v][x]] = Shown[v]
    BY <1>5
  <2>2. Shown' = [Shown EXCEPT ![v] = Shown[v]]
    BY <1>4, <1>6, <2>1
  <2> QED BY <2>2, <1>5 DEF Shown
<1> QED BY <1>1, <1>4, <1>7 DEF Stutter

\* ModifyCoins changes the coins of one transaction in one view.
LEMMA ModifyStep ==
    ASSUME Inv, NEW v \in Views, NEW x \in Txids, NEW c \in Coins, Modify(v, x, c)
    PROVE  /\ Inv' /\ v \in open
           /\ Shown' = [Shown EXCEPT ![v] = [@ EXCEPT ![x] = c]]
           /\ UNCHANGED <<open, TipCoins, TipBlock, disk, diskBest>>
<1> DEFINE n == IF view[v][x] = None
                THEN FirstModified(x, c)
                ELSE [coins |-> c, dirty |-> TRUE, fresh |-> view[v][x].fresh]
           e == IF n.fresh /\ c = Pruned THEN None ELSE n
<1>1. /\ v \in open
      /\ tip' = IF view[v][x] = None THEN TipWith(x) ELSE tip
      /\ view' = [view EXCEPT ![v] = [@ EXCEPT ![x] = e]]
      /\ UNCHANGED <<disk, diskBest, hashBlock, open>>
  BY DEF Modify
<1>2. /\ n \in Entries /\ n.coins = c /\ n.dirty
      /\ n.fresh => TipCoins[x] = Pruned
      /\ ~n.fresh => tip'[x] # None
  <2>1. CASE view[v][x] = None
    <3> DEFINE f == [coins |-> c, dirty |-> TRUE, fresh |-> TipCoins[x] = Pruned]
    <3>1. n = f /\ f \in Entries
      BY <2>1 DEF FirstModified, Entries
    <3>2. TipCoins[x] # Pruned => TipWith(x)[x] # None
      BY TipWithFacts DEF Inv
    <3>3. f.coins = c /\ f.dirty /\ (f.fresh <=> TipCoins[x] = Pruned)
      OBVIOUS
    <3> HIDE DEF f
    <3> QED BY <1>1, <2>1, <3>1, <3>2, <3>3
  <2>2. CASE view[v][x] # None
    <3> DEFINE f == [coins |-> c, dirty |-> TRUE, fresh |-> view[v][x].fresh]
    <3>1. view[v][x] \in Entries
      BY <2>2 DEF Inv, TypeOK
    <3>2. n = f /\ f \in Entries
      BY <2>2, <3>1 DEF Entries
    <3>3. /\ view[v][x].fresh => TipCoins[x] = Pruned
          /\ ~view[v][x].fresh => tip[x] # None
      BY <2>2 DEF Inv, FlagsSound, ViewsBacked
    <3> QED BY <1>1, <2>2, <3>2, <3>3
  <2> QED BY <2>1, <2>2
<1> HIDE DEF n
<1>3. /\ e \in Entries \cup {None}
      /\ e # None => e = n
      /\ e = None => c = Pruned /\ TipCoins[x] = Pruned
      /\ tip' = tip \/ tip' = TipWith(x)
  BY <1>1, <1>2, CacheAssumption
<1> HIDE DEF e
<1>4. /\ Inv' /\ TipCoins' = TipCoins /\ TipBlock' = TipBlock
      /\ Shown' = [Shown EXCEPT ![v] =
                     [@ EXCEPT ![x] = IF e = None THEN TipCoins[x] ELSE e.coins]]
  <2>1. Puts(v, x, e)
    BY <1>1, <1>2, <1>3 DEF Puts
  <2> QED BY <1>1, <1>3, <2>1, ViewUpdate
<1>5. (IF e = None THEN TipCoins[x] ELSE e.coins) = c
  BY <1>2, <1>3
<1> QED BY <1>1, <1>4, <1>5

\* With every view empty, all of them show what pcoinsTip shows.
LEMMA ViewsEmpty ==
    ASSUME view' = [w \in Views |-> Empty]
    PROVE  /\ Shown' = [w \in Views |-> TipCoins']
           /\ ViewsBacked'
           /\ \A w \in Views, x \in Txids : view'[w][x] = None
<1>1. \A w \in Views, x \in Txids : view'[w][x] = None
  BY DEF Empty
<1>2. \A w \in Views : ViewCoins(w)' = TipCoins'
  <2> TAKE w \in Views
  <2>1. ViewCoins(w)' = [x \in Txids |-> TipCoins'[x]]
    BY <1>1 DEF ViewCoins
  <2> QED BY <2>1 DEF TipCoins
<1> QED BY <1>1, <1>2 DEF Shown, ViewsBacked

\* A view that is dropped leaves pcoinsTip as it was.
LEMMA AbandonStep ==
    ASSUME Inv, NEW v \in Views, Abandon(v)
    PROVE  /\ Inv'
           /\ Shown' = [Shown EXCEPT ![v] = TipCoins]
           /\ UNCHANGED <<TipCoins, TipBlock, disk, diskBest>>
<1>1. TipCoins' = TipCoins /\ TipBlock' = TipBlock
  BY DEF Abandon, TipCoins, TipBlock
<1>2. /\ view \in [Views -> [Txids -> Entries \cup {None}]]
      /\ view' = [view EXCEPT ![v] = Empty]
  BY DEF Inv, TypeOK, Abandon
<1>3. \A w \in Views : view'[w] = IF w = v THEN Empty ELSE view[w]
  BY <1>2
<1>4. \A x \in Txids : view'[v][x] = None
  BY <1>3 DEF Empty
<1>5. TypeOK'
  <2>1. Empty \in [Txids -> Entries \cup {None}]
    BY DEF Empty
  <2> QED BY <1>2, <1>3, <2>1 DEF Inv, TypeOK, Abandon
<1>6. FlagsSound' /\ ViewsBacked'
  BY <1>1, <1>3, <1>4 DEF Inv, FlagsSound, ViewsBacked, Abandon
<1>7. Shown' = [Shown EXCEPT ![v] = TipCoins]
  <2>1. ViewCoins(v)' = TipCoins
    <3>1. ViewCoins(v)' = [x \in Txids |-> TipCoins[x]]
      BY <1>1, <1>4 DEF ViewCoins
    <3> QED BY <3>1 DEF TipCoins
  <2>2. \A w \in Views : w # v => ViewCoins(w)' = ViewCoins(w)
    BY <1>1, <1>3 DEF ViewCoins
  <2> QED BY <2>1, <2>2 DEF Shown
<1> QED
  BY <1>1, <1>5, <1>6, <1>7
  DEF Inv, Abandon, BestBlockNamesState, DiskNamesState

\* A flushed view becomes what pcoinsTip shows: BatchWrite loses no change, whichever
\* entries it overwrites, inserts, erases or skips.
LEMMA CommitStep ==
    ASSUME Inv, NEW v \in Views, NEW b \in Hashes, Commit(v, b)
    PROVE  /\ Inv'
           /\ TipCoins' = Shown[v] /\ TipBlock' = b
           /\ Shown' = [w \in Views |-> Shown[v]]
<1>1. /\ open = {v} /\ open' = {} /\ hashBlock' = b /\ UNCHANGED <<disk, diskBest>>
      /\ ViewCoins(v) = StateAt[b]
      /\ view' = [w \in Views |-> Empty]
  <2>1. \A w \in Views : w # v => view[w] = Empty
    BY DEF Inv, TypeOK, Commit
  <2> QED BY <2>1 DEF Commit, Inv, TypeOK
<1>2. ASSUME NEW x \in Txids
      PROVE  /\ tip'[x] \in Entries \cup {None}
             /\ tip'[x] # None => /\ tip'[x].fresh => disk[x] = Pruned
                                  /\ ~tip'[x].dirty => tip'[x].coins = disk[x]
             /\ (IF tip'[x] = None THEN disk[x] ELSE tip'[x].coins) = ViewCoins(v)[x]
  <2> DEFINE p == tip[x]
             e == view[v][x]
             n == [coins |-> e.coins, dirty |-> TRUE, fresh |-> p = None \/ p.fresh]
  <2>1. tip'[x] = Merged(p, e)
    BY DEF Commit
  <2>2. /\ p \in Entries \cup {None} /\ e \in Entries \cup {None} /\ disk[x] \in Coins
        /\ TipCoins[x] = IF p = None THEN disk[x] ELSE p.coins
        /\ ViewCoins(v)[x] = IF e = None THEN TipCoins[x] ELSE e.coins
    BY DEF Inv, TypeOK, TipCoins, ViewCoins
  <2>3. p # None => /\ p.fresh => disk[x] = Pruned
                    /\ ~p.dirty => p.coins = disk[x]
    BY DEF Inv, FlagsSound
  <2>4. e # None => /\ e.fresh => TipCoins[x] = Pruned
                    /\ ~e.dirty => e.coins = TipCoins[x]
                    /\ ~e.fresh => p # None
    BY DEF Inv, FlagsSound, ViewsBacked
  <2>5. e # None => /\ n \in Entries /\ n.coins = e.coins /\ n.dirty
                    /\ n.fresh <=> p = None \/ p.fresh
    BY <2>2 DEF Entries
  <2>6. n # None \/ e = None
    BY <2>5, CacheAssumption
  <2>7. tip'[x] = IF e = None \/ (e # None /\ ~e.dirty)
                  THEN p
                  ELSE IF e.coins = Pruned /\ (p = None \/ (p # None /\ p.fresh))
                  THEN None
                  ELSE n
    BY <2>1 DEF Merged
  <2> HIDE DEF p, e, n
  <2>8. CASE e = None \/ (e # None /\ ~e.dirty)
    <3>1. tip'[x] = p
      BY <2>7, <2>8
    <3> QED BY <3>1, <2>2, <2>3, <2>4, <2>8
  <2>9. CASE e # None /\ e.dirty /\ e.coins = Pruned /\ (p = None \/ (p # None /\ p.fresh))
    <3>1. tip'[x] = None
      BY <2>7, <2>9
    <3>2. disk[x] = Pruned
      BY <2>2, <2>3, <2>4, <2>9
    <3> QED BY <3>1, <3>2, <2>2, <2>9
  <2>10. CASE e # None /\ e.dirty /\ ~(e.coins = Pruned /\ (p = None \/ (p # None /\ p.fresh)))
    <3>1. tip'[x] = n
      BY <2>7, <2>10
    <3>2. n.fresh => disk[x] = Pruned
      BY <2>2, <2>3, <2>4, <2>5, <2>10
    <3> QED BY <3>1, <3>2, <2>2, <2>5, <2>6, <2>10
  <2> QED BY <2>8, <2>9, <2>10
<1>3. tip' \in [Txids -> Entries \cup {None}]
  BY <1>2 DEF Commit
<1>4. TipCoins' = ViewCoins(v)
  <2>1. TipCoins' = [x \in Txids |-> ViewCoins(v)[x]]
    BY <1>1, <1>2 DEF TipCoins
  <2> QED BY <2>1 DEF ViewCoins
<1>5. TipBlock' = b
  BY <1>1, CacheAssumption DEF TipBlock
<1>6. Shown' = [w \in Views |-> TipCoins'] /\ ViewsBacked'
      /\ \A w \in Views, x \in Txids : view'[w][x] = None
  BY <1>1, ViewsEmpty
<1>7. TypeOK'
  BY <1>1, <1>3 DEF Inv, TypeOK, Empty
<1>8. FlagsSound'
  BY <1>1, <1>2, <1>6 DEF FlagsSound
<1>9. BestBlockNamesState'
  BY <1>1, <1>4, <1>5 DEF Inv, BestBlockNamesState, DiskNamesState
<1> QED BY <1>4, <1>5, <1>6, <1>7, <1>8, <1>9 DEF Inv, Shown

\* The dirty entries of pcoinsTip are all the database needs.
LEMMA SaveStep ==
    ASSUME Inv, Save
    PROVE  /\ Inv'
           /\ disk' = TipCoins /\ diskBest' = TipBlock
           /\ UNCHANGED <<open, Shown, TipCoins, TipBlock>>
<1>1. open = {} /\ tip' = Empty /\ view' = view /\ view = [w \in Views |-> Empty]
  BY DEF Save, Inv, TypeOK
<1>2. \A x \in Txids : Saved(x) = TipCoins[x]
  BY DEF Inv, FlagsSound, Saved, TipCoins
<1>3. disk' = TipCoins
  BY <1>2 DEF Save, TipCoins
<1>4. \A x \in Txids : tip'[x] = None
  BY <1>1 DEF Empty
<1>5. TipCoins' = TipCoins
  <2>1. TipCoins' = [x \in Txids |-> TipCoins[x]]
    BY <1>3, <1>4 DEF TipCoins
  <2> QED BY <2>1 DEF TipCoins
<1>6. TipBlock' = TipBlock /\ diskBest' = TipBlock
  BY DEF Save, TipBlock
<1>7. Shown' = [w \in Views |-> TipCoins'] /\ ViewsBacked'
      /\ \A w \in Views, x \in Txids : view'[w][x] = None
  BY <1>1, ViewsEmpty
<1>8. Shown' = Shown
  BY <1>1, <1>5 DEF Shown, ViewCoins
<1>9. TypeOK'
  <2>1. TipCoins \in [Txids -> Coins]
    BY DEF Inv, TypeOK, TipCoins, Entries
  <2> QED BY <1>1, <1>3, <2>1 DEF Inv, TypeOK, Save, TipBlock, Empty
<1>10. FlagsSound'
  BY <1>4, <1>7 DEF FlagsSound
<1>11. BestBlockNamesState'
  BY <1>3, <1>5, <1>6 DEF Inv, BestBlockNamesState, DiskNamesState
<1> QED
  BY <1>3, <1>5, <1>6, <1>7, <1>8, <1>9, <1>10, <1>11 DEF Inv, Save

\* After a restart pcoinsTip shows the database.
LEMMA RestartStep ==
    ASSUME Inv, Restart
    PROVE  /\ Inv'
           /\ open' = {} /\ TipCoins' = disk /\ TipBlock' = diskBest
           /\ Shown' = [w \in Views |-> disk]
           /\ UNCHANGED <<disk, diskBest>>
<1>1. \A x \in Txids : tip'[x] = None
  BY DEF Restart, Empty
<1>2. TipCoins' = disk
  <2>1. TipCoins' = [x \in Txids |-> disk[x]]
    BY <1>1 DEF TipCoins, Restart
  <2> QED BY <2>1 DEF Inv, TypeOK
<1>3. TipBlock' = diskBest
  BY DEF Restart, TipBlock
<1>4. Shown' = [w \in Views |-> TipCoins'] /\ ViewsBacked'
      /\ \A w \in Views, x \in Txids : view'[w][x] = None
  BY ViewsEmpty DEF Restart
<1>5. TypeOK'
  BY DEF Inv, TypeOK, Restart, Empty
<1>6. FlagsSound'
  BY <1>1, <1>4 DEF FlagsSound
<1>7. BestBlockNamesState'
  BY <1>2, <1>3 DEF Inv, BestBlockNamesState, DiskNamesState, Restart
<1> QED BY <1>2, <1>3, <1>4, <1>5, <1>6, <1>7 DEF Inv, Restart

---------------------------------------------------------------------------
(* The theorems. *)

\* Every operation of the caches keeps the invariant and is a step of CoinStore or none.
LEMMA NextStep ==
    ASSUME Inv, [Next]_vars
    PROVE  Inv' /\ [Store!Next]_(Store!vars)
<1>1. CASE UNCHANGED vars
  <2>1. TipCoins' = TipCoins /\ TipBlock' = TipBlock
    BY <1>1 DEF vars, TipCoins, TipBlock
  <2>2. Shown' = Shown
    BY <1>1, <2>1 DEF vars, Shown, ViewCoins
  <2>3. Inv'
    BY <1>1, <2>1
    DEF vars, Inv, TypeOK, FlagsSound, ViewsBacked, BestBlockNamesState, DiskNamesState
  <2> QED BY <1>1, <2>1, <2>2, <2>3 DEF vars, Store!vars, Shown
<1>2. ASSUME Stutter, Inv' PROVE Inv' /\ [Store!Next]_(Store!vars)
  BY <1>2 DEF Stutter, Store!vars, Shown
<1>3. CASE \E x \in Txids : ReadTip(x)
  BY <1>2, <1>3, ReadTipStep
<1>4. CASE ReadBestBlock
  BY <1>2, <1>4, ReadBestBlockStep
<1>5. ASSUME NEW v \in Views, Open(v) PROVE Inv' /\ [Store!Next]_(Store!vars)
  <2>1. Store!Open(v)
    BY <1>5, OpenStep DEF Open, Shown, Store!Open
  <2> QED BY <1>5, <2>1, OpenStep DEF Store!Next
<1>6. ASSUME NEW v \in Views, Abandon(v) PROVE Inv' /\ [Store!Next]_(Store!vars)
  <2>1. Store!Abandon(v)
    BY <1>6, AbandonStep DEF Abandon, Shown, Store!Abandon
  <2> QED BY <1>6, <2>1, AbandonStep DEF Store!Next
<1>7. CASE \E v \in Views, x \in Txids : Read(v, x)
  BY <1>2, <1>7, ReadStep
<1>8. ASSUME NEW v \in Views, NEW x \in Txids, NEW c \in Coins, Modify(v, x, c)
      PROVE  Inv' /\ [Store!Next]_(Store!vars)
  <2>1. Store!Modify(v, x, c)
    BY <1>8, ModifyStep DEF Shown, Store!Modify
  <2> QED BY <1>8, <2>1, ModifyStep DEF Store!Next, Coins
<1>9. ASSUME NEW v \in Views, NEW b \in Hashes, Commit(v, b)
      PROVE  Inv' /\ [Store!Next]_(Store!vars)
  <2>1. Store!Commit(v, b)
    BY <1>9, CommitStep DEF Commit, Shown, Store!Commit
  <2> QED BY <1>9, <2>1, CommitStep DEF Store!Next
<1>10. CASE Save
  <2>1. Store!Save
    BY <1>10, SaveStep DEF Save, Shown, Store!Save
  <2> QED BY <1>10, <2>1, SaveStep DEF Store!Next
<1>11. CASE Restart
  <2>1. Store!Restart
    BY <1>11, RestartStep DEF Shown, Store!Restart
  <2> QED BY <1>11, <2>1, RestartStep DEF Store!Next
<1> QED
  BY <1>1, <1>3, <1>4, <1>5, <1>6, <1>7, <1>8, <1>9, <1>10, <1>11 DEF Next

\* The inductive invariant holds in every reachable state of the caches.
LEMMA Invariance == Spec => []Inv
<1>1. Inv /\ [Next]_vars => Inv'
  BY NextStep
<1> QED BY InitInv, <1>1, PTL DEF Spec

\* At both cache levels and in every state the dirty and fresh flags mean what coins.h
\* says they mean.
THEOREM FlagsAlwaysSound == Spec => []FlagsSound
<1>1. Inv => FlagsSound
  BY DEF Inv
<1> QED BY <1>1, Invariance, PTL

\* The assertion in CCoinsViewCache::BatchWrite never fails.
THEOREM FlushAssertionHolds == Spec => []FlushAssertion
<1>1. Inv => FlushAssertion
  BY DEF Inv, ViewsBacked, FlushAssertion
<1> QED BY <1>1, Invariance, PTL

\* As long as no write fails, the coins in memory and those on disk are the coins of the
\* best block each of them reports, across flushes and restarts.
THEOREM BestBlockAlwaysNamesState == Spec => []BestBlockNamesState
<1>1. Inv => BestBlockNamesState
  BY DEF Inv
<1> QED BY <1>1, Invariance, PTL

\* The caches implement the plain maps of CoinStore.
THEOREM CoinStoreImplemented == Spec => ImplementsCoinStore
<1>1. Init => Store!Init
  <2> SUFFICES ASSUME Init PROVE Store!Init
    OBVIOUS
  <2>1. TipCoins = disk /\ TipBlock = diskBest
    BY CacheAssumption DEF Init, TipCoins, TipBlock, Empty
  <2>2. \A v \in Views : ViewCoins(v) = TipCoins
    <3> TAKE v \in Views
    <3>1. ViewCoins(v) = [x \in Txids |-> TipCoins[x]]
      BY DEF Init, ViewCoins, Empty
    <3> QED BY <3>1 DEF TipCoins
  <2> QED BY <2>1, <2>2 DEF Init, Store!Init
<1>2. Inv /\ [Next]_vars => [Store!Next]_(Store!vars)
  BY NextStep
<1> QED BY <1>1, <1>2, Invariance, PTL DEF Spec, ImplementsCoinStore, Store!Spec

=============================================================================
