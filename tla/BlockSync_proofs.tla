------------------------- MODULE BlockSync_proofs -------------------------
(***************************************************************************)
(* Proofs about block download: the requests in flight are listed twice    *)
(* and agree, the count of peers asked for their chain is exact, the last  *)
(* common block is full down to the root, and only a peer that owes the    *)
(* node a block can be taken to stall.  A single inductive invariant, SInv,*)
(* carries all four.                                                       *)
(***************************************************************************)
EXTENDS BlockSync, FiniteSetTheorems, TLAPS

\* The chain of the tip is there; ActivateBestChain only moves to linked blocks.
TipIsFull == Chain[tip] \subseteq data

SInv ==
    /\ TypeOK
    /\ InFlightExact
    /\ SyncCountExact
    /\ LastCommonIsFull
    /\ StallerOwes
    /\ TipIsFull

\* What a step may do to the chain: nothing is lost, and the tip stays full.
Grows ==
    /\ index \subseteq index' /\ index' \subseteq Blocks
    /\ data \subseteq data' /\ data' \subseteq index'
    /\ tip' \in Blocks /\ Chain[tip'] \subseteq data'

\* What a step may do to the requests.
RequestsAgree ==
    /\ flight' \in [Peers -> SUBSET Blocks]
    /\ inFlight' \in [Blocks -> Peers \cup {None}]
    /\ InFlightExact'
    /\ stalling' \subseteq Peers /\ StallerOwes'

CountAgrees == started' \subseteq conn' /\ SyncCountExact'

CommonIsFull == common' \in [Peers -> Blocks \cup {None}] /\ LastCommonIsFull'

LinksOK == leaving' \subseteq conn' /\ conn' \subseteq Peers

---------------------------------------------------------------------------
LEMMA ChainIsBlocks ==
    ASSUME NEW b \in Blocks
    PROVE  /\ Chain[b] \subseteq Blocks /\ b \in Chain[b]
           /\ \A a \in Chain[b] : Chain[a] \subseteq Chain[b]
    BY TreeAssumption

\* The parts together give the invariant again.
LEMMA Together ==
    ASSUME Grows, RequestsAgree, CountAgrees, CommonIsFull, LinksOK
    PROVE  SInv'
    BY DEF Grows, RequestsAgree, CountAgrees, CommonIsFull, LinksOK, SInv, TypeOK, TipIsFull,
           InFlightExact, SyncCountExact, LastCommonIsFull, StallerOwes

LEMMA ChainKept ==
    ASSUME SInv, UNCHANGED chainVars
    PROVE  Grows
    BY DEF SInv, TypeOK, TipIsFull, Grows, chainVars

LEMMA RequestsKept ==
    ASSUME SInv, UNCHANGED <<flight, inFlight, stalling>>
    PROVE  RequestsAgree
    BY DEF SInv, TypeOK, InFlightExact, StallerOwes, RequestsAgree

LEMMA CountKept ==
    ASSUME SInv, UNCHANGED syncVars, conn \subseteq conn'
    PROVE  CountAgrees
    BY DEF SInv, TypeOK, SyncCountExact, CountAgrees, syncVars

\* Full blocks stay full.
LEMMA CommonKept ==
    ASSUME SInv, UNCHANGED common, data \subseteq data'
    PROVE  CommonIsFull
    BY DEF SInv, TypeOK, LastCommonIsFull, CommonIsFull

---------------------------------------------------------------------------
(* Receiving a block. *)

\* The tip moves to a block whose whole chain is there, or stays.
LEMMA BestChain ==
    ASSUME SInv, NEW b \in Blocks, AcceptBlock(b)
    PROVE  Grows
<1>1. /\ index \subseteq index' /\ index' \subseteq Blocks /\ data \subseteq Blocks
      /\ data \subseteq data' /\ data' \subseteq index'
      BY DEF SInv, TypeOK, AcceptBlock, chainVars
<1>2. CASE UNCHANGED <<data, tip>>
      BY <1>1, <1>2 DEF Grows, SInv, TypeOK, TipIsFull
<1>3. CASE ~ UNCHANGED <<data, tip>>
    <2>1. ActivateBestChain(data')
          BY <1>3 DEF AcceptBlock, chainVars
    <2>2. CASE tip' = tip
          BY <1>1, <2>2 DEF Grows, SInv, TypeOK, TipIsFull
    <2>3. CASE tip' # tip
          BY <1>1, <2>1, <2>3 DEF ActivateBestChain, Heaviest, Linked, Grows
    <2> QED BY <2>2, <2>3
<1> QED BY <1>2, <1>3

\* MarkBlockAsReceived takes a block out of both lists, and ends the stall of its peer.
LEMMA Received ==
    ASSUME SInv, NEW b \in Blocks, MarkBlockAsReceived(b)
    PROVE  RequestsAgree
<1>1. CASE inFlight[b] = None
      BY <1>1, RequestsKept DEF MarkBlockAsReceived, requestVars
<1>2. CASE inFlight[b] # None
    <2> DEFINE p == inFlight[b]
    <2>1. /\ p \in Peers
          /\ flight' = [flight EXCEPT ![p] = @ \ {b}]
          /\ stalling' = stalling \ {p}
          /\ inFlight' = [inFlight EXCEPT ![b] = None]
          BY <1>2 DEF SInv, TypeOK, MarkBlockAsReceived
    <2>2. /\ flight' \in [Peers -> SUBSET Blocks]
          /\ inFlight' \in [Blocks -> Peers \cup {None}]
          BY <2>1 DEF SInv, TypeOK
    <2>3. ASSUME NEW r \in Peers
          PROVE  flight'[r] = {x \in Blocks : inFlight'[x] = r}
        <3>1. flight[r] = {x \in Blocks : inFlight[x] = r}
              BY DEF SInv, InFlightExact
        <3>2. None # r
              BY SyncAssumption
        <3>3. \A x \in Blocks : inFlight'[x] = IF x = b THEN None ELSE inFlight[x]
              BY <2>1 DEF SInv, TypeOK
        <3>4. flight'[r] = IF r = p THEN flight[r] \ {b} ELSE flight[r]
              BY <2>1 DEF SInv, TypeOK
        <3> QED BY <3>1, <3>2, <3>3, <3>4
    <2>4. stalling' \subseteq Peers /\ \A r \in stalling' : flight'[r] # {}
          BY <2>1 DEF SInv, TypeOK, StallerOwes
    <2> QED BY <2>2, <2>3, <2>4 DEF RequestsAgree, InFlightExact, StallerOwes
<1> QED BY <1>1, <1>2

---------------------------------------------------------------------------
(* Asking for blocks. *)

LEMMA MarkInFlight ==
    ASSUME SInv, NEW p \in Peers, NEW S \in SUBSET Blocks, MarkBlocksAsInFlight(p, S),
           \A b \in S : inFlight[b] = None,
           NEW T, T \subseteq {inFlight[b] : b \in {x \in Blocks : inFlight[x] # None}},
           stalling' \subseteq stalling \cup T
    PROVE  RequestsAgree
<1>1. /\ flight' \in [Peers -> SUBSET Blocks]
      /\ inFlight' \in [Blocks -> Peers \cup {None}]
      BY DEF SInv, TypeOK, MarkBlocksAsInFlight
<1>2. \A r \in Peers : flight'[r] = IF r = p THEN flight[r] \cup S ELSE flight[r]
      BY DEF SInv, TypeOK, MarkBlocksAsInFlight
<1>3. ASSUME NEW r \in Peers
      PROVE  flight'[r] = {x \in Blocks : inFlight'[x] = r}
    <2>1. flight[r] = {x \in Blocks : inFlight[x] = r}
          BY DEF SInv, InFlightExact
    <2>2. None # r
          BY SyncAssumption
    <2>3. \A x \in Blocks : inFlight'[x] = IF x \in S THEN p ELSE inFlight[x]
          BY DEF MarkBlocksAsInFlight
    <2> QED BY <1>2, <2>1, <2>2, <2>3
<1>4. ASSUME NEW r \in T
      PROVE  r \in Peers /\ flight[r] # {}
    <2>1. PICK x \in Blocks : inFlight[x] # None /\ r = inFlight[x]
          OBVIOUS
    <2>2. r \in Peers
          BY <2>1 DEF SInv, TypeOK
    <2>3. x \in flight[r]
          BY <2>1, <2>2 DEF SInv, InFlightExact
    <2> QED BY <2>2, <2>3
<1>5. stalling' \subseteq Peers /\ \A r \in stalling' : flight'[r] # {}
      BY <1>2, <1>4 DEF SInv, TypeOK, StallerOwes
<1> QED BY <1>1, <1>3, <1>5 DEF RequestsAgree, InFlightExact, StallerOwes

\* Asking for what the peer is known to have keeps the lists and the last common block.
LEMMA Fetched ==
    ASSUME SInv, NEW p \in Peers, NEW bk \in Blocks, FetchMissing(p, bk), UNCHANGED data
    PROVE  RequestsAgree /\ CommonIsFull
<1>0. PICK from \in CommonFrom(p, bk) :
          \E c \in Highest(Chain[from] \cap Chain[bk]) :
              /\ \E k \in Highest(Passed(c, bk)) : common' = [common EXCEPT ![p] = k]
              /\ MarkBlocksAsInFlight(p, Wanted(p, c, bk))
              /\ stalling' = IF flight[p] \cup Wanted(p, c, bk) = {}
                             THEN stalling \cup Staller(p, c, bk) ELSE stalling
      BY DEF FetchMissing
<1>1. PICK c \in Highest(Chain[from] \cap Chain[bk]) :
          /\ \E k \in Highest(Passed(c, bk)) : common' = [common EXCEPT ![p] = k]
          /\ MarkBlocksAsInFlight(p, Wanted(p, c, bk))
          /\ stalling' = IF flight[p] \cup Wanted(p, c, bk) = {}
                         THEN stalling \cup Staller(p, c, bk) ELSE stalling
      BY <1>0
<1>2. from \in Blocks /\ Chain[from] \subseteq data
    <2>1. CASE common[p] # None
          BY <2>1 DEF CommonFrom, SInv, TypeOK, LastCommonIsFull
    <2>2. CASE common[p] = None
          BY <2>2, ChainIsBlocks DEF CommonFrom, SInv, TypeOK, TipIsFull
    <2> QED BY <2>1, <2>2
<1>3. c \in Blocks /\ Chain[c] \subseteq data
      BY <1>2, ChainIsBlocks DEF Highest
<1>4. Walk(c, bk) \subseteq Blocks
      BY ChainIsBlocks DEF Walk
<1>5. CommonIsFull
    <2>1. PICK k \in Highest(Passed(c, bk)) : common' = [common EXCEPT ![p] = k]
          BY <1>1
    <2>2. k \in Blocks /\ Chain[k] \subseteq data
          BY <1>3, <1>4 DEF Highest, Passed, Linked
    <2> QED BY <2>1, <2>2 DEF CommonIsFull, LastCommonIsFull, SInv, TypeOK
<1>6. RequestsAgree
    <2>1. /\ Wanted(p, c, bk) \subseteq Blocks
          /\ \A b \in Wanted(p, c, bk) : inFlight[b] = None
          BY <1>4 DEF Wanted, InWindow, Missing
    <2>2. Staller(p, c, bk) \subseteq {inFlight[b] : b \in {x \in Blocks : inFlight[x] # None}}
          BY <1>4 DEF Staller
    <2>3. stalling' \subseteq stalling \cup Staller(p, c, bk)
          BY <1>1
    <2> QED BY <1>1, <2>1, <2>2, <2>3, MarkInFlight
<1> QED BY <1>5, <1>6

LEMMA FetchedBlocks ==
    ASSUME SInv, NEW p \in Peers, FetchBlocks(p), UNCHANGED chainVars
    PROVE  RequestsAgree /\ CommonIsFull
<1>1. CASE NothingToFetch(p)
      BY <1>1, RequestsKept, CommonKept DEF NothingToFetch, requestVars, chainVars
<1>2. CASE ~ NothingToFetch(p)
    <2>1. PICK bk \in BestOf(<<best[p], unknown[p]>>) : bk # None /\ FetchMissing(p, bk)
          BY <1>2 DEF FetchBlocks
    <2>2. bk \in index
          BY <2>1 DEF BestOf
    <2> QED BY <2>1, <2>2, Fetched DEF SInv, TypeOK, chainVars
<1> QED BY <1>1, <1>2

\* Each peer is counted once, when it is asked.
LEMMA Counted ==
    ASSUME SInv, NEW p \in conn, StartSync(p), UNCHANGED conn
    PROVE  CountAgrees
<1>1. CASE StartsSync(p)
    <2>1. IsFiniteSet(started) /\ p \notin started
          BY <1>1, FS_Subset, SyncAssumption DEF SInv, TypeOK, StartsSync
    <2>2. Cardinality(started \cup {p}) = Cardinality(started) + 1
          BY <2>1, FS_AddElement
    <2> QED BY <1>1, <2>2 DEF StartSync, CountAgrees, SyncCountExact, SInv, TypeOK
<1>2. CASE ~ StartsSync(p)
      BY <1>2, CountKept DEF StartSync
<1> QED BY <1>1, <1>2

---------------------------------------------------------------------------
(* The end of a connection. *)

LEMMA Finalized ==
    ASSUME SInv, NEW p \in Peers, FinalizeNode(p)
    PROVE  SInv'
<1> USE DEF FinalizeNode
<1>1. Grows
      BY ChainKept
<1>2. RequestsAgree
    <2>1. /\ flight' \in [Peers -> SUBSET Blocks]
          /\ inFlight' \in [Blocks -> Peers \cup {None}]
          BY DEF RequestsGone, SInv, TypeOK
    <2>2. ASSUME NEW r \in Peers
          PROVE  flight'[r] = {x \in Blocks : inFlight'[x] = r}
        <3>1. /\ flight[r] = {x \in Blocks : inFlight[x] = r}
              /\ flight[p] = {x \in Blocks : inFlight[x] = p}
              BY DEF SInv, InFlightExact
        <3>2. None # r
              BY SyncAssumption
        <3>3. flight'[r] = IF r = p THEN {} ELSE flight[r]
              BY DEF SInv, TypeOK
        <3>4. \A x \in Blocks : inFlight'[x] = IF x \in flight[p] THEN None ELSE inFlight[x]
              BY DEF RequestsGone
        <3> QED BY <3>1, <3>2, <3>3, <3>4
    <2>3. stalling' \subseteq Peers /\ \A r \in stalling' : flight'[r] # {}
          BY DEF SInv, TypeOK, StallerOwes
    <2> QED BY <2>1, <2>2, <2>3 DEF RequestsAgree, InFlightExact, StallerOwes
<1>3. CountAgrees
    <2>1. IsFiniteSet(started)
          BY FS_Subset, SyncAssumption DEF SInv, TypeOK
    <2>2. CASE p \in started
        <3>1. Cardinality(started \ {p}) = Cardinality(started) - 1
              BY <2>1, <2>2, FS_RemoveElement
        <3> QED BY <2>2, <3>1 DEF CountAgrees, SyncCountExact, SInv, TypeOK
    <2>3. CASE p \notin started
        <3>1. started \ {p} = started
              BY <2>3
        <3> QED BY <2>3, <3>1 DEF CountAgrees, SyncCountExact, SInv, TypeOK
    <2> QED BY <2>2, <2>3
<1>4. CommonIsFull
      BY DEF CommonIsFull, LastCommonIsFull, SInv, TypeOK, chainVars
<1>5. LinksOK
      BY DEF LinksOK, SInv, TypeOK
<1> QED BY <1>1, <1>2, <1>3, <1>4, <1>5, Together

---------------------------------------------------------------------------
(* Every step. *)

\* Steps that leave requests, counts and last common blocks alone.
LEMMA Others ==
    ASSUME SInv, Grows, LinksOK, conn \subseteq conn',
           UNCHANGED <<flight, inFlight, stalling, common, syncVars>>
    PROVE  SInv'
<1>1. RequestsAgree /\ CountAgrees
      BY RequestsKept, CountKept
<1>2. CommonIsFull
      BY CommonKept DEF Grows
<1> QED BY <1>1, <1>2, Together

LEMMA StepKeepsSInv ==
    ASSUME SInv, [Next]_vars
    PROVE  SInv'
<1> USE DEF requestVars, viewVars, serverVars, linkVars, boundVars
<1>0. SInv => LinksOK \/ ~ UNCHANGED <<conn, leaving>>
      BY DEF SInv, TypeOK, LinksOK
<1>1. CASE UNCHANGED vars
      BY <1>0, <1>1, ChainKept, Others DEF vars
<1>2. ASSUME NEW p \in Peers, Connect(p)
      PROVE  SInv'
    <2>1. LinksOK /\ conn \subseteq conn'
          BY <1>2 DEF Connect, LinksOK, SInv, TypeOK
    <2> QED BY <1>2, <2>1, ChainKept, Others DEF Connect
<1>3. ASSUME NEW p \in Peers, Lose(p)
      PROVE  SInv'
    <2>1. LinksOK /\ conn \subseteq conn'
          BY <1>3 DEF Lose, LinksOK, SInv, TypeOK
    <2> QED BY <1>3, <2>1, ChainKept, Others DEF Lose
<1>4. ASSUME NEW p \in Peers, FinalizeNode(p)
      PROVE  SInv'
      BY <1>4, Finalized
<1>5. ASSUME NEW p \in Peers, ReceiveInv(p)
      PROVE  SInv'
      BY <1>0, <1>5, ChainKept, Others DEF ReceiveInv
<1>6. ASSUME NEW p \in Peers, SendMessages(p)
      PROVE  SInv'
    <2>1. RequestsAgree /\ CommonIsFull
          BY <1>6, FetchedBlocks DEF SendMessages
    <2>2. CountAgrees
          BY <1>6, Counted DEF SendMessages
    <2>3. Grows
          BY <1>6, ChainKept DEF SendMessages
    <2>4. LinksOK
          BY <1>0, <1>6 DEF SendMessages
    <2> QED BY <2>1, <2>2, <2>3, <2>4, Together
<1>7. ASSUME NEW p \in Peers, TimeOut(p)
      PROVE  SInv'
    <2>1. CountAgrees
          BY <1>7, Counted DEF TimeOut
    <2>2. LinksOK
          BY <1>7 DEF TimeOut, LinksOK, SInv, TypeOK
    <2>3. Grows
          BY <1>7, ChainKept DEF TimeOut
    <2>4. RequestsAgree
          BY <1>7, RequestsKept DEF TimeOut
    <2>5. CommonIsFull
          BY <1>7, <2>3, CommonKept DEF TimeOut, Grows
    <2> QED BY <2>1, <2>2, <2>3, <2>4, <2>5, Together
<1>8. ASSUME NEW p \in Peers,
             ServeGetBlocks(p) \/ ServeGetData(p) \/ Announce(p) \/ \E b \in Blocks : FindBlock(p, b)
      PROVE  SInv'
    <2>1. UNCHANGED <<chainVars, requestVars, viewVars, syncVars, linkVars>>
          BY <1>8 DEF ServeGetBlocks, ServeGetData, Announce, FindBlock
    <2> QED BY <1>0, <2>1, ChainKept, Others
<1>9. ASSUME NEW p \in Peers, NEW b \in Blocks, ReceiveBlock(p, b)
      PROVE  SInv'
    <2>1. LinksOK /\ CountAgrees
          BY <1>0, <1>9, CountKept DEF ReceiveBlock
    <2>2. CASE ProcessNewBlock(b) /\ UNCHANGED viewVars
        <3>1. Grows /\ RequestsAgree
              BY <2>2, BestChain, Received DEF ProcessNewBlock
        <3>2. CommonIsFull
              BY <2>2, <3>1, CommonKept DEF Grows
        <3> QED BY <2>1, <3>1, <3>2, Together
    <2>3. CASE UNCHANGED <<chainVars, requestVars, common>>
        <3>1. Grows /\ RequestsAgree
              BY <2>3, ChainKept, RequestsKept
        <3>2. CommonIsFull
              BY <2>3, <3>1, CommonKept DEF Grows
        <3> QED BY <2>1, <3>1, <3>2, Together
    <2> QED BY <1>9, <2>2, <2>3 DEF ReceiveBlock, ThrowAway
<1>10. ASSUME NEW b \in Blocks, SubmitBlock(b)
       PROVE  SInv'
    <2>1. Grows /\ RequestsAgree
          BY <1>10, BestChain, Received DEF SubmitBlock, ProcessNewBlock
    <2>2. CommonIsFull
          BY <1>10, <2>1, CommonKept DEF SubmitBlock, Grows
    <2>3. LinksOK /\ CountAgrees
          BY <1>0, <1>10, CountKept DEF SubmitBlock
    <2> QED BY <2>1, <2>2, <2>3, Together
<1> QED
    BY <1>1, <1>2, <1>3, <1>4, <1>5, <1>6, <1>7, <1>8, <1>9, <1>10 DEF Next

LEMMA InitSInv == Init => SInv
<1> SUFFICES ASSUME Init PROVE SInv
    OBVIOUS
<1>1. tip \in Blocks /\ Chain[tip] \subseteq Blocks
      BY SyncAssumption, ChainIsBlocks DEF Init
<1>2. TypeOK /\ TipIsFull
      BY <1>1 DEF Init, TypeOK, TipIsFull
<1>3. InFlightExact
      BY SyncAssumption DEF Init, InFlightExact
<1>4. SyncCountExact
      BY FS_EmptySet DEF Init, SyncCountExact
<1>5. LastCommonIsFull /\ StallerOwes
      BY DEF Init, LastCommonIsFull, StallerOwes
<1> QED BY <1>2, <1>3, <1>4, <1>5 DEF SInv

THEOREM SyncInvariance == Spec => []SInv
<1>1. SInv /\ [Next]_vars => SInv'
      BY StepKeepsSInv
<1> QED BY InitSInv, <1>1, PTL DEF Spec

\* What is asked of whom is the same in mapBlocksInFlight and in the lists of the peers,
\* for any number of peers, blocks and lost connections.
THEOREM RequestsListedOnce == Spec => []InFlightExact
<1>1. SInv => InFlightExact
      BY DEF SInv
<1> QED BY SyncInvariance, <1>1, PTL

\* nSyncStarted is the number of peers that were asked and are still there.
THEOREM SyncCounted == Spec => []SyncCountExact
<1>1. SInv => SyncCountExact
      BY DEF SInv
<1> QED BY SyncInvariance, <1>1, PTL

\* Nothing below pindexLastCommonBlock is missing.
THEOREM CommonBlocksFull == Spec => []LastCommonIsFull
<1>1. SInv => LastCommonIsFull
      BY DEF SInv
<1> QED BY SyncInvariance, <1>1, PTL

\* A peer with nStallingSince set has a block in flight.
THEOREM StallersOwe == Spec => []StallerOwes
<1>1. SInv => StallerOwes
      BY DEF SInv
<1> QED BY SyncInvariance, <1>1, PTL

=============================================================================
