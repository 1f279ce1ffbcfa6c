----------------------------- MODULE BlockSync -----------------------------
(***************************************************************************)
(* Block download (main.cpp): what the node knows of the blocks its peers  *)
(* have, how it asks for them, and how peers that run the same code answer.*)
(*                                                                         *)
(* Blocks travel by getblocks -> inv -> getdata -> block.  A peer answers  *)
(* a getblocks with at most Limit hashes and remembers the last one in     *)
(* hashContinue; when that block is asked for, it sends the hash of its    *)
(* tip, the node fetches the tip, cannot place it, and sends the next      *)
(* getblocks.  Beside this, SendMessages asks for blocks whose header the  *)
(* node has without the data (FindNextBlocksToDownload).                   *)
(*                                                                         *)
(* Simplifications.  All blocks are valid, no checkpoint forbids one and   *)
(* every peer follows the protocol.  pcoinsTip and mapStakeSpent are taken *)
(* from module ChainState as what they are shown to be: the outputs the    *)
(* chain of the tip leaves unspent, and some or all of those it has spent  *)
(* (old ones are pruned, and after a start there are only those of the     *)
(* blocks VerifyDB looked at).  A locator names every block of the chain   *)
(* (real ones thin out after ten).  The node's own announcements are left  *)
(* out: they tell a peer about blocks the node already has.  A peer's      *)
(* setInventoryKnown is large enough never to forget an entry.             *)
(***************************************************************************)
EXTENDS BlockTree, Sequences

CONSTANTS
    Peers,
    Preferred,       \* peers that get fPreferredDownload
    Starts,          \* tips the node may start with
    FirstTip,        \* FirstTip[p]: the tip of p's chain at first
    NextTips,        \* NextTips[p]: tips p may find later
    Elsewhere,       \* blocks that may be handed to submitblock
    Limit,           \* nLimit of the getblocks handler
    Window,          \* BLOCK_DOWNLOAD_WINDOW
    InTransit,       \* MAX_BLOCKS_IN_TRANSIT_PER_PEER
    MaxReorg,        \* MaxReorganizationDepth: how far below its tip a peer serves stale blocks
    MaxDepth,        \* -maxreorg: how far below the node's tip a new header may fork off
    Recent,          \* a header this high is less than six hours old
    MaxConnections,  \* bound: connections made
    MaxFound,        \* bound: new tips of peers, and blocks handed to submitblock
    None

ASSUME SyncAssumption ==
    /\ IsFiniteSet(Peers) /\ Preferred \subseteq Peers
    /\ Starts \subseteq Blocks /\ Elsewhere \subseteq Blocks
    /\ FirstTip \in [Peers -> Blocks] /\ NextTips \in [Peers -> SUBSET Blocks]
    /\ None \notin Blocks /\ None \notin Peers
    /\ Limit \in Nat \ {0} /\ InTransit \in Nat \ {0}
    /\ {Window, MaxReorg, MaxDepth, Recent, MaxConnections, MaxFound} \subseteq Nat

VARIABLES
    index,      \* mapBlockIndex
    data,       \* entries with BLOCK_HAVE_DATA
    tip,        \* chainActive.Tip()
    conn,       \* mapNodeState: peers between InitializeNode and FinalizeNode
    leaving,    \* connected peers with fDisconnect
    best,       \* pindexBestKnownBlock
    unknown,    \* hashLastUnknownBlock
    common,     \* pindexLastCommonBlock
    started,    \* peers with fSyncStarted
    stalling,   \* peers with nStallingSince # 0
    flight,     \* the hashes in vBlocksInFlight
    asked,      \* vBlockRequested
    inFlight,   \* mapBlocksInFlight: the peer a block was asked of, or None
    nSync,      \* nSyncStarted
    nQueued,    \* nQueuedValidatedHeaders
    peerTip,    \* a peer's chainActive.Tip()
    known,      \* a peer's setInventoryKnown for the node
    toSend,     \* a peer's vInventoryToSend for the node
    continue,   \* a peer's hashContinue for the node
    toPeer,     \* messages on the way to a peer
    toNode,     \* messages on the way to the node
    opened,     \* counter for MaxConnections
    found       \* counter for MaxFound

chainVars == <<index, data, tip>>
requestVars == <<stalling, flight, inFlight, nQueued>>
viewVars == <<best, unknown, common, asked>>
syncVars == <<started, nSync>>
serverVars == <<known, toSend, continue>>
linkVars == <<conn, leaving, opened>>
boundVars == <<peerTip, found>>
vars == <<chainVars, requestVars, viewVars, syncVars, serverVars, linkVars, boundVars,
          toPeer, toNode>>

Init ==
    /\ tip \in Starts /\ index = Chain[tip] /\ data = Chain[tip]
    /\ conn = {} /\ leaving = {} /\ opened = 0
    /\ best = [p \in Peers |-> None] /\ unknown = [p \in Peers |-> None]
    /\ common = [p \in Peers |-> None] /\ asked = [p \in Peers |-> {}]
    /\ started = {} /\ nSync = 0
    /\ stalling = {} /\ flight = [p \in Peers |-> {}]
    /\ inFlight = [b \in Blocks |-> None] /\ nQueued = 0
    /\ peerTip = FirstTip /\ found = 0
    /\ known = [p \in Peers |-> {}] /\ toSend = [p \in Peers |-> <<>>]
    /\ continue = [p \in Peers |-> None]
    /\ toPeer = [p \in Peers |-> <<>>] /\ toNode = [p \in Peers |-> <<>>]

---------------------------------------------------------------------------
(* Blocks and messages. *)

\* Every block up to b is there (nChainTx # 0).
Linked(b, d) == Chain[b] \subseteq d

Highest(S) == {b \in S : \A a \in S : Height[a] <= Height[b]}

Heaviest(S) == {b \in S : \A a \in S : Work[a] <= Work[b]}

\* Blocks of one chain, lowest first.
Upwards(S) ==
    [i \in 1..Cardinality(S) |->
        CHOOSE b \in S : Cardinality({a \in S : Height[a] <= Height[b]}) = i]

Items(s) == {s[i] : i \in 1..Len(s)}

GetBlocks(stop) == [type |-> "getblocks", from |-> tip, stop |-> stop]

GetData(hashes) == [type |-> "getdata", hashes |-> hashes]

Inv(hashes) == [type |-> "inv", hashes |-> hashes]

BlockMsg(b) == [type |-> "block", hash |-> b]

\* The messages a handler sends; no message for an empty request.
Push(q, p, m) == [q EXCEPT ![p] = Append(@, m)]

Ask(q, p, hashes) == IF hashes = <<>> THEN q ELSE Push(q, p, GetData(hashes))

Serving(p, type) ==
    /\ p \in conn \ leaving
    /\ toPeer[p] # <<>>
    /\ Head(toPeer[p]).type = type

---------------------------------------------------------------------------
(* Connections. *)

Connect(p) ==
    /\ p \notin conn
    /\ opened < MaxConnections
    /\ conn' = conn \cup {p}
    /\ opened' = opened + 1
    /\ UNCHANGED <<chainVars, requestVars, viewVars, syncVars, serverVars, boundVars,
                   leaving, toPeer, toNode>>

\* The socket fails, or the peer closes it.
Lose(p) ==
    /\ p \in conn \ leaving
    /\ leaving' = leaving \cup {p}
    /\ UNCHANGED <<chainVars, requestVars, viewVars, syncVars, serverVars, boundVars,
                   conn, opened, toPeer, toNode>>

\* Mistake: the entries of mapBlocksInFlight stay.
RequestsStay(p) == inFlight' = inFlight

\* The requests made to p are forgotten with it.
RequestsGone(p) ==
    inFlight' = [b \in Blocks |-> IF b \in flight[p] THEN None ELSE inFlight[b]]

\* FinalizeNode leaves nQueuedValidatedHeaders as it is.
FinalizeNode(p) ==
    /\ p \in leaving
    /\ conn' = conn \ {p} /\ leaving' = leaving \ {p}
    /\ nSync' = IF p \in started THEN nSync - 1 ELSE nSync
    /\ started' = started \ {p}
    /\ RequestsGone(p)
    /\ flight' = [flight EXCEPT ![p] = {}]
    /\ stalling' = stalling \ {p}
    /\ best' = [best EXCEPT ![p] = None] /\ unknown' = [unknown EXCEPT ![p] = None]
    /\ common' = [common EXCEPT ![p] = None] /\ asked' = [asked EXCEPT ![p] = {}]
    /\ known' = [known EXCEPT ![p] = {}] /\ toSend' = [toSend EXCEPT ![p] = <<>>]
    /\ continue' = [continue EXCEPT ![p] = None]
    /\ toPeer' = [toPeer EXCEPT ![p] = <<>>] /\ toNode' = [toNode EXCEPT ![p] = <<>>]
    /\ UNCHANGED <<chainVars, boundVars, nQueued, opened>>

---------------------------------------------------------------------------
(* Receiving blocks. *)

\* ContextualCheckBlockHeader turns the header of b away.
TooDeep(b) == b \notin index /\ Height[tip] - Height[b] >= MaxDepth

\* An input of b's coinstake is not unspent: b is refused if one of them is not in
\* mapStakeSpent,
MayRefuse(b) == ~ Stake[b] \subseteq UnspentAt(tip)

\* which it cannot be if the chain does not spend it, or was spent below b's parent.
Refused(b) ==
    /\ MayRefuse(b)
    /\ \E o \in Stake[b] :
          \A a \in Chain[tip] : o \in Spends[a] => Height[a] < Height[Parent[b]]

\* ActivateBestChain: the heaviest chain that is all there, the present one on a tie.
ActivateBestChain(d) ==
    LET heaviest == Heaviest({b \in d : Linked(b, d)})
    IN  IF \E b \in heaviest : Work[b] > Work[tip] THEN tip' \in heaviest ELSE tip' = tip

\* AcceptBlock: the header is in the index before the coinstake is looked at.
AcceptBlock(b) ==
    \/ TooDeep(b) /\ UNCHANGED chainVars
    \/ /\ ~ TooDeep(b)
       /\ index' = index \cup {b}
       /\ \/ MayRefuse(b) /\ UNCHANGED <<data, tip>>
          \/ ~ Refused(b) /\ data' = data \cup {b} /\ ActivateBestChain(data')

\* Mistake: nStallingSince is not reset.
ReceivedStillStalling(b) ==
    IF inFlight[b] = None
    THEN UNCHANGED requestVars
    ELSE /\ nQueued' = nQueued - 1
         /\ flight' = [flight EXCEPT ![inFlight[b]] = @ \ {b}]
         /\ inFlight' = [inFlight EXCEPT ![b] = None]
         /\ UNCHANGED stalling

MarkBlockAsReceived(b) ==
    IF inFlight[b] = None
    THEN UNCHANGED requestVars
    ELSE /\ nQueued' = nQueued - 1
         /\ flight' = [flight EXCEPT ![inFlight[b]] = @ \ {b}]
         /\ stalling' = stalling \ {inFlight[b]}
         /\ inFlight' = [inFlight EXCEPT ![b] = None]

ProcessNewBlock(b) ==
    /\ MarkBlockAsReceived(b)
    /\ AcceptBlock(b)

\* A "block" whose parent the node does not know is thrown away, and the node
\* asks for the blocks up to it; the second time, for the blocks up to its parent.
ThrowAway(p, b) ==
    LET stop == IF b \in asked[p] THEN Parent[b] ELSE b
    IN  /\ asked' = [asked EXCEPT ![p] = @ \cup {stop}]
        /\ toPeer' = Push(toPeer, p, GetBlocks(stop))
        /\ UNCHANGED <<chainVars, requestVars, best, unknown, common>>

ReceiveBlock(p, b) ==
    /\ p \in conn \ leaving
    /\ toNode[p] # <<>> /\ Head(toNode[p]) = BlockMsg(b)
    /\ toNode' = [toNode EXCEPT ![p] = Tail(@)]
    /\ \/ /\ b # Genesis /\ Parent[b] \notin index
          /\ ThrowAway(p, b)
       \/ /\ b \notin index /\ Parent[b] \in index
          /\ ProcessNewBlock(b)
          /\ UNCHANGED <<viewVars, toPeer>>
       \/ /\ b \in index    \* "Already processed block"
          /\ UNCHANGED <<chainVars, requestVars, viewVars, toPeer>>
    /\ UNCHANGED <<syncVars, serverVars, linkVars, boundVars>>

\* submitblock: blocks that come from elsewhere, a header alone does not stop them.
SubmitBlock(b) ==
    /\ b \in Elsewhere \ data /\ b # Genesis /\ Parent[b] \in index
    /\ found < MaxFound /\ found' = found + 1
    /\ ProcessNewBlock(b)
    /\ UNCHANGED <<viewVars, syncVars, serverVars, linkVars, peerTip, toPeer, toNode>>

---------------------------------------------------------------------------
(* What a peer is known to have. *)

\* The block announced last among the heaviest that are in the index.
BestOf(s) ==
    LET seen == {i \in 1..Len(s) : s[i] \in index}
        last == {i \in seen : \A j \in seen : \/ Work[s[j]] < Work[s[i]]
                                              \/ Work[s[j]] = Work[s[i]] /\ j <= i}
    IN  IF seen = {} THEN {None} ELSE {s[i] : i \in last}

\* UpdateBlockAvailability for every hash of an inv.
UpdateBlockAvailability(p, hashes) ==
    LET new == {i \in 1..Len(hashes) : hashes[i] \notin index}
    IN  /\ \E bk \in BestOf(<<best[p], unknown[p]>> \o hashes) : best' = [best EXCEPT ![p] = bk]
        /\ unknown' =
              [unknown EXCEPT ![p] =
                  IF new # {} THEN hashes[CHOOSE i \in new : \A j \in new : j <= i]
                  ELSE IF @ \in index THEN None ELSE @]

ReceiveInv(p) ==
    LET hashes == Head(toNode[p]).hashes
    IN  /\ p \in conn \ leaving
        /\ toNode[p] # <<>> /\ Head(toNode[p]).type = "inv"
        /\ UpdateBlockAvailability(p, hashes)
        /\ toPeer' = Ask(toPeer, p, SelectSeq(hashes, LAMBDA b : b \notin index))
        /\ toNode' = [toNode EXCEPT ![p] = Tail(@)]
        /\ UNCHANGED <<chainVars, requestVars, common, asked, syncVars, serverVars,
                       linkVars, boundVars>>

---------------------------------------------------------------------------
(* SendMessages. *)

\* The flag of a peer counts until FinalizeNode.
Fetches(p) == p \in Preferred \/ conn \cap Preferred = {}

NearTop == \E b \in Heaviest(index) : Height[b] >= Recent

\* Mistake: a peer that was asked is asked again.
StartsAgain(p) == Fetches(p) /\ (nSync = 0 \/ NearTop)

\* One peer is asked for its chain, several once the node is nearly up to date.
StartsSync(p) == p \notin started /\ Fetches(p) /\ (nSync = 0 \/ NearTop)

StartSync(p) ==
    IF StartsSync(p)
    THEN started' = started \cup {p} /\ nSync' = nSync + 1
    ELSE UNCHANGED syncVars

AfterSync(p) == IF StartsSync(p) THEN Push(toPeer, p, GetBlocks(None)) ELSE toPeer

\* Where pindexLastCommonBlock is looked for: below the block itself, or below
\* the block of the active chain at the height of the peer's best block.
CommonFrom(p, bk) ==
    IF common[p] # None THEN {common[p]}
    ELSE {b \in Chain[tip] : Height[b] = (IF Height[bk] < Height[tip] THEN Height[bk]
                                          ELSE Height[tip])}

\* The blocks FindNextBlocksToDownload walks over, from the last common one to the
\* best one of the peer and at most one beyond the window.
Walk(c, bk) ==
    {b \in Chain[bk] : Height[c] < Height[b] /\ Height[b] <= Height[c] + Window + 1}

Missing(S) == {b \in S : b \notin data /\ inFlight[b] = None}

InWindow(S, c) == {b \in S : Height[b] <= Height[c] + Window}

\* The lowest missing blocks inside the window, as many as p may still be asked for.
Wanted(p, c, bk) ==
    LET wanted == InWindow(Missing(Walk(c, bk)), c)
    IN  {b \in wanted : Cardinality({a \in wanted : Height[a] <= Height[b]})
                            <= InTransit - Cardinality(flight[p])}

\* The peer that holds the window up: nothing can be asked for, the next block
\* could if the window were larger, and the first block asked for is another peer's.
Staller(p, c, bk) ==
    LET walk == Walk(c, bk)
        pending == {b \in walk : b \notin data /\ inFlight[b] # None
                                 /\ Height[b] <= Height[c] + Window}
    IN  {inFlight[b] : b \in
            {x \in pending : /\ InWindow(Missing(walk), c) = {}
                             /\ Missing(walk) # {}
                             /\ \A y \in pending : Height[x] <= Height[y]}} \ {p}

\* Mistake: the check of nChainTx is missing.
PassedWithData(c, bk) == {b \in Walk(c, bk) : b \in data} \cup {c}

\* What pindexLastCommonBlock moves over.
Passed(c, bk) == {b \in Walk(c, bk) : Linked(b, data)} \cup {c}

\* MarkBlockAsInFlight for the blocks S; none of them is in flight.
MarkBlocksAsInFlight(p, S) ==
    /\ inFlight' = [b \in Blocks |-> IF b \in S THEN p ELSE inFlight[b]]
    /\ flight' = [flight EXCEPT ![p] = @ \cup S]
    /\ nQueued' = nQueued + Cardinality(S)

NothingToFetch(p) ==
    /\ UNCHANGED <<requestVars, common>>
    /\ toPeer' = AfterSync(p)

FetchMissing(p, bk) ==
    \E from \in CommonFrom(p, bk) : \E c \in Highest(Chain[from] \cap Chain[bk]) :
        LET S == Wanted(p, c, bk)
        IN  /\ \E k \in Highest(Passed(c, bk)) : common' = [common EXCEPT ![p] = k]
            /\ MarkBlocksAsInFlight(p, S)
            /\ toPeer' = Ask(AfterSync(p), p, Upwards(S))
            /\ stalling' = IF flight[p] \cup S = {} THEN stalling \cup Staller(p, c, bk)
                           ELSE stalling

\* FindNextBlocksToDownload, and the requests that follow.
FetchBlocks(p) ==
    IF Fetches(p) /\ Cardinality(flight[p]) < InTransit
    THEN \E bk \in BestOf(<<best[p], unknown[p]>>) :
            /\ best' = [best EXCEPT ![p] = bk]
            /\ unknown' = [unknown EXCEPT ![p] = IF @ \in index THEN None ELSE @]
            /\ IF bk = None THEN NothingToFetch(p)
               ELSE IF Work[bk] < Work[tip] THEN NothingToFetch(p)
               ELSE FetchMissing(p, bk)
    ELSE NothingToFetch(p) /\ UNCHANGED <<best, unknown>>

SendMessages(p) ==
    /\ p \in conn \ leaving
    /\ StartSync(p)
    /\ FetchBlocks(p)
    /\ UNCHANGED <<chainVars, asked, serverVars, linkVars, boundVars, toNode>>

\* SendMessages when the oldest block in flight, or the stall, has lasted too long.
TimeOut(p) ==
    /\ p \in conn \ leaving
    /\ p \in stalling \/ flight[p] # {}
    /\ StartSync(p)
    /\ toPeer' = AfterSync(p)
    /\ leaving' = leaving \cup {p}
    /\ UNCHANGED <<chainVars, requestVars, viewVars, serverVars, boundVars, conn, opened, toNode>>

---------------------------------------------------------------------------
(* The other end of the connection: the same code, in a peer. *)

\* PushInventory: what the peer has announced before is not announced again.
PushInventory(p, hashes) ==
    toSend' = [toSend EXCEPT ![p] = @ \o SelectSeq(hashes, LAMBDA b : b \notin known[p])]

\* The peer's chain above f, up to the limit, not as far as the stop hash.
Inventory(p, f, stop) ==
    LET above == {b \in Chain[peerTip[p]] : Height[b] > Height[f]}
    IN  {b \in above : /\ Height[b] <= Height[f] + Limit
                       /\ stop \in above => Height[b] < Height[stop]}

ServeGetBlocks(p) ==
    LET m == Head(toPeer[p])
    IN  /\ Serving(p, "getblocks")
        /\ \E f \in Highest(Chain[m.from] \cap Chain[peerTip[p]]) :
              LET S == Inventory(p, f, m.stop)
              IN  /\ PushInventory(p, Upwards(S))
                  /\ \E last \in Highest(S \cup {f}) :
                        continue' = [continue EXCEPT ![p] =
                                        IF Cardinality(S) = Limit THEN last ELSE @]
        /\ toPeer' = [toPeer EXCEPT ![p] = Tail(@)]
        /\ UNCHANGED <<chainVars, requestVars, viewVars, syncVars, linkVars, boundVars,
                       known, toNode>>

\* Blocks of the peer's active chain, and stale ones that are not too old.
Serves(p, b) ==
    \/ b \in Chain[peerTip[p]]
    \/ Height[peerTip[p]] < Height[b] + MaxReorg

\* Mistake: hashContinue is forgotten.
BlockOnly(p, b) == IF Serves(p, b) THEN <<BlockMsg(b)>> ELSE <<>>

\* The answer to one hash of a getdata; the tip follows the block in hashContinue.
Answer(p, b) ==
    IF ~ Serves(p, b) THEN <<>>
    ELSE IF b = continue[p] THEN <<BlockMsg(b), Inv(<<peerTip[p]>>)>>
    ELSE <<BlockMsg(b)>>

ServeGetData(p) ==
    LET hashes == Head(toPeer[p]).hashes
        b == Head(hashes)
    IN  /\ Serving(p, "getdata")
        /\ toNode' = [toNode EXCEPT ![p] = @ \o Answer(p, b)]
        /\ continue' = [continue EXCEPT ![p] = IF @ = b /\ Serves(p, b) THEN None ELSE @]
        /\ toPeer' = [toPeer EXCEPT ![p] =
                         (IF Len(hashes) = 1 THEN <<>> ELSE <<GetData(Tail(hashes))>>) \o Tail(@)]
        /\ UNCHANGED <<chainVars, requestVars, viewVars, syncVars, linkVars, boundVars,
                       known, toSend>>

\* SendMessages of the peer: the announcements the node has not had yet.
Announce(p) ==
    LET s == toSend[p]
        fresh == {i \in 1..Len(s) : s[i] \notin known[p] /\ \A j \in 1..(i - 1) : s[j] # s[i]}
        hashes == [n \in 1..Cardinality(fresh) |->
                      s[CHOOSE i \in fresh : Cardinality({j \in fresh : j <= i}) = n]]
    IN  /\ p \in conn \ leaving
        /\ s # <<>>
        /\ toSend' = [toSend EXCEPT ![p] = <<>>]
        /\ known' = [known EXCEPT ![p] = @ \cup Items(s)]
        /\ toNode' = IF fresh = {} THEN toNode ELSE Push(toNode, p, Inv(hashes))
        /\ UNCHANGED <<chainVars, requestVars, viewVars, syncVars, linkVars, boundVars,
                       continue, toPeer>>

\* ActivateBestChain of the peer, which announces its new tip.
FindBlock(p, b) ==
    /\ found < MaxFound
    /\ b \in NextTips[p] /\ Work[b] > Work[peerTip[p]]
    /\ found' = found + 1
    /\ peerTip' = [peerTip EXCEPT ![p] = b]
    /\ IF p \in conn THEN PushInventory(p, <<b>>) ELSE UNCHANGED toSend
    /\ UNCHANGED <<chainVars, requestVars, viewVars, syncVars, linkVars, known, continue,
                   toPeer, toNode>>

---------------------------------------------------------------------------
Next ==
    \/ \E p \in Peers :
          \/ Connect(p) \/ Lose(p) \/ FinalizeNode(p)
          \/ ReceiveInv(p)
          \/ SendMessages(p) \/ TimeOut(p)
          \/ ServeGetBlocks(p) \/ ServeGetData(p) \/ Announce(p)
          \/ \E b \in Blocks : ReceiveBlock(p, b) \/ FindBlock(p, b)
    \/ \E b \in Blocks : SubmitBlock(b)

Spec == Init /\ [][Next]_vars

\* The message handlers of the node and of its peers, and the socket thread, run.
Fairness ==
    \A p \in Peers :
        /\ WF_vars(ReceiveInv(p) \/ \E b \in Blocks : ReceiveBlock(p, b))
        /\ WF_vars(SendMessages(p))
        /\ WF_vars(FinalizeNode(p))
        /\ WF_vars(ServeGetBlocks(p) \/ ServeGetData(p)) /\ WF_vars(Announce(p))

FairSpec == Spec /\ Fairness

---------------------------------------------------------------------------
(* Properties. *)

TypeOK ==
    /\ data \subseteq index /\ index \subseteq Blocks /\ tip \in Blocks
    /\ leaving \subseteq conn /\ conn \subseteq Peers
    /\ started \subseteq conn /\ stalling \subseteq Peers
    /\ common \in [Peers -> Blocks \cup {None}]
    /\ flight \in [Peers -> SUBSET Blocks]
    /\ inFlight \in [Blocks -> Peers \cup {None}]

\* A block is listed as in flight exactly where the peer it was asked of lists it.
\* A request that outlives its peer would be looked up in a CNodeState that is gone
\* (MarkBlockAsReceived), and the block would never be asked for again.
InFlightExact ==
    \A p \in Peers : flight[p] = {b \in Blocks : inFlight[b] = p}

\* nSyncStarted counts the connected peers that were asked for their chain.  If it
\* stayed up when such a peer goes away, no peer would ever be asked again.
SyncCountExact == nSync = Cardinality(started)

\* pindexLastCommonBlock is a full block, and so is everything below it: what is
\* below is never fetched again.
LastCommonIsFull ==
    \A p \in Peers : common[p] # None => Chain[common[p]] \subseteq data

\* Only a peer that owes the node a block can be disconnected for stalling.
StallerOwes == \A p \in stalling : flight[p] # {}

\* The node will not turn away or throw away a block that p has announced and so will not
\* announce again, and it still asks p for the block in hashContinue.
NoLoss(p) ==
    /\ toNode[p] # <<>> /\ Head(toNode[p]).type = "block" =>
          LET b == Head(toNode[p]).hash
          IN  b = Genesis \/ (Parent[b] \in index /\ ~ TooDeep(b)) \/ b \notin known[p]
    /\ continue[p] \in index =>
          \E m \in Items(toPeer[p]) : m.type = "getdata" /\ continue[p] \in Items(m.hashes)

\* One peer that was asked for its chain and stays is enough: the node gets every block
\* below that peer's tip, however many batches it takes, wherever an earlier connection
\* broke and whatever the other peers do.  Four things can stop it: an announced block that
\* was thrown away, one whose header forks off too far below the tip, the last block of a
\* batch coming from elsewhere (all in NoLoss), and a header kept without its block.
CatchesUp ==
    \A p \in Peers :
        <>[](p \in started \ leaving) /\ [](NoLoss(p) /\ index = data)
        => <>(Chain[peerTip[p]] \ {peerTip[p]} \subseteq data)

=============================================================================
