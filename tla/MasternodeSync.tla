--------------------------- MODULE MasternodeSync ---------------------------
(***************************************************************************)
(* The synchronisation of masternode data (masternode-sync.cpp): sporks,   *)
(* masternode list, payment votes and budgets are asked for one after the  *)
(* other, from one peer per call of Process.                               *)
(*                                                                         *)
(* ThreadCheckObfuScationPool calls Process; the message handler counts    *)
(* the items that arrive; and any thread may run Reset (the "mnsync reset" *)
(* command, or IsBlockchainSynced after an hour without a call).  Nothing  *)
(* locks the state they share, so GetNextAsset and Reset are two steps     *)
(* each.  Clocks are what the tests on them tell: how old an item, a stage *)
(* or a failure is.  Peers are of the current protocol version, and the    *)
(* regtest path is left out.                                               *)
(***************************************************************************)
EXTENDS Integers

CONSTANTS
    Peers,       \* connections that may be open at a time
    Sent,        \* the assets peers have items of
    MaxResync    \* 2: resynchronisations when no masternode is enabled

Threshold == 2   \* MASTERNODE_SYNC_THRESHOLD
Assets == {"list", "mnw", "budget"}

ASSUME SyncAssumption == MaxResync \in Nat /\ Sent \subseteq Assets

VARIABLES
    stage,          \* RequestedMasternodeAssets
    attempt,        \* RequestedMasternodeAttempt
    late,           \* nAssetSyncStarted is 25 seconds ago
    last,           \* lastMasternodeList, lastMasternodeWinner, lastBudgetItem
    seen,           \* mapSeenSyncMNB, ...MNW, ...Budget of the one item of an asset
    retry,          \* lastFailure is a minute ago
    syncCount,
    enforced,       \* SPORK_8_MASTERNODE_PAYMENT_ENFORCEMENT, does not change
    chainSynced,    \* fBlockchainSynced
    connected, fulfilled,    \* vNodes, and what each has been asked for
    pc,             \* where Process is in GetNextAsset
    resetting,      \* another thread is half-way through Reset
    torn            \* that Reset ended between the read and the write of GetNextAsset

items == <<last, seen>>
peers == <<connected, fulfilled>>
vars == <<stage, attempt, late, items, retry, syncCount, enforced, chainSynced,
          peers, pc, resetting, torn>>

AtRest == [at |-> "idle", plus |-> 0]

Init ==
    /\ stage = "initial" /\ attempt = 0 /\ late = FALSE
    /\ last = [a \in Assets |-> "never"] /\ seen = [a \in Assets |-> 0]
    /\ retry = FALSE /\ syncCount = 0
    /\ enforced \in BOOLEAN /\ chainSynced = FALSE
    /\ connected = {} /\ fulfilled = [p \in Peers |-> {}]
    /\ pc = AtRest /\ resetting = FALSE /\ torn = FALSE

---------------------------------------------------------------------------
(* Reset. *)

ClearItems ==
    /\ last' = [a \in Assets |-> "never"]
    /\ seen' = [a \in Assets |-> 0]

ClearStage == stage' = "initial" /\ attempt' = 0 /\ late' = FALSE

\* Process calls it itself.
Reset ==
    /\ ClearItems /\ ClearStage
    /\ torn' = FALSE
    /\ UNCHANGED <<retry, enforced, chainSynced, peers, pc, resetting>>

\* Another thread does.
ResetItems ==
    /\ ~resetting /\ resetting' = TRUE
    /\ ClearItems
    /\ UNCHANGED <<stage, attempt, late, retry, syncCount, enforced, chainSynced,
                   peers, pc, torn>>

\* IsBlockchainSynced forgets after Reset that the chain was synchronised.
ResetStage ==
    /\ resetting /\ resetting' = FALSE
    /\ ClearStage
    /\ torn' = (pc.at \in {"mnw", "budget", "finished"})
    /\ \E asleep \in BOOLEAN : chainSynced' = (chainSynced /\ ~asleep)
    /\ UNCHANGED <<items, retry, syncCount, enforced, peers, pc>>

---------------------------------------------------------------------------
(* GetNextAsset: the switch reads the stage, then its successor is stored. *)

Successor ==
    [initial |-> "sporks", failed |-> "sporks", sporks |-> "list", list |-> "mnw",
     mnw |-> "budget", budget |-> "finished", finished |-> "finished"]

\* ClearFulfilledRequest does nothing when it cannot lock cs_vNodes.
Switch ==
    /\ pc.at = "switch"
    /\ pc' = [pc EXCEPT !.at = Successor[stage]]
    /\ \/ UNCHANGED peers
       \/ /\ stage \in {"initial", "failed"}
          /\ fulfilled' = [p \in Peers |-> {}]
          /\ UNCHANGED connected
    /\ UNCHANGED <<stage, attempt, late, items, retry, syncCount, enforced,
                   chainSynced, resetting, torn>>

\* A failure is stored by Process itself, and does not restart the stage's clock.
Store ==
    /\ pc.at \notin {"idle", "switch"}
    /\ stage' = pc.at /\ attempt' = pc.plus
    /\ IF pc.at = "failed"
         THEN retry' = FALSE /\ UNCHANGED late
         ELSE late' = FALSE /\ UNCHANGED retry
    /\ pc' = AtRest
    /\ UNCHANGED <<items, syncCount, enforced, chainSynced, peers, resetting, torn>>

GetNextAsset == pc' = [at |-> "switch", plus |-> 0]

---------------------------------------------------------------------------
(* Process.  A call that goes on after Reset or GetNextAsset is modelled   *)
(* as the next call.                                                       *)

\* IsSynced(), and CountEnabled() is 0.
Resync ==
    /\ pc = AtRest /\ stage = "finished"
    /\ syncCount < MaxResync /\ syncCount' = syncCount + 1
    /\ Reset

Retry ==
    /\ pc = AtRest /\ stage = "failed" /\ retry
    /\ Reset /\ UNCHANGED syncCount

Begin ==
    /\ pc = AtRest /\ stage = "initial"
    /\ GetNextAsset
    /\ UNCHANGED <<stage, attempt, late, items, retry, syncCount, enforced,
                   chainSynced, peers, resetting, torn>>

\* Which of the unasked peers comes first in vNodes is left open.
Unasked == {p \in connected : stage \notin fulfilled[p]}

Mark(p) == fulfilled' = [fulfilled EXCEPT ![p] = @ \cup {stage}] /\ UNCHANGED connected

AskForSporks ==
    /\ pc = AtRest /\ stage = "sporks"
    /\ \E p \in Unasked : Mark(p)
    /\ IF attempt >= 2
         THEN pc' = [at |-> "switch", plus |-> 1] /\ UNCHANGED attempt
         ELSE attempt' = attempt + 1 /\ UNCHANGED pc
    /\ UNCHANGED <<stage, late, items, retry, syncCount, enforced, chainSynced,
                   resetting, torn>>

\* Items have come, but not in the last ten seconds.
Quiet == last[stage] = "old" /\ attempt >= Threshold

\* None have come.
Silent == last[stage] = "never" /\ (attempt >= 3 * Threshold \/ late)

Serving == pc = AtRest /\ stage \in Assets /\ chainSynced

\* Without items a budget stage ends too: there may be no budgets.
Leave ==
    /\ Serving /\ connected # {}
    /\ Quiet \/ (stage = "budget" /\ Silent)
    /\ GetNextAsset
    /\ UNCHANGED <<stage, attempt, late, items, retry, syncCount, enforced,
                   chainSynced, peers, resetting, torn>>

\* Mistake: the spork is not asked, as for budgets.
TimeOutGoesOn ==
    /\ Serving /\ ~Quiet /\ Silent /\ stage # "budget"
    /\ \E p \in Unasked : Mark(p)
    /\ GetNextAsset
    /\ UNCHANGED <<stage, attempt, late, items, retry, syncCount, enforced,
                   chainSynced, resetting, torn>>

\* The other stages time out on a peer that has not been asked.
TimeOut ==
    /\ Serving /\ ~Quiet /\ Silent /\ stage # "budget"
    /\ \E p \in Unasked : Mark(p)
    /\ IF enforced THEN pc' = [at |-> "failed", plus |-> 0] ELSE GetNextAsset
    /\ UNCHANGED <<stage, attempt, late, items, retry, syncCount, enforced,
                   chainSynced, resetting, torn>>

\* Mistake: six attempts are no reason to stop.
AskOnAndOn ==
    /\ Serving /\ ~Quiet /\ ~Silent
    /\ \E p \in Unasked : Mark(p)
    /\ attempt' = attempt + 1
    /\ UNCHANGED <<stage, late, items, retry, syncCount, enforced, chainSynced,
                   pc, resetting, torn>>

AskForItems ==
    /\ Serving /\ ~Quiet /\ ~Silent
    /\ \E p \in Unasked : Mark(p)
    /\ attempt' = IF attempt < 3 * Threshold THEN attempt + 1 ELSE attempt
    /\ UNCHANGED <<stage, late, items, retry, syncCount, enforced, chainSynced,
                   pc, resetting, torn>>

---------------------------------------------------------------------------
(* Items, time and peers. *)

\* Mistake: an item is news as often as it comes.
AddedAgain(a) ==
    /\ seen' = [seen EXCEPT ![a] = IF @ < Threshold THEN @ + 1 ELSE @]
    /\ last' = [last EXCEPT ![a] = "fresh"]
    /\ UNCHANGED <<stage, attempt, late, retry, syncCount, enforced, chainSynced,
                   peers, pc, resetting, torn>>

\* AddedMasternodeList, AddedMasternodeWinner, AddedBudgetItem: a known item
\* counts as news twice.  The callers put an item among the known ones first,
\* so the branch for others comes to the same.
Added(a) ==
    /\ seen[a] < Threshold
    /\ seen' = [seen EXCEPT ![a] = @ + 1]
    /\ last' = [last EXCEPT ![a] = "fresh"]
    /\ UNCHANGED <<stage, attempt, late, retry, syncCount, enforced, chainSynced,
                   peers, pc, resetting, torn>>

\* CheckAndRemove, CleanPaymentList and CheckInputsAndAdd forget an item and its
\* count: when it comes again it is news.
Forget(a) ==
    /\ seen[a] > 0 /\ seen' = [seen EXCEPT ![a] = 0]
    /\ UNCHANGED <<stage, attempt, late, last, retry, syncCount, enforced,
                   chainSynced, peers, pc, resetting, torn>>

TenSeconds(a) ==
    /\ last[a] = "fresh"
    /\ last' = [last EXCEPT ![a] = "old"]
    /\ UNCHANGED <<stage, attempt, late, seen, retry, syncCount, enforced,
                   chainSynced, peers, pc, resetting, torn>>

StageIsOld ==
    /\ stage \in {"list", "mnw", "budget"} /\ ~late /\ late' = TRUE
    /\ UNCHANGED <<stage, attempt, items, retry, syncCount, enforced, chainSynced,
                   peers, pc, resetting, torn>>

AMinutePasses ==
    /\ stage = "failed" /\ ~retry /\ retry' = TRUE
    /\ UNCHANGED <<stage, attempt, late, items, syncCount, enforced, chainSynced,
                   peers, pc, resetting, torn>>

\* Some call of IsBlockchainSynced finds a recent tip.
ChainSynced ==
    /\ ~chainSynced /\ chainSynced' = TRUE
    /\ UNCHANGED <<stage, attempt, late, items, retry, syncCount, enforced, peers,
                   pc, resetting, torn>>

Connect(p) ==
    /\ p \notin connected /\ connected' = connected \cup {p}
    /\ UNCHANGED <<stage, attempt, late, items, retry, syncCount, enforced,
                   chainSynced, fulfilled, pc, resetting, torn>>

Disconnect(p) ==
    /\ p \in connected /\ connected' = connected \ {p}
    /\ fulfilled' = [fulfilled EXCEPT ![p] = {}]
    /\ UNCHANGED <<stage, attempt, late, items, retry, syncCount, enforced,
                   chainSynced, pc, resetting, torn>>

---------------------------------------------------------------------------
Visit == AskForSporks \/ Leave \/ TimeOut \/ AskForItems

Next ==
    \/ Resync \/ Retry \/ Begin \/ Switch \/ Store \/ Visit
    \/ ResetItems \/ ResetStage
    \/ \E a \in Sent : Added(a)
    \/ \E a \in {"list", "mnw"} : Forget(a)
    \/ \E a \in Assets : TenSeconds(a)
    \/ StageIsOld \/ AMinutePasses \/ ChainSynced
    \/ \E p \in Peers : Connect(p) \/ Disconnect(p)

Spec == Init /\ [][Next]_vars

(* Process is called every five seconds, a Reset that began ends, and time *)
(* passes.  SF: a connection that comes again and again lasts, some time,  *)
(* until Process looks at its peer.                                        *)
FairSpec ==
    /\ Spec
    /\ WF_vars(Retry) /\ WF_vars(Begin) /\ WF_vars(Switch) /\ WF_vars(Store)
    /\ WF_vars(ResetStage)
    /\ WF_vars(StageIsOld) /\ WF_vars(AMinutePasses)
    /\ \A a \in Assets : WF_vars(TenSeconds(a))
    /\ SF_vars(Visit)

---------------------------------------------------------------------------
(* Properties *)

TypeOK ==
    /\ stage \in DOMAIN Successor /\ attempt \in 0..3 * Threshold
    /\ late \in BOOLEAN /\ retry \in BOOLEAN
    /\ last \in [Assets -> {"never", "fresh", "old"}]
    /\ seen \in [Assets -> 0..Threshold]
    /\ syncCount \in 0..MaxResync
    /\ enforced \in BOOLEAN /\ chainSynced \in BOOLEAN
    /\ connected \subseteq Peers
    /\ fulfilled \in [Peers -> SUBSET DOMAIN Successor]
    /\ pc \in [at : DOMAIN Successor \cup {"idle", "switch"}, plus : 0..1]
    /\ resetting \in BOOLEAN /\ torn \in BOOLEAN

(* Where payments are enforced, a node that goes on from the masternode    *)
(* list has received masternodes, and one that goes on from the winners    *)
(* has received winners, since the last Reset -- whatever thread ran it,   *)
(* unless it fell between the read and the write of GetNextAsset: then the *)
(* node goes on with nothing (GetNextAsset, Reset).                        *)
AssetsEarned ==
    enforced /\ ~resetting /\ ~torn =>
        /\ stage \in {"mnw", "budget", "finished"} => last["list"] # "never"
        /\ stage \in {"budget", "finished"} => last["mnw"] # "never"

(* While the chain is synchronised and peers not asked yet keep coming, no *)
(* stage but the last holds the node forever: not items that come again    *)
(* and again, not silence, not a failure, not a Reset at any moment.  What *)
(* could is an item that is forgotten and comes back without end: each     *)
(* time it is news (CheckAndRemove).                                       *)
NoStageForever ==
    /\ <>[]chainSynced
    /\ []<>(pc = AtRest /\ Unasked # {})
    /\ <>[][\A a \in Assets : ~Forget(a)]_vars
    =>
        \A s \in DOMAIN Successor \ {"finished"} : []<>(stage # s)

=============================================================================
