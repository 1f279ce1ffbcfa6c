----------------------- MODULE MasternodeSync_proofs -----------------------
(***************************************************************************)
(* The stages of the synchronisation go on with what was received, for     *)
(* every number of peers and resynchronisations and whatever the peers     *)
(* send.                                                                   *)
(*                                                                         *)
(* AssetsEarned speaks of the stage.  What makes it inductive is the same  *)
(* of the stage GetNextAsset is about to store: of its successor before    *)
(* the switch has read the stage, of the value it carries afterwards.  A   *)
(* Reset in between is what torn records.                                  *)
(***************************************************************************)
EXTENDS MasternodeSync, TLAPS

\* What a node has received when it is in stage s.
Earned(s) ==
    /\ s \in {"mnw", "budget", "finished"} => last["list"] # "never"
    /\ s \in {"budget", "finished"} => last["mnw"] # "never"

\* The stage after GetNextAsset, if it is under way.
Coming == IF pc.at = "switch" THEN Successor[stage] ELSE pc.at

EarnedInv ==
    enforced /\ ~resetting /\ ~torn => Earned(stage) /\ Earned(Coming)

Stages == {"initial", "failed", "sporks", "list", "mnw", "budget", "finished"}

LEMMA StageNames ==
    /\ DOMAIN Successor = Stages
    /\ \A s \in Stages : Successor[s] \in Stages
    /\ Assets \subseteq Stages
    /\ AtRest.at = "idle" /\ AtRest.plus = 0
    BY DEF Successor, Stages, Assets, AtRest

---------------------------------------------------------------------------

\* Clean values are of their types.
LEMMA CleanType ==
    /\ [a \in Assets |-> "never"] \in [Assets -> {"never", "fresh", "old"}]
    /\ [a \in Assets |-> 0] \in [Assets -> 0..Threshold]
    /\ [p \in Peers |-> {}] \in [Peers -> SUBSET DOMAIN Successor]
    /\ AtRest \in [at : DOMAIN Successor \cup {"idle", "switch"}, plus : 0..1]
    /\ "initial" \in DOMAIN Successor /\ 0 \in 0..3 * Threshold
    BY StageNames DEF AtRest, Stages, Threshold

LEMMA InitType == Init => TypeOK
<1> SUFFICES ASSUME Init PROVE TypeOK
    OBVIOUS
<1>1. attempt \in 0..3 * Threshold /\ syncCount \in 0..MaxResync
    BY SyncAssumption DEF Init, Threshold
<1>2. /\ last \in [Assets -> {"never", "fresh", "old"}] /\ seen \in [Assets -> 0..Threshold]
      /\ fulfilled \in [Peers -> SUBSET DOMAIN Successor]
      /\ pc \in [at : DOMAIN Successor \cup {"idle", "switch"}, plus : 0..1]
      /\ stage \in DOMAIN Successor
    BY CleanType DEF Init
<1> QED
    BY <1>1, <1>2 DEF Init, TypeOK

LEMMA NextType ==
    ASSUME TypeOK, [Next]_vars
    PROVE  TypeOK'
<1> USE StageNames, SyncAssumption
<1>1. CASE Resync \/ Retry
    <2>1. syncCount' \in 0..MaxResync
        BY <1>1 DEF TypeOK, Resync, Retry
    <2> QED
        BY <1>1, <2>1, CleanType DEF TypeOK, Resync, Retry, Reset, ClearItems, ClearStage, peers
<1>2. CASE ResetItems
    BY <1>2, CleanType DEF TypeOK, ResetItems, ClearItems, peers
<1>3. CASE Begin \/ Leave
    BY <1>3 DEF TypeOK, Begin, Leave, GetNextAsset, items, peers
<1>4. CASE Switch
    BY <1>4 DEF TypeOK, Switch, items, peers
<1>5. CASE Store
    <2>1. stage' \in DOMAIN Successor /\ attempt' \in 0..3 * Threshold
        BY <1>5 DEF TypeOK, Store, Threshold
    <2>2. late' \in BOOLEAN /\ retry' \in BOOLEAN
        BY <1>5 DEF TypeOK, Store
    <2> QED
        BY <1>5, <2>1, <2>2, CleanType DEF TypeOK, Store, items, peers
<1>6. ASSUME NEW p \in Unasked, Mark(p)
      PROVE  /\ connected' \subseteq Peers
             /\ fulfilled' \in [Peers -> SUBSET DOMAIN Successor]
    BY <1>6 DEF TypeOK, Mark
<1>7. CASE AskForSporks
    BY <1>6, <1>7 DEF TypeOK, AskForSporks, items, Threshold
<1>8. CASE TimeOut
    BY <1>6, <1>8 DEF TypeOK, TimeOut, GetNextAsset, items, Stages
<1>9. CASE AskForItems
    BY <1>6, <1>9 DEF TypeOK, AskForItems, items, Threshold
<1>10. ASSUME NEW a \in Assets, Added(a) \/ Forget(a) \/ TenSeconds(a)
       PROVE  TypeOK'
    BY <1>10 DEF TypeOK, Added, Forget, TenSeconds, peers, Threshold
<1>11. CASE StageIsOld \/ AMinutePasses \/ ChainSynced
    BY <1>11 DEF TypeOK, StageIsOld, AMinutePasses, ChainSynced, items, peers
<1>12. ASSUME NEW p \in Peers, Connect(p) \/ Disconnect(p)
       PROVE  TypeOK'
    BY <1>12 DEF TypeOK, Connect, Disconnect, items
<1>13. CASE UNCHANGED vars
    BY <1>13 DEF TypeOK, vars, items, peers
<1>14. CASE ResetStage
    <2>1. chainSynced' \in BOOLEAN /\ torn' \in BOOLEAN
        BY <1>14 DEF TypeOK, ResetStage
    <2> QED
        BY <1>14, <2>1, CleanType DEF TypeOK, ResetStage, ClearStage, items, peers
<1> QED
    BY <1>1, <1>2, <1>3, <1>4, <1>5, <1>7, <1>8, <1>9, <1>10, <1>11, <1>12, <1>13, <1>14
    DEF Next, Visit, Assets

\* The counters, clocks and stages of the synchronisation stay within their types.
THEOREM TypeCorrect == Spec => []TypeOK
    BY InitType, NextType, PTL DEF Spec

---------------------------------------------------------------------------

LEMMA InitEarned == Init => EarnedInv
    BY StageNames DEF Init, EarnedInv, Earned, Coming

\* Neither the stage nor GetNextAsset moves.
LEMMA StayEarned ==
    ASSUME EarnedInv, UNCHANGED <<stage, pc, enforced, torn>>, ~resetting' => ~resetting,
           \A a \in Assets : last[a] # "never" => last'[a] # "never"
    PROVE  EarnedInv'
<1>1. Coming' = Coming
    BY DEF Coming
<1> QED
    BY <1>1 DEF EarnedInv, Earned, Assets

LEMMA NextEarned ==
    ASSUME TypeOK, EarnedInv, [Next]_vars
    PROVE  EarnedInv'
<1> USE StageNames
<1>1. CASE Resync \/ Retry
    BY <1>1 DEF Resync, Retry, Reset, ClearStage, EarnedInv, Earned, Coming
<1>2. CASE ResetItems
    BY <1>2 DEF ResetItems, EarnedInv
<1>3. CASE ResetStage
    <2>1. stage' = "initial" /\ pc' = pc /\ torn' = (pc.at \in {"mnw", "budget", "finished"})
        BY <1>3 DEF ResetStage, ClearStage
    <2>2. Successor["initial"] = "sporks"
        BY DEF Successor
    <2> QED
        BY <2>1, <2>2 DEF EarnedInv, Earned, Coming
<1>4. CASE Begin
    <2>1. stage' = stage /\ stage = "initial" /\ pc'.at = "switch"
        BY <1>4 DEF Begin, GetNextAsset
    <2>2. Successor["initial"] = "sporks"
        BY DEF Successor
    <2> QED
        BY <2>1, <2>2 DEF EarnedInv, Earned, Coming
<1>5. CASE Switch
    <2>1. /\ pc.at = "switch" /\ pc'.at = Successor[stage]
          /\ UNCHANGED <<stage, last, enforced, torn, resetting>>
        BY <1>5 DEF Switch, TypeOK, items
    <2>2. Successor[stage] # "switch"
        BY DEF TypeOK, Stages
    <2> QED
        BY <2>1, <2>2 DEF EarnedInv, Earned, Coming
<1>6. CASE Store
    <2>1. /\ pc.at # "switch" /\ stage' = pc.at /\ pc'.at = "idle"
          /\ UNCHANGED <<last, enforced, torn, resetting>>
        BY <1>6 DEF Store, items
    <2> QED
        BY <2>1 DEF EarnedInv, Earned, Coming
<1>7. CASE AskForSporks
    <2>1. /\ stage = "sporks" /\ stage' = "sporks" /\ pc'.at \in {"idle", "switch"}
          /\ Successor["sporks"] = "list"
        BY <1>7 DEF AskForSporks, Successor
    <2> QED
        BY <2>1 DEF EarnedInv, Earned, Coming
<1>8. CASE Leave
    <2>1. /\ stage' = stage /\ stage \in Assets /\ pc'.at = "switch"
          /\ UNCHANGED <<last, enforced, torn, resetting>>
          /\ last[stage] # "never" \/ stage = "budget"
        BY <1>8 DEF Leave, Serving, GetNextAsset, Quiet, items
    <2>2. /\ Successor["list"] = "mnw" /\ Successor["mnw"] = "budget"
          /\ Successor["budget"] = "finished"
        BY DEF Successor
    <2> QED
        BY <2>1, <2>2 DEF EarnedInv, Earned, Coming, Assets
<1>9. CASE TimeOut
    <2>1. /\ stage' = stage /\ UNCHANGED <<last, enforced, torn, resetting>>
          /\ enforced => pc'.at = "failed"
        BY <1>9 DEF TimeOut, items
    <2> QED
        BY <2>1 DEF EarnedInv, Earned, Coming
<1>10. CASE AskForItems \/ StageIsOld \/ AMinutePasses \/ ChainSynced
    BY <1>10, StayEarned DEF AskForItems, StageIsOld, AMinutePasses, ChainSynced, items
<1>11. ASSUME NEW a \in Assets, Added(a) \/ Forget(a) \/ TenSeconds(a)
       PROVE  EarnedInv'
    BY <1>11, StayEarned DEF Added, Forget, TenSeconds, TypeOK
<1>12. ASSUME NEW p \in Peers, Connect(p) \/ Disconnect(p)
       PROVE  EarnedInv'
    BY <1>12, StayEarned DEF Connect, Disconnect, items
<1>13. CASE UNCHANGED vars
    BY <1>13, StayEarned DEF vars, items
<1> QED
    BY <1>1, <1>2, <1>3, <1>4, <1>5, <1>6, <1>7, <1>8, <1>9, <1>10, <1>11, <1>12, <1>13,
       SyncAssumption
    DEF Next, Visit, Assets

\* Process, GetNextAsset and Reset in any order: where payments are enforced a node goes on
\* from the masternode list only with masternodes and from the winners only with winners
\* received since the last Reset, unless that fell into GetNextAsset.
THEOREM AssetsAlwaysEarned == Spec => []AssetsEarned
<1>1. EarnedInv => AssetsEarned
    BY DEF EarnedInv, Earned, AssetsEarned
<1> QED
    BY <1>1, InitEarned, NextEarned, TypeCorrect, PTL DEF Spec

=============================================================================
