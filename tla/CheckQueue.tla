----------------------------- MODULE CheckQueue -----------------------------
(***************************************************************************)
(* The queue of script checks (checkqueue.h).  ConnectBlock, the master,   *)
(* opens a control, adds the checks of one transaction after the other,    *)
(* and waits for the verdict; it joins the worker threads while it waits.  *)
(* Threads sleep on condWorker or condMaster.                              *)
(*                                                                         *)
(* One action is one critical section of the queue's mutex, or the work a  *)
(* thread does between two of them.  Threads may wake up without a         *)
(* notification, and shutdown interrupts each of them once: a worker ends, *)
(* the master enters Wait a second time from the destructor of its         *)
(* control.  The order of the queue is abstracted (a batch is any part of  *)
(* it), and a check is either Bad or not.                                  *)
(***************************************************************************)
EXTENDS Integers, FiniteSets

CONSTANTS
    Workers,     \* the ThreadScriptCheck threads
    Master,      \* the thread in ConnectBlock, which holds cs_main
    Checks,
    Bad,         \* checks that return false
    BatchSize    \* nBatchSize

Threads == Workers \cup {Master}

ASSUME CheckQueueAssumption ==
    /\ IsFiniteSet(Workers) /\ Master \notin Workers
    /\ IsFiniteSet(Checks) /\ Bad \subseteq Checks
    /\ BatchSize \in Nat \ {0}

VARIABLES
    queue, total, idle, todo, allOk,   \* queue, nTotal, nIdle, nTodo, fAllOk
    pc,             \* where each thread is
    batch, ok,      \* vChecks and fOk of each thread
    interrupted,    \* threads that shutdown has interrupted
    added,          \* checks added under the control, until the next is opened
    verdict         \* what Wait returned, or "none"

counters == <<total, idle, todo>>
vars == <<queue, counters, allOk, pc, batch, ok, interrupted, added, verdict>>

(* A worker is "out" before it starts, and "gone" after an interruption.   *)
(* The master is "out" without a control and "adding" with one.  In Loop a *)
(* thread is at the mutex ("ready"), in a wait ("asleep"), back from one   *)
(* but not through the mutex ("notified"), or at work on its batch.        *)
Init ==
    /\ queue = {} /\ total = 0 /\ idle = 0 /\ todo = 0 /\ allOk = TRUE
    /\ pc = [t \in Threads |-> "out"]
    /\ batch = [t \in Threads |-> {}]
    /\ ok = [t \in Threads |-> TRUE]
    /\ interrupted = {} /\ added = {} /\ verdict = "none"

---------------------------------------------------------------------------
(* The master's control. *)

\* CCheckQueueControl: IsIdle() is asserted, see IdleAssertion.
Open ==
    /\ pc[Master] = "out"
    /\ pc' = [pc EXCEPT ![Master] = "adding"]
    /\ added' = {} /\ verdict' = "none"
    /\ UNCHANGED <<queue, counters, allOk, batch, ok, interrupted>>

Asleep == {w \in Workers : pc[w] = "asleep"}

\* Add: one new check wakes one worker, more wake all of them.
Add(new) ==
    /\ pc[Master] = "adding"
    /\ queue' = queue \cup new
    /\ todo' = todo + Cardinality(new)
    /\ added' = added \cup new
    /\ \/ /\ Cardinality(new) = 1 /\ Asleep # {}
          /\ \E w \in Asleep : pc' = [pc EXCEPT ![w] = "notified"]
       \/ /\ Cardinality(new) = 1 => Asleep = {}
          /\ pc' = [t \in Threads |-> IF t \in Asleep THEN "notified" ELSE pc[t]]
    /\ UNCHANGED <<total, idle, allOk, batch, ok, interrupted, verdict>>

\* Wait, from ConnectBlock or, if it fails early, from the destructor.
StartWait ==
    /\ pc[Master] = "adding"
    /\ pc' = [pc EXCEPT ![Master] = "ready"]
    /\ UNCHANGED <<queue, counters, allOk, batch, ok, interrupted, added, verdict>>

---------------------------------------------------------------------------
(* Loop.  What a critical section begins with: the clean-up after a batch, *)
(* the first iteration, or the return from a wait.                         *)

StartWorker(w) ==
    /\ pc[w] = "out"
    /\ pc' = [pc EXCEPT ![w] = "ready"]
    /\ UNCHANGED <<queue, counters, allOk, batch, ok, interrupted, added, verdict>>

AtMutex(t) == pc[t] \in {"ready", "notified"}

First(t) == pc[t] = "ready" /\ batch[t] = {}

\* fAllOk, nTodo, nTotal and nIdle after it.
AllOkNow(t) == allOk /\ (batch[t] # {} => ok[t])
TodoNow(t) == todo - Cardinality(batch[t])
TotalNow(t) == IF First(t) THEN total + 1 ELSE total
IdleNow(t) == IF pc[t] = "notified" THEN idle - 1 ELSE idle

\* Mistake: the master is not told of the end of the last batch.
TellNobody(t) == pc

\* The worker that finishes the last batch notifies the master.
TellMaster(t) ==
    IF t # Master /\ batch[t] # {} /\ TodoNow(t) = 0 /\ pc[Master] = "asleep"
    THEN [pc EXCEPT ![Master] = "notified"] ELSE pc

\* Mistake: batches that workers still hold are forgotten.
QueueOnly(t) == t = Master

\* (fMaster || fQuit) && nTodo == 0; nothing sets fQuit.
MayReturn(t) == t = Master /\ TodoNow(t) = 0

\* Mistake: the failure of one block is kept for the next.
KeepVerdict(t) == AllOkNow(t)

\* if (fMaster) fAllOk = true;
Reset(t) == TRUE

Return(t) ==
    /\ AtMutex(t)
    /\ queue = {} /\ MayReturn(t)
    /\ total' = TotalNow(t) - 1
    /\ idle' = IdleNow(t)
    /\ todo' = TodoNow(t)
    /\ verdict' = IF AllOkNow(t) THEN "ok" ELSE "failed"
    /\ allOk' = Reset(t)
    /\ batch' = [batch EXCEPT ![t] = {}]
    /\ pc' = [pc EXCEPT ![t] = "out"]
    /\ UNCHANGED <<queue, ok, interrupted, added>>

Sleep(t) ==
    /\ AtMutex(t)
    /\ queue = {} /\ ~MayReturn(t)
    /\ total' = TotalNow(t)
    /\ idle' = IdleNow(t) + 1
    /\ todo' = TodoNow(t)
    /\ allOk' = AllOkNow(t)
    /\ batch' = [batch EXCEPT ![t] = {}]
    /\ pc' = [TellMaster(t) EXCEPT ![t] = "asleep"]
    /\ UNCHANGED <<queue, ok, interrupted, added, verdict>>

\* nNow: a share of the queue, at least 1 and at most nBatchSize.
Share(t) ==
    LET part == Cardinality(queue) \div (TotalNow(t) + IdleNow(t) + 1)
    IN  CASE part < 1 -> 1 [] part > BatchSize -> BatchSize [] OTHER -> part

Take(t) ==
    /\ AtMutex(t)
    /\ \E b \in SUBSET queue :
        /\ Cardinality(b) = Share(t)
        /\ b # {}
        /\ queue' = queue \ b
        /\ batch' = [batch EXCEPT ![t] = b]
    /\ total' = TotalNow(t)
    /\ idle' = IdleNow(t)
    /\ todo' = TodoNow(t)
    /\ allOk' = AllOkNow(t)
    /\ ok' = [ok EXCEPT ![t] = AllOkNow(t)]
    /\ pc' = [TellMaster(t) EXCEPT ![t] = "work"]
    /\ UNCHANGED <<interrupted, added, verdict>>

\* The checks of the batch, up to the first that fails; none if one has failed before.
Work(t) ==
    /\ pc[t] = "work"
    /\ ok' = [ok EXCEPT ![t] = @ /\ batch[t] \cap Bad = {}]
    /\ pc' = [pc EXCEPT ![t] = "ready"]
    /\ UNCHANGED <<queue, counters, allOk, batch, interrupted, added, verdict>>

---------------------------------------------------------------------------
(* What a wait may also do. *)

WakeUp(t) ==
    /\ pc[t] = "asleep"
    /\ pc' = [pc EXCEPT ![t] = "notified"]
    /\ UNCHANGED <<queue, counters, allOk, batch, ok, interrupted, added, verdict>>

\* threadGroup.interrupt_all(): wait throws, nIdle and nTotal stay.
Interrupt(t) ==
    /\ pc[t] \in {"asleep", "notified"}
    /\ t \notin interrupted
    /\ interrupted' = interrupted \cup {t}
    /\ pc' = [pc EXCEPT ![t] = IF t = Master THEN "ready" ELSE "gone"]
    /\ UNCHANGED <<queue, counters, allOk, batch, ok, added, verdict>>

---------------------------------------------------------------------------

Step(t) == Return(t) \/ Sleep(t) \/ Take(t) \/ Work(t)

Next ==
    \/ Open
    \/ \E new \in SUBSET (Checks \ added) \ {{}} : Add(new)
    \/ StartWait
    \/ \E w \in Workers : StartWorker(w)
    \/ \E t \in Threads : Step(t)
    \/ \E t \in Threads : WakeUp(t) \/ Interrupt(t)

Spec == Init /\ [][Next]_vars

\* A thread that is not in a wait goes on.  Nothing is assumed of new blocks, of workers
\* that have not started, of wake-ups or of interruptions.
FairSpec == Spec /\ \A t \in Threads : WF_vars(Step(t))

---------------------------------------------------------------------------
(* What is checked. *)

TypeOK ==
    /\ queue \subseteq Checks
    /\ total \in Int /\ idle \in Int /\ todo \in Int
    /\ allOk \in BOOLEAN
    /\ pc \in [Threads -> {"out", "adding", "ready", "asleep", "notified", "work", "gone"}]
    /\ batch \in [Threads -> SUBSET Checks]
    /\ ok \in [Threads -> BOOLEAN]
    /\ interrupted \subseteq Threads
    /\ added \subseteq Checks
    /\ verdict \in {"none", "ok", "failed"}

\* Wait returns the conjunction of all checks added under its control, however they were
\* shared out and whoever was interrupted.
VerdictSound == verdict # "none" => (verdict = "ok" <=> added \cap Bad = {})

\* The assertion in the constructor of CCheckQueueControl: the queue is unused when a block
\* begins, whatever the block before ended like.
IdleAssertion == pc[Master] = "out" => total = idle /\ todo = 0 /\ allOk

\* Wait returns: the master's wake-up is not lost, and it needs no worker.
WaitReturns == pc[Master] = "ready" ~> pc[Master] = "out"

=============================================================================
