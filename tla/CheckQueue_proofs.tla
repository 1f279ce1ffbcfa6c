------------------------- MODULE CheckQueue_proofs -------------------------
(***************************************************************************)
(* Proofs about the script check queue, for any set of workers and checks  *)
(* and any batch size.                                                     *)
(*                                                                         *)
(* What is still to be checked is in the queue or in exactly one batch,    *)
(* nTodo counts it, and nTotal - nIdle counts the threads with a batch; a  *)
(* failure is in fAllOk or in the fOk of a thread that still has its batch.*)
(***************************************************************************)
EXTENDS CheckQueue, FiniteSetTheorems, TLAPS

Left == queue \cup UNION {batch[t] : t \in Threads}
Busy == {t \in Threads : batch[t] # {}}
Failed == added \cap Bad # {}

Placed ==
    /\ \A t \in Threads : batch[t] \cap queue = {}
    /\ \A t, u \in Threads : t # u => batch[t] \cap batch[u] = {}
    /\ \A t \in Threads : pc[t] \in {"out", "adding", "asleep", "notified", "gone"} => batch[t] = {}
    /\ \A t \in Threads : pc[t] = "work" => batch[t] # {}
    /\ Left \subseteq added

Counted ==
    /\ todo = Cardinality(Left)
    /\ total - idle = Cardinality(Busy)

Judged ==
    /\ ~allOk => Failed
    /\ pc[Master] # "out" /\ allOk => (added \ Left) \cap Bad = {}
    /\ \A t \in Busy : ~ok[t] => Failed
    /\ \A t \in Busy : pc[t] = "ready" /\ ok[t] => batch[t] \cap Bad = {}

Closed ==
    /\ pc[Master] = "out" => Left = {} /\ allOk
    /\ verdict # "none" => pc[Master] = "out"

Inv == TypeOK /\ Placed /\ Counted /\ Judged /\ Closed /\ VerdictSound

---------------------------------------------------------------------------
(* Counting. *)

LEMMA FiniteSets ==
    ASSUME TypeOK
    PROVE  /\ Threads \in SUBSET Threads /\ IsFiniteSet(Threads)
           /\ IsFiniteSet(Left) /\ Left \subseteq Checks
           /\ IsFiniteSet(Busy) /\ Master \in Threads
           /\ \A t \in Threads : IsFiniteSet(batch[t]) /\ batch[t] \subseteq Left
<1>1. IsFiniteSet(Threads) /\ Master \in Threads
  BY CheckQueueAssumption, FS_AddElement DEF Threads
<1>2. Left \subseteq Checks
  BY DEF TypeOK, Left
<1>3. \A t \in Threads : batch[t] \subseteq Left
  BY DEF Left
<1>4. IsFiniteSet(Left)
  BY <1>2, CheckQueueAssumption, FS_Subset
<1>5. Busy \in SUBSET Threads
  BY DEF Busy
<1>6. IsFiniteSet(Busy)
  BY <1>1, <1>5, FS_Subset
<1>7. \A t \in Threads : IsFiniteSet(batch[t])
  BY <1>3, <1>4, FS_Subset
<1> QED BY <1>1, <1>2, <1>3, <1>4, <1>6, <1>7

\* Taking a part away from a finite set takes its size away from the set's.
LEMMA RemovePart ==
    ASSUME NEW S, NEW T, IsFiniteSet(S), T \subseteq S
    PROVE  /\ Cardinality(S \ T) = Cardinality(S) - Cardinality(T)
           /\ Cardinality(S \ T) \in Nat /\ Cardinality(T) \in Nat /\ IsFiniteSet(S \ T)
<1>1. S \cap T = T /\ IsFiniteSet(T)
  BY FS_Subset
<1>2. Cardinality(S \ T) = Cardinality(S) - Cardinality(S \cap T) /\ IsFiniteSet(S \ T)
  BY FS_Difference
<1> QED BY <1>1, <1>2, FS_CardinalityType

\* The batch of a thread that enters its critical section is no longer to be checked; the
\* counters and the verdict it leaves there are those of what is left.
LEMMA CleanUp ==
    ASSUME Inv, NEW t \in Threads, AtMutex(t)
    PROVE  /\ TodoNow(t) = Cardinality(Left \ batch[t]) /\ TodoNow(t) \in Nat
           /\ TotalNow(t) \in Int /\ IdleNow(t) \in Int
           /\ TotalNow(t) - IdleNow(t) = Cardinality(Busy \ {t}) + 1
           /\ ~AllOkNow(t) => Failed
           /\ pc[Master] # "out" /\ AllOkNow(t) => (added \ (Left \ batch[t])) \cap Bad = {}
           /\ AllOkNow(t) \in BOOLEAN
           /\ Left \ batch[t] = queue \cup UNION {batch[u] : u \in Threads \ {t}}
<1> USE DEF Inv
<1>1. /\ IsFiniteSet(Left) /\ IsFiniteSet(Busy) /\ batch[t] \subseteq Left
  BY FiniteSets
<1>2. TodoNow(t) = Cardinality(Left \ batch[t]) /\ TodoNow(t) \in Nat
  BY <1>1, RemovePart DEF TodoNow, Counted
<1>3. Cardinality(Busy \ {t}) = (IF t \in Busy THEN Cardinality(Busy) - 1 ELSE Cardinality(Busy))
  BY <1>1, FS_RemoveElement
<1>4. pc[t] = "notified" => t \notin Busy
  BY DEF Placed, Busy
<1>5. First(t) <=> pc[t] = "ready" /\ t \notin Busy
  BY DEF First, Busy
<1>6. /\ TotalNow(t) \in Int /\ IdleNow(t) \in Int
      /\ TotalNow(t) - IdleNow(t) = Cardinality(Busy \ {t}) + 1
  <2>1. total \in Int /\ idle \in Int /\ total - idle = Cardinality(Busy)
    BY DEF TypeOK, Counted
  <2>2. CASE pc[t] = "notified"
    BY <1>3, <1>4, <1>5, <2>1, <2>2 DEF TotalNow, IdleNow
  <2>3. CASE pc[t] = "ready" /\ t \in Busy
    BY <1>3, <1>5, <2>1, <2>3 DEF TotalNow, IdleNow
  <2>4. CASE pc[t] = "ready" /\ t \notin Busy
    BY <1>3, <1>5, <2>1, <2>4 DEF TotalNow, IdleNow
  <2> QED BY <2>2, <2>3, <2>4 DEF AtMutex
<1>7. ~AllOkNow(t) => Failed
  BY DEF AllOkNow, Judged, Busy
<1>8. pc[Master] # "out" /\ AllOkNow(t) => (added \ (Left \ batch[t])) \cap Bad = {}
  <2> SUFFICES ASSUME pc[Master] # "out", AllOkNow(t) PROVE (added \ (Left \ batch[t])) \cap Bad = {}
    OBVIOUS
  <2>1. (added \ Left) \cap Bad = {}
    BY DEF AllOkNow, Judged
  <2>2. batch[t] \cap Bad = {}
    <3>1. CASE batch[t] = {}
      BY <3>1
    <3>2. CASE batch[t] # {}
      <4>1. t \in Busy /\ ok[t]
        BY <3>2 DEF AllOkNow, Busy
      <4>2. pc[t] = "ready"
        BY <1>4, <4>1 DEF AtMutex
      <4> QED BY <4>1, <4>2 DEF Judged
    <3> QED BY <3>1, <3>2
  <2> QED BY <2>1, <2>2
<1>9. Left \ batch[t] = queue \cup UNION {batch[u] : u \in Threads \ {t}}
  BY DEF Left, Placed
<1>10. AllOkNow(t) \in BOOLEAN
  BY DEF AllOkNow
<1> QED BY <1>2, <1>6, <1>7, <1>8, <1>9, <1>10

\* Where the checks are after the section, when the thread leaves it with batch b.
LEMMA Handover ==
    ASSUME Inv, NEW t \in Threads, AtMutex(t), NEW b \in SUBSET queue,
           queue' = queue \ b, batch' = [batch EXCEPT ![t] = b]
    PROVE  /\ Left' = Left \ batch[t]
           /\ Busy' = IF b = {} THEN Busy \ {t} ELSE Busy \cup {t}
           /\ Cardinality(Busy') = Cardinality(Busy \ {t}) + (IF b = {} THEN 0 ELSE 1)
           /\ Cardinality(Busy \ {t}) \in Nat
           /\ \A u \in Threads : batch'[u] = IF u = t THEN b ELSE batch[u]
           /\ \A u \in Threads : batch'[u] \cap queue' = {}
           /\ \A u, v \in Threads : u # v => batch'[u] \cap batch'[v] = {}
<1> USE DEF Inv
<1>1. \A u \in Threads : batch'[u] = IF u = t THEN b ELSE batch[u]
  BY DEF TypeOK
<1>2. Left' = Left \ batch[t]
  <2>1. Left' = queue \cup UNION {batch[u] : u \in Threads \ {t}}
    <3>1. Left' = (queue \ b) \cup UNION {batch'[u] : u \in Threads}
      BY DEF Left
    <3>2. UNION {batch'[u] : u \in Threads} = b \cup UNION {batch[u] : u \in Threads \ {t}}
      BY <1>1
    <3> QED BY <3>1, <3>2
  <2> QED BY <2>1, CleanUp
<1>3. Busy' = IF b = {} THEN Busy \ {t} ELSE Busy \cup {t}
  BY <1>1 DEF Busy
<1>4. IsFiniteSet(Busy \ {t})
  BY FiniteSets, FS_RemoveElement
<1>5. Busy' = IF b = {} THEN Busy \ {t} ELSE (Busy \ {t}) \cup {t}
  BY <1>3
<1>6. Cardinality(Busy') = Cardinality(Busy \ {t}) + (IF b = {} THEN 0 ELSE 1)
  <2>1. Cardinality((Busy \ {t}) \cup {t}) = Cardinality(Busy \ {t}) + 1
    BY <1>4, FS_AddElement
  <2>2. Cardinality(Busy \ {t}) \in Nat
    BY <1>4, FS_CardinalityType
  <2> QED BY <1>5, <2>1, <2>2
<1>7. \A u \in Threads : batch'[u] \cap queue' = {}
  BY <1>1 DEF Placed
<1>8. \A u, v \in Threads : u # v => batch'[u] \cap batch'[v] = {}
  BY <1>1 DEF Placed
<1> QED BY <1>1, <1>2, <1>3, <1>4, <1>6, <1>7, <1>8, FS_CardinalityType

---------------------------------------------------------------------------
(* The steps. *)

LEMMA InitInv == Init => Inv
<1> SUFFICES ASSUME Init PROVE Inv
  OBVIOUS
<1>1. Left = {} /\ Busy = {}
  BY DEF Init, Left, Busy
<1>2. Cardinality({}) = 0
  BY FS_EmptySet
<1> QED BY <1>1, <1>2 DEF Init, Inv, TypeOK, Placed, Counted, Judged, Closed, VerdictSound, Failed

\* A step that leaves the checks, the counters and fAllOk alone.
LEMMA IdleStep ==
    ASSUME Inv, TypeOK', UNCHANGED <<queue, counters, allOk, batch>>
    PROVE  Left' = Left /\ Busy' = Busy /\ Counted'
BY DEF Inv, Left, Busy, Counted, counters

LEMMA OpenStep == Inv /\ Open => Inv'
<1> SUFFICES ASSUME Inv, Open PROVE Inv'
  OBVIOUS
<1> USE DEF Inv, Open
<1>1. TypeOK'
  BY DEF TypeOK, counters
<1>2. Left' = Left /\ Busy' = Busy /\ Counted'
  BY <1>1, IdleStep
<1>3. Left = {} /\ Busy = {} /\ allOk
  BY DEF Closed, Left, Busy
<1>4. Placed'
  BY <1>2, <1>3, FiniteSets DEF Placed, TypeOK
<1>5. Judged' /\ Closed' /\ VerdictSound'
  BY <1>2, <1>3, FiniteSets DEF Judged, Closed, VerdictSound, TypeOK
<1> QED BY <1>1, <1>2, <1>4, <1>5

LEMMA AddStep ==
    ASSUME Inv, NEW new \in SUBSET (Checks \ added), Add(new)
    PROVE  Inv'
<1> USE DEF Inv, Add
<1>0. Master \in Threads
  BY FiniteSets
<1>1. pc' \in [Threads -> {"out", "adding", "ready", "asleep", "notified", "work", "gone"}]
  BY DEF TypeOK, Asleep
<1>2. \A t \in Threads : pc'[t] = pc[t] \/ (pc[t] = "asleep" /\ pc'[t] = "notified")
  BY DEF TypeOK, Asleep
<1>3. IsFiniteSet(new) /\ Cardinality(new) \in Nat
  BY CheckQueueAssumption, FS_Subset, FS_CardinalityType
<1>4. TypeOK'
  BY <1>1, <1>3 DEF TypeOK
<1>5. Left' = Left \cup new /\ Left \cap new = {} /\ Busy' = Busy
  BY DEF Left, Busy, Placed
<1>6. Cardinality(Left') = Cardinality(Left) + Cardinality(new)
  <2>1. Cardinality(Left \cap new) = 0
    BY <1>5, FS_EmptySet
  <2>2. IsFiniteSet(Left) /\ Cardinality(Left) \in Nat
    BY FiniteSets, FS_CardinalityType
  <2>3. Cardinality(Left \cup new)
           = Cardinality(Left) + Cardinality(new) - Cardinality(Left \cap new)
    BY <1>3, <2>2, FS_Union
  <2> QED BY <1>3, <1>5, <2>1, <2>2, <2>3
<1>7. Counted'
  BY <1>5, <1>6 DEF Counted
<1>8. Placed'
  <2>1. \A t \in Threads : batch[t] \cap new = {}
    BY <1>5, FiniteSets
  <2> QED BY <1>2, <1>5, <2>1 DEF Placed
<1>9. Judged'
  BY <1>2, <1>5 DEF Judged, Failed, Busy
<1>10. pc'[Master] = "adding" /\ verdict' = "none"
  BY <1>0, <1>2 DEF Closed
<1>11. Closed' /\ VerdictSound'
  BY <1>10 DEF Closed, VerdictSound
<1> QED BY <1>4, <1>7, <1>8, <1>9, <1>11

\* Steps that only move threads around outside the work: none opens or closes the control.
LEMMA MoveStep ==
    ASSUME Inv, TypeOK', UNCHANGED <<queue, counters, allOk, batch, ok, added, verdict>>,
           \A t \in Threads :
              \/ pc'[t] = pc[t]
              \/ batch[t] = {} /\ pc'[t] \in {"ready", "notified", "gone"},
           pc'[Master] = "out" <=> pc[Master] = "out"
    PROVE  Inv'
<1> USE DEF Inv
<1>1. Left' = Left /\ Busy' = Busy /\ Counted'
  BY IdleStep
<1>2. Placed'
  BY <1>1 DEF Placed
<1>3. Judged'
  BY <1>1 DEF Judged, Failed, Busy
<1>4. Closed' /\ VerdictSound'
  BY <1>1 DEF Closed, VerdictSound
<1> QED BY <1>1, <1>2, <1>3, <1>4

LEMMA WorkStep == ASSUME Inv, NEW t \in Threads, Work(t) PROVE Inv'
<1> USE DEF Inv, Work
<1>1. TypeOK'
  BY DEF TypeOK, counters
<1>2. Left' = Left /\ Busy' = Busy /\ Counted'
  BY <1>1, IdleStep
<1>3. /\ \A u \in Threads : u # t => pc'[u] = pc[u] /\ ok'[u] = ok[u]
      /\ pc'[t] = "ready" /\ ok'[t] = (ok[t] /\ batch[t] \cap Bad = {})
  BY DEF TypeOK
<1>4. Placed'
  BY <1>2, <1>3 DEF Placed
<1>5. Judged'
  <2>1. batch[t] \subseteq added
    BY FiniteSets DEF Placed
  <2>2. pc'[Master] = "out" <=> pc[Master] = "out"
    BY <1>3, FiniteSets
  <2> QED BY <1>2, <1>3, <2>1, <2>2 DEF Judged, Failed, Busy
<1>6. Closed' /\ VerdictSound'
  <2>1. t # Master \/ pc[Master] # "out"
    OBVIOUS
  <2>2. pc'[Master] = "out" <=> pc[Master] = "out"
    BY <1>3, FiniteSets
  <2> QED BY <1>2, <2>2 DEF Closed, VerdictSound
<1> QED BY <1>1, <1>2, <1>4, <1>5, <1>6

LEMMA SleepStep == ASSUME Inv, NEW t \in Threads, Sleep(t) PROVE Inv'
<1> USE DEF Inv, Sleep
<1>1. /\ Left' = Left \ batch[t] /\ Busy' = Busy \ {t}
      /\ Cardinality(Busy \ {t}) \in Nat
      /\ \A u \in Threads : batch'[u] = IF u = t THEN {} ELSE batch[u]
      /\ \A u \in Threads : batch'[u] \cap queue' = {}
      /\ \A u, v \in Threads : u # v => batch'[u] \cap batch'[v] = {}
  <2>1. {} \in SUBSET queue /\ queue' = queue \ {}
    OBVIOUS
  <2> QED BY <2>1, Handover
<1>2. /\ TodoNow(t) = Cardinality(Left \ batch[t])
      /\ TotalNow(t) \in Int /\ IdleNow(t) \in Int
      /\ TotalNow(t) - IdleNow(t) = Cardinality(Busy \ {t}) + 1
      /\ ~AllOkNow(t) => Failed
      /\ pc[Master] # "out" /\ AllOkNow(t) => (added \ (Left \ batch[t])) \cap Bad = {}
      /\ AllOkNow(t) \in BOOLEAN
  BY CleanUp
<1>3. pc' \in [Threads -> {"out", "adding", "ready", "asleep", "notified", "work", "gone"}]
  BY DEF TypeOK, TellMaster
<1>4. pc'[t] = "asleep" /\ \A u \in Threads \ {t} :
         pc'[u] = pc[u] \/ (pc[u] = "asleep" /\ pc'[u] = "notified")
  BY DEF TypeOK, TellMaster
<1>5. TodoNow(t) \in Nat
  BY CleanUp
<1>6. TypeOK'
  <2>1. batch' \in [Threads -> SUBSET Checks]
    BY DEF TypeOK
  <2> QED BY <1>2, <1>3, <1>5, <2>1 DEF TypeOK
<1>7. Counted'
  BY <1>1, <1>2 DEF Counted
<1>8. Placed'
  BY <1>1, <1>4 DEF Placed
<1>9. Judged'
  <2>1. pc'[Master] = "out" <=> pc[Master] = "out"
    BY <1>4, FiniteSets DEF AtMutex
  <2> QED BY <1>1, <1>2, <1>4, <2>1 DEF Judged, Failed, Busy
<1>10. Closed' /\ VerdictSound'
  <2>1. Master \in Threads /\ batch[t] \subseteq Left
    BY FiniteSets
  <2>2. pc'[Master] = "out" <=> pc[Master] = "out"
    BY <1>4, <2>1 DEF AtMutex
  <2>3. pc[Master] = "out" => Left' = {} /\ allOk'
    BY <1>1, <2>1 DEF Closed, AllOkNow
  <2> QED BY <2>2, <2>3 DEF Closed, VerdictSound
<1> QED BY <1>6, <1>7, <1>8, <1>9, <1>10

LEMMA ReturnStep == ASSUME Inv, NEW t \in Threads, Return(t) PROVE Inv'
<1> USE DEF Inv, Return
<1>0. t = Master /\ TodoNow(t) = 0
  BY DEF MayReturn
<1>1. /\ Left' = Left \ batch[t] /\ Busy' = Busy \ {t}
      /\ Cardinality(Busy \ {t}) \in Nat
      /\ \A u \in Threads : batch'[u] = IF u = t THEN {} ELSE batch[u]
      /\ \A u \in Threads : batch'[u] \cap queue' = {}
      /\ \A u, v \in Threads : u # v => batch'[u] \cap batch'[v] = {}
  <2>1. {} \in SUBSET queue /\ queue' = queue \ {}
    OBVIOUS
  <2> QED BY <2>1, Handover
<1>2. /\ TodoNow(t) = Cardinality(Left \ batch[t])
      /\ TotalNow(t) \in Int /\ IdleNow(t) \in Int
      /\ TotalNow(t) - IdleNow(t) = Cardinality(Busy \ {t}) + 1
      /\ ~AllOkNow(t) => Failed
      /\ pc[Master] # "out" /\ AllOkNow(t) => (added \ (Left \ batch[t])) \cap Bad = {}
  BY CleanUp
<1>3. Left' = {}
  <2>1. IsFiniteSet(Left \ batch[t])
    BY FiniteSets, RemovePart
  <2> QED BY <1>0, <1>1, <1>2, <2>1, FS_EmptySet
<1>4. Busy' = {}
  BY <1>3 DEF Left, Busy
<1>5. pc'[t] = "out" /\ \A u \in Threads \ {t} : pc'[u] = pc[u]
  BY DEF TypeOK
<1>6. TypeOK'
  <2>1. batch' \in [Threads -> SUBSET Checks] /\ verdict' \in {"none", "ok", "failed"}
    BY DEF TypeOK
  <2>2. pc' \in [Threads -> {"out", "adding", "ready", "asleep", "notified", "work", "gone"}]
    BY DEF TypeOK
  <2> QED BY <1>0, <1>2, <2>1, <2>2 DEF TypeOK, Reset
<1>7. Counted'
  BY <1>0, <1>1, <1>2, <1>3 DEF Counted
<1>8. Placed'
  BY <1>1, <1>3, <1>5 DEF Placed
<1>9. Judged'
  BY <1>0, <1>4, <1>5 DEF Judged, Reset
<1>10. Closed' /\ VerdictSound'
  <2>1. pc[Master] # "out" /\ pc'[Master] = "out"
    BY <1>0, <1>5 DEF AtMutex
  <2>2. AllOkNow(t) <=> added \cap Bad = {}
    BY <1>1, <1>2, <1>3, <2>1 DEF Failed
  <2>3. verdict' = IF AllOkNow(t) THEN "ok" ELSE "failed"
    OBVIOUS
  <2> QED BY <1>3, <2>1, <2>2, <2>3 DEF Closed, VerdictSound, Reset
<1> QED BY <1>6, <1>7, <1>8, <1>9, <1>10

LEMMA TakeStep == ASSUME Inv, NEW t \in Threads, Take(t) PROVE Inv'
<1> USE DEF Inv, Take
<1>0. PICK b \in SUBSET queue :
         b # {} /\ queue' = queue \ b /\ batch' = [batch EXCEPT ![t] = b]
  OBVIOUS
<1>1. /\ Left' = Left \ batch[t] /\ Busy' = Busy \cup {t}
      /\ Cardinality(Busy') = Cardinality(Busy \ {t}) + 1
      /\ \A u \in Threads : batch'[u] = IF u = t THEN b ELSE batch[u]
      /\ \A u \in Threads : batch'[u] \cap queue' = {}
      /\ \A u, v \in Threads : u # v => batch'[u] \cap batch'[v] = {}
  <2>1. /\ Left' = Left \ batch[t]
        /\ Busy' = IF b = {} THEN Busy \ {t} ELSE Busy \cup {t}
        /\ Cardinality(Busy') = Cardinality(Busy \ {t}) + (IF b = {} THEN 0 ELSE 1)
        /\ Cardinality(Busy \ {t}) \in Nat
        /\ \A u \in Threads : batch'[u] = IF u = t THEN b ELSE batch[u]
        /\ \A u \in Threads : batch'[u] \cap queue' = {}
        /\ \A u, v \in Threads : u # v => batch'[u] \cap batch'[v] = {}
    BY <1>0, Handover
  <2> QED BY <1>0, <2>1
<1>2. /\ TodoNow(t) = Cardinality(Left \ batch[t])
      /\ TotalNow(t) \in Int /\ IdleNow(t) \in Int
      /\ TotalNow(t) - IdleNow(t) = Cardinality(Busy \ {t}) + 1
      /\ ~AllOkNow(t) => Failed
      /\ pc[Master] # "out" /\ AllOkNow(t) => (added \ (Left \ batch[t])) \cap Bad = {}
      /\ AllOkNow(t) \in BOOLEAN
  BY CleanUp
<1>3. pc' \in [Threads -> {"out", "adding", "ready", "asleep", "notified", "work", "gone"}]
  BY DEF TypeOK, TellMaster
<1>4. pc'[t] = "work" /\ \A u \in Threads \ {t} :
         pc'[u] = pc[u] \/ (pc[u] = "asleep" /\ pc'[u] = "notified")
  BY DEF TypeOK, TellMaster
<1>5. TodoNow(t) \in Nat
  BY CleanUp
<1>6. TypeOK'
  <2>1. batch' \in [Threads -> SUBSET Checks] /\ ok' \in [Threads -> BOOLEAN]
    BY <1>0, <1>2 DEF TypeOK
  <2> QED BY <1>0, <1>2, <1>3, <1>5, <2>1 DEF TypeOK
<1>7. Counted'
  BY <1>1, <1>2 DEF Counted
<1>8. Placed'
  BY <1>0, <1>1, <1>4 DEF Placed
<1>9. Judged'
  <2>1. \A u \in Threads : ok'[u] = IF u = t THEN AllOkNow(t) ELSE ok[u]
    BY DEF TypeOK
  <2>2. pc'[Master] = "out" <=> pc[Master] = "out"
    BY <1>4, FiniteSets DEF AtMutex
  <2>3. ~allOk' => Failed'
    BY <1>2 DEF Failed
  <2>4. pc'[Master] # "out" /\ allOk' => (added' \ Left') \cap Bad = {}
    BY <1>1, <1>2, <2>2
  <2>5. \A u \in Busy' : ~ok'[u] => Failed'
    BY <1>1, <1>2, <2>1 DEF Judged, Failed, Busy
  <2>6. \A u \in Busy' : pc'[u] = "ready" /\ ok'[u] => batch'[u] \cap Bad = {}
    BY <1>1, <1>4, <2>1 DEF Judged, Busy
  <2> QED BY <2>3, <2>4, <2>5, <2>6 DEF Judged
<1>10. Closed' /\ VerdictSound'
  <2>1. Master \in Threads
    BY FiniteSets
  <2>2. pc[Master] # "out" /\ verdict = "none"
    BY <1>0 DEF Closed, Left
  <2>3. pc'[Master] # "out"
    BY <1>4, <2>1, <2>2
  <2> QED BY <2>2, <2>3 DEF Closed, VerdictSound
<1> QED BY <1>6, <1>7, <1>8, <1>9, <1>10

LEMMA NextInv == Inv /\ [Next]_vars => Inv'
<1> SUFFICES ASSUME Inv, [Next]_vars PROVE Inv'
  OBVIOUS
<1>m. Master \in Threads /\ \A w \in Workers : w \in Threads /\ w # Master
  BY CheckQueueAssumption DEF Threads
<1>1. CASE Open
  BY <1>1, OpenStep
<1>2. CASE \E new \in SUBSET (Checks \ added) \ {{}} : Add(new)
  BY <1>2, AddStep
<1>3. CASE StartWait
  <2>1. TypeOK'
    BY <1>3 DEF Inv, StartWait, TypeOK, counters
  <2> QED BY <1>3, <1>m, <2>1, MoveStep DEF Inv, StartWait, TypeOK, Placed
<1>4. CASE \E w \in Workers : StartWorker(w)
  <2> PICK w \in Workers : StartWorker(w)
    BY <1>4
  <2>1. TypeOK'
    BY <1>m DEF Inv, StartWorker, TypeOK, counters
  <2> QED BY <1>m, <2>1, MoveStep DEF Inv, StartWorker, TypeOK, Placed
<1>5. CASE \E t \in Threads : Step(t)
  BY <1>5, ReturnStep, SleepStep, TakeStep, WorkStep DEF Step
<1>6. CASE \E t \in Threads : WakeUp(t) \/ Interrupt(t)
  <2> PICK t \in Threads : WakeUp(t) \/ Interrupt(t)
    BY <1>6
  <2>1. TypeOK'
    BY DEF Inv, WakeUp, Interrupt, TypeOK, counters
  <2>2. UNCHANGED <<queue, counters, allOk, batch, ok, added, verdict>>
    BY DEF WakeUp, Interrupt
  <2>3. pc[t] \in {"asleep", "notified"} /\ batch[t] = {}
    BY DEF WakeUp, Interrupt, Inv, Placed
  <2>4. pc'[t] \in {"ready", "notified", "gone"} /\ \A u \in Threads \ {t} : pc'[u] = pc[u]
    BY DEF WakeUp, Interrupt, Inv, TypeOK
  <2> QED BY <1>m, <2>1, <2>2, <2>3, <2>4, MoveStep
<1>7. CASE UNCHANGED vars
  BY <1>7 DEF vars, counters, Inv, TypeOK, Placed, Counted, Judged, Closed, VerdictSound,
     Failed, Left, Busy
<1> QED BY <1>1, <1>2, <1>3, <1>4, <1>5, <1>6, <1>7 DEF Next

LEMMA SpecInv == Spec => []Inv
<1> QED BY InitInv, NextInv, PTL DEF Spec

---------------------------------------------------------------------------
(* The theorems. *)

\* The queue's variables and each thread's are of their types.
THEOREM TypeCorrect == Spec => []TypeOK
<1>1. Inv => TypeOK
  BY DEF Inv
<1> QED BY <1>1, SpecInv, PTL

\* ConnectBlock gets the conjunction of the checks it has added: no failure of a batch is
\* lost and none of another block is counted (Loop, Wait).
THEOREM WaitIsSound == Spec => []VerdictSound
<1>1. Inv => VerdictSound
  BY DEF Inv
<1> QED BY <1>1, SpecInv, PTL

\* The assertion of CCheckQueueControl never fails, with workers starting, working and
\* being interrupted at any time.
THEOREM ControlAssertion == Spec => []IdleAssertion
<1>1. Inv => IdleAssertion
  <2> SUFFICES ASSUME Inv, pc[Master] = "out" PROVE total = idle /\ todo = 0 /\ allOk
    BY DEF IdleAssertion
  <2>1. Left = {} /\ allOk
    BY DEF Inv, Closed
  <2>2. Busy = {}
    BY <2>1 DEF Left, Busy
  <2>3. Cardinality({}) = 0
    BY FS_EmptySet
  <2> QED BY <2>1, <2>2, <2>3 DEF Inv, TypeOK, Counted
<1> QED BY <1>1, SpecInv, PTL

=============================================================================
