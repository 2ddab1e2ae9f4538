-------------------------- MODULE ProjectCli_proofs --------------------------
(***************************************************************************)
(* What holds of the project CLI runner for every number of runs, slots,   *)
(* kept records, crashes and database failures.                            *)
(***************************************************************************)
EXTENDS ProjectCli, TLAPS, FiniteSetTheorems

-----------------------------------------------------------------------------
(* The inductive invariant *)

\* spawn_run counts the live runs when it takes the mutex, and nobody adds one before it
\* does.
SlotsReserved ==
  /\ Cardinality(live) <= MaxActive
  /\ lock # "free" => Cardinality(live) < MaxActive

IdsInOrder ==
  \A p, q \in Runs : p < q /\ row[q] # "none" => row[p] # "none"

\* The row spawn_run has inserted and not yet entered into live_runs.
Admitting ==
  lock = "admit" => \A r \in Runs : LastId(r) => row[r] = "running" /\ drive[r].pc = "none"

\* live_runs holds the runs that are driven, and their rows are running until drive
\* itself writes them or fails to.
LiveDriven ==
  \A r \in Runs :
    /\ r \in live <=> drive[r].pc \in {"spawn", "wait", "update", "remove"}
    /\ drive[r].pc \in {"spawn", "wait", "update"} => row[r] = "running"
    /\ drive[r].pc = "update" => drive[r].outcome \in Outcome
    /\ drive[r].pc = "remove" => row[r] # "running" \/ r \in lost
    /\ row[r] = "none" => drive[r].pc = "none"

ChildDriven ==
  \A r \in Runs : child[r] = "running" => r \in orphans \/ drive[r].pc = "wait"

\* A running row nobody drives has a reason.
Abandoned ==
  \A r \in Runs : row[r] = "running" /\ r \notin live =>
    r \in orphans \cup lost \/ (lock = "admit" /\ LastId(r))

CutoffOld ==
  \A r \in Runs : prune[r].pc = "delete" =>
    prune[r].cutoff \in Runs /\ Cardinality(InsertedAfter(prune[r].cutoff)) >= MaxKept

Inv ==
  /\ TypeOK /\ SlotsReserved /\ IdsInOrder /\ Admitting /\ LiveDriven /\ ChildDriven
  /\ Abandoned /\ InterruptedExplained /\ CutoffOld /\ PrunedAreOld

-----------------------------------------------------------------------------
LEMMA RunsFinite ==
  ASSUME NEW S \in SUBSET Runs
  PROVE  IsFiniteSet(S) /\ Cardinality(S) \in Nat
<1>1. IsFiniteSet(Runs)
  BY FS_Interval, ConstantsAssumption DEF Runs
<1>2. IsFiniteSet(S)
  BY <1>1, FS_Subset
<1> QED
  BY <1>2, FS_CardinalityType

LEMMA RunsAreNaturals == \A r \in Runs : r \in Nat
  BY ConstantsAssumption DEF Runs

\* As long as no row becomes unused again, the rows inserted after one only get more.
LEMMA InsertedGrows ==
  ASSUME NEW c \in Runs, \A q \in Runs : row[q] # "none" => row'[q] # "none"
  PROVE  /\ Cardinality(InsertedAfter(c)) \in Nat
         /\ Cardinality(InsertedAfter(c)') \in Nat
         /\ Cardinality(InsertedAfter(c)') >= Cardinality(InsertedAfter(c))
<1>1. InsertedAfter(c) \subseteq InsertedAfter(c)'
  BY DEF InsertedAfter
<1>2. InsertedAfter(c)' \subseteq Runs
  BY DEF InsertedAfter
<1>3. IsFiniteSet(InsertedAfter(c)') /\ Cardinality(InsertedAfter(c)') \in Nat
  BY <1>2, RunsFinite
<1>4. Cardinality(InsertedAfter(c)) <= Cardinality(InsertedAfter(c)')
  BY <1>1, <1>3, FS_Subset
<1>5. Cardinality(InsertedAfter(c)) \in Nat
  BY <1>1, <1>2, RunsFinite
<1> QED
  BY <1>3, <1>4, <1>5

\* What was proved of old cutoffs and deleted records survives a step that deletes none.
LEMMA AgeKept ==
  ASSUME Inv, MaxKept \in Nat,
         \A q \in Runs : row[q] # "none" => row'[q] # "none",
         \A q \in Runs : row'[q] = "pruned" => row[q] = "pruned",
         \A q \in Runs : prune'[q].pc = "delete" => prune'[q] = prune[q]
  PROVE  CutoffOld' /\ PrunedAreOld'
<1>1. ASSUME NEW c \in Runs, Cardinality(InsertedAfter(c)) >= MaxKept
      PROVE  Cardinality(InsertedAfter(c)') >= MaxKept
  BY <1>1, InsertedGrows
<1>2. CutoffOld'
  <2> SUFFICES ASSUME NEW q \in Runs, prune'[q].pc = "delete"
               PROVE  /\ prune'[q].cutoff \in Runs
                      /\ Cardinality(InsertedAfter(prune[q].cutoff)') >= MaxKept
    BY DEF CutoffOld
  <2>1. PICK c \in Runs : /\ c = prune[q].cutoff /\ c = prune'[q].cutoff
                          /\ Cardinality(InsertedAfter(c)) >= MaxKept
    BY DEF Inv, CutoffOld
  <2>2. Cardinality(InsertedAfter(c)') >= MaxKept
    BY <1>1, <2>1
  <2> QED
    BY <2>1, <2>2 DEF InsertedAfter
<1>3. PrunedAreOld'
  <2> SUFFICES ASSUME NEW q \in Runs, row'[q] = "pruned"
               PROVE  Cardinality(InsertedAfter(q)') >= MaxKept
    BY DEF PrunedAreOld, InsertedAfter
  <2> QED
    BY <1>1 DEF Inv, PrunedAreOld
<1> QED
  BY <1>2, <1>3

\* A step that only moves a drive task or a child leaves the rows and the mutex alone.
LEMMA RowsKept ==
  ASSUME Inv, UNCHANGED <<lock, live, row, prune, lost, orphans>>
  PROVE  /\ SlotsReserved' /\ IdsInOrder' /\ Abandoned' /\ InterruptedExplained'
         /\ CutoffOld' /\ PrunedAreOld'
<1>1. CutoffOld' /\ PrunedAreOld'
  BY AgeKept, ConstantsAssumption DEF Inv, TypeOK
<1> QED
  BY <1>1 DEF Inv, SlotsReserved, IdsInOrder, Abandoned, LastId, InterruptedExplained

LEMMA InvInit == Init => Inv
<1> SUFFICES ASSUME Init PROVE Inv
  OBVIOUS
<1>1. TypeOK
  BY ConstantsAssumption DEF Init, TypeOK, Final, Outcome
<1>2. SlotsReserved
  BY FS_EmptySet, ConstantsAssumption DEF Init, SlotsReserved
<1>3. IdsInOrder /\ Admitting /\ LiveDriven /\ ChildDriven /\ Abandoned
  BY DEF Init, IdsInOrder, Admitting, LiveDriven, ChildDriven, Abandoned
<1>4. InterruptedExplained /\ CutoffOld /\ PrunedAreOld
  BY DEF Init, InterruptedExplained, CutoffOld, PrunedAreOld
<1> QED
  BY <1>1, <1>2, <1>3, <1>4 DEF Inv

LEMMA InvNext == Inv /\ [Next]_vars => Inv'
<1> SUFFICES ASSUME Inv, [Next]_vars PROVE Inv'
  OBVIOUS
<1> USE ConstantsAssumption, RunsAreNaturals DEF ConstantsAssumption, Inv
<1>1. CASE StartLock
  <2>1. TypeOK'
    BY <1>1 DEF StartLock, TypeOK
  <2>2. SlotsReserved'
    BY <1>1 DEF StartLock, SlotsReserved
  <2>3. Admitting' /\ Abandoned'
    BY <1>1 DEF StartLock, Admitting, Abandoned
  <2>4. IdsInOrder' /\ LiveDriven' /\ ChildDriven' /\ InterruptedExplained'
    BY <1>1 DEF StartLock, IdsInOrder, LiveDriven, ChildDriven, InterruptedExplained
  <2>5. CutoffOld' /\ PrunedAreOld'
    BY <1>1, AgeKept DEF StartLock
  <2> QED
    BY <2>1, <2>2, <2>3, <2>4, <2>5 DEF Inv
<1>2. ASSUME NEW r \in Runs, StartInsert(r) PROVE Inv'
  <2>1. TypeOK'
    BY <1>2 DEF StartInsert, TypeOK
  <2>2. SlotsReserved'
    BY <1>2 DEF StartInsert, SlotsReserved
  <2>3. row[r] = "none" /\ \A q \in Runs : row[q] = "none" => r <= q
    BY <1>2 DEF StartInsert, NextId
  <2>4. row' = [row EXCEPT ![r] = "running"]
    BY <1>2 DEF StartInsert
  <2>5. \A q \in Runs : row[q] # "none" => q < r
    BY <2>3 DEF IdsInOrder
  <2>6. IdsInOrder'
    BY <2>3, <2>4 DEF TypeOK, IdsInOrder
  <2>7. LastId(r)' /\ \A q \in Runs : LastId(q)' => q = r
    BY <2>3, <2>4, <2>5 DEF TypeOK, LastId
  <2>8. Admitting'
    BY <1>2, <2>3, <2>7 DEF StartInsert, TypeOK, Admitting, LiveDriven
  <2>9. LiveDriven' /\ ChildDriven'
    BY <1>2, <2>3 DEF StartInsert, TypeOK, LiveDriven, ChildDriven
  <2>10. Abandoned'
    BY <1>2, <2>3, <2>7 DEF StartInsert, TypeOK, Abandoned
  <2>11. InterruptedExplained'
    BY <1>2 DEF StartInsert, TypeOK, InterruptedExplained
  <2>12. CutoffOld' /\ PrunedAreOld'
    BY <1>2, AgeKept DEF StartInsert, TypeOK
  <2> QED
    BY <2>1, <2>2, <2>3, <2>4, <2>5, <2>6, <2>7, <2>8, <2>9, <2>10, <2>11, <2>12 DEF Inv
<1>3. ASSUME NEW r \in Runs, StartFails(r) PROVE Inv'
  <2>1. dbFailures' \in 0..MaxDbFailures
    BY <1>3 DEF StartFails, DbFails, TypeOK
  <2>2. row' \in [Runs -> {"none", "running", "pruned"} \cup Final] /\ lost' \subseteq Runs
    BY <1>3 DEF StartFails, TypeOK
  <2>3. TypeOK'
    BY <1>3, <2>1, <2>2 DEF StartFails, TypeOK
  <2>4. SlotsReserved'
    BY <1>3, RunsFinite DEF StartFails, SlotsReserved, TypeOK
  <2>5. row[r] = "none" /\ \A q \in Runs : row[q] = "none" => r <= q
    BY <1>3 DEF StartFails, NextId
  <2>6. IdsInOrder'
    BY <1>3, <2>5 DEF StartFails, TypeOK, IdsInOrder
  <2>7. Admitting' /\ LiveDriven' /\ ChildDriven'
    BY <1>3, <2>5 DEF StartFails, TypeOK, Admitting, LiveDriven, ChildDriven
  <2>8. Abandoned' /\ InterruptedExplained'
    BY <1>3, <2>5 DEF StartFails, TypeOK, Abandoned, InterruptedExplained
  <2>9. CutoffOld' /\ PrunedAreOld'
    BY <1>3, AgeKept DEF StartFails, TypeOK
  <2> QED
    BY <2>1, <2>2, <2>3, <2>4, <2>5, <2>6, <2>7, <2>8, <2>9 DEF Inv
<1>4. ASSUME NEW r \in Runs, StartDrive(r) PROVE Inv'
  <2>1. TypeOK'
    BY <1>4 DEF StartDrive, Goto, TypeOK
  <2>2. IsFiniteSet(live) /\ Cardinality(live) \in Nat
    BY RunsFinite DEF TypeOK
  <2>3. Cardinality(live \cup {r}) \in Nat /\ Cardinality(live \cup {r}) <= Cardinality(live) + 1
    <3>1. Cardinality(live \cup {r}) =
            IF r \in live THEN Cardinality(live) ELSE Cardinality(live) + 1
      BY <2>2, FS_AddElement
    <3> QED
      BY <2>2, <3>1
  <2>4. SlotsReserved'
    BY <1>4, <2>2, <2>3 DEF StartDrive, SlotsReserved
  <2>5. row[r] = "running" /\ drive[r].pc = "none"
    BY <1>4 DEF StartDrive, Admitting
  <2>6. IdsInOrder' /\ Admitting'
    BY <1>4 DEF StartDrive, IdsInOrder, Admitting
  <2>7. LiveDriven' /\ ChildDriven'
    BY <1>4, <2>5 DEF StartDrive, Goto, TypeOK, LiveDriven, ChildDriven
  <2>8. \A q \in Runs : LastId(q) => q = r
    BY <1>4 DEF StartDrive, LastId
  <2>9. Abandoned' /\ InterruptedExplained'
    BY <1>4, <2>8 DEF StartDrive, Abandoned, InterruptedExplained
  <2>10. CutoffOld' /\ PrunedAreOld'
    BY <1>4, AgeKept DEF StartDrive, TypeOK
  <2> QED
    BY <2>1, <2>2, <2>3, <2>4, <2>5, <2>6, <2>7, <2>8, <2>9, <2>10 DEF Inv
<1>5. ASSUME NEW r \in Runs, DriveSpawn(r) PROVE Inv'
  <2>1. TypeOK'
    BY SMTT(30), <1>5 DEF DriveSpawn, Goto, Ends, TypeOK, Outcome
  <2>2. UNCHANGED <<lock, live, row, prune, lost, orphans>>
    BY <1>5 DEF DriveSpawn
  <2>3. LiveDriven'
    BY <1>5, <2>2 DEF DriveSpawn, Goto, Ends, TypeOK, LiveDriven, Outcome
  <2>4. Admitting'
    BY ZenonT(60), <1>5, <2>2 DEF DriveSpawn, Goto, Ends, TypeOK, Admitting, LastId
  <2>5. ChildDriven'
    BY <1>5, <2>2 DEF DriveSpawn, Goto, Ends, TypeOK, ChildDriven
  <2>6. SlotsReserved' /\ IdsInOrder' /\ Abandoned' /\ InterruptedExplained'
         /\ CutoffOld' /\ PrunedAreOld'
    BY <2>2, RowsKept
  <2> QED
    BY <2>1, <2>2, <2>3, <2>4, <2>5, <2>6 DEF Inv
<1>6. ASSUME NEW r \in Runs, DriveExited(r) PROVE Inv'
  <2>1. TypeOK'
    BY <1>6 DEF DriveExited, Goto, Ends, TypeOK, Outcome
  <2>2. UNCHANGED <<lock, live, row, prune, lost, orphans>>
    BY <1>6 DEF DriveExited
  <2>3. LiveDriven'
    BY <1>6, <2>2 DEF DriveExited, Goto, Ends, TypeOK, LiveDriven, Outcome
  <2>4. Admitting'
    BY <1>6, <2>2 DEF DriveExited, Goto, Ends, TypeOK, Admitting, LastId
  <2>5. ChildDriven'
    BY <1>6, <2>2 DEF DriveExited, Goto, Ends, TypeOK, ChildDriven
  <2>6. SlotsReserved' /\ IdsInOrder' /\ Abandoned' /\ InterruptedExplained'
         /\ CutoffOld' /\ PrunedAreOld'
    BY <2>2, RowsKept
  <2> QED
    BY <2>1, <2>2, <2>3, <2>4, <2>5, <2>6 DEF Inv
<1>7. ASSUME NEW r \in Runs, DriveCancelled(r) PROVE Inv'
  <2>1. TypeOK'
    BY <1>7 DEF DriveCancelled, Goto, Ends, TypeOK, Outcome
  <2>2. UNCHANGED <<lock, live, row, prune, lost, orphans>>
    BY <1>7 DEF DriveCancelled
  <2>3. LiveDriven'
    BY <1>7, <2>2 DEF DriveCancelled, Goto, Ends, TypeOK, LiveDriven, Outcome
  <2>4. Admitting'
    BY <1>7, <2>2 DEF DriveCancelled, Goto, Ends, TypeOK, Admitting, LastId
  <2>5. ChildDriven'
    BY <1>7, <2>2 DEF DriveCancelled, Goto, Ends, TypeOK, ChildDriven
  <2>6. SlotsReserved' /\ IdsInOrder' /\ Abandoned' /\ InterruptedExplained'
         /\ CutoffOld' /\ PrunedAreOld'
    BY <2>2, RowsKept
  <2> QED
    BY <2>1, <2>2, <2>3, <2>4, <2>5, <2>6 DEF Inv
<1>8. ASSUME NEW r \in Runs, DriveUpdate(r) PROVE Inv'
  <2>1. row[r] = "running" /\ r \in live /\ drive[r].outcome \in Outcome
    BY <1>8 DEF DriveUpdate, LiveDriven
  <2>2. TypeOK'
    BY <1>8, <2>1 DEF DriveUpdate, DbFails, Goto, TypeOK, Final
  <2>3. \/ row' = [row EXCEPT ![r] = drive[r].outcome] /\ UNCHANGED lost
        \/ UNCHANGED row /\ lost' = lost \cup {r}
    BY <1>8, <2>1 DEF DriveUpdate, DbFails
  <2>4. \A q \in Runs : row[q] # "none" <=> row'[q] # "none"
    BY <2>1, <2>3 DEF TypeOK, Outcome
  <2>5. SlotsReserved' /\ IdsInOrder'
    BY <1>8, <2>4 DEF DriveUpdate, SlotsReserved, IdsInOrder
  <2>6. \A q \in Runs : LastId(q)' <=> LastId(q)
    BY <2>4 DEF LastId
  <2>7. Admitting'
    BY <1>8, <2>1, <2>3, <2>6 DEF DriveUpdate, Goto, TypeOK, Admitting
  <2>8. LiveDriven' /\ ChildDriven'
    BY <1>8, <2>1, <2>3 DEF DriveUpdate, Goto, TypeOK, LiveDriven, ChildDriven, Outcome
  <2>9. Abandoned' /\ InterruptedExplained'
    BY <1>8, <2>1, <2>3, <2>6
       DEF DriveUpdate, TypeOK, Abandoned, InterruptedExplained, Outcome
  <2>10. CutoffOld' /\ PrunedAreOld'
    BY <1>8, <2>1, <2>3, AgeKept DEF DriveUpdate, TypeOK, Outcome
  <2> QED
    BY <2>1, <2>2, <2>3, <2>4, <2>5, <2>6, <2>7, <2>8, <2>9, <2>10 DEF Inv
<1>9. ASSUME NEW r \in Runs, DriveRemove(r) PROVE Inv'
  <2>1. TypeOK'
    BY <1>9 DEF DriveRemove, Ends, TypeOK
  <2>2. IsFiniteSet(live) /\ Cardinality(live) \in Nat
    BY RunsFinite DEF TypeOK
  <2>3. Cardinality(live \ {r}) \in Nat /\ Cardinality(live \ {r}) <= Cardinality(live)
    BY <2>2, RunsFinite, FS_Subset DEF TypeOK
  <2>4. SlotsReserved'
    BY <1>9, <2>2, <2>3 DEF DriveRemove, SlotsReserved
  <2>5. IdsInOrder' /\ Admitting'
    BY <1>9 DEF DriveRemove, IdsInOrder, Admitting
  <2>6. LiveDriven' /\ ChildDriven'
    BY <1>9 DEF DriveRemove, Ends, TypeOK, LiveDriven, ChildDriven
  <2>7. Abandoned' /\ InterruptedExplained'
    BY <1>9 DEF DriveRemove, LiveDriven, Abandoned, InterruptedExplained
  <2>8. CutoffOld' /\ PrunedAreOld'
    BY <1>9, AgeKept DEF DriveRemove
  <2> QED
    BY <2>1, <2>2, <2>3, <2>4, <2>5, <2>6, <2>7, <2>8 DEF Inv
<1>10. ASSUME NEW r \in Runs, DriveWaitFails(r) PROVE Inv'
  <2>1. TypeOK'
    BY <1>10 DEF DriveWaitFails, Goto, Ends, TypeOK, Outcome
  <2>2. UNCHANGED <<lock, live, row, prune, lost, orphans>>
    BY <1>10 DEF DriveWaitFails
  <2>3. LiveDriven'
    BY <1>10, <2>2 DEF DriveWaitFails, Goto, Ends, TypeOK, LiveDriven, Outcome
  <2>4. Admitting'
    BY <1>10, <2>2 DEF DriveWaitFails, Goto, Ends, TypeOK, Admitting, LastId
  <2>5. ChildDriven'
    BY <1>10, <2>2 DEF DriveWaitFails, Goto, Ends, TypeOK, ChildDriven
  <2>6. SlotsReserved' /\ IdsInOrder' /\ Abandoned' /\ InterruptedExplained'
         /\ CutoffOld' /\ PrunedAreOld'
    BY <2>2, RowsKept
  <2> QED
    BY <2>1, <2>2, <2>3, <2>4, <2>5, <2>6 DEF Inv
<1>11. ASSUME NEW r \in Runs, ChildExits(r) PROVE Inv'
  <2>1. TypeOK'
    BY <1>11 DEF ChildExits, Goto, Ends, TypeOK, Outcome
  <2>2. UNCHANGED <<lock, live, row, prune, lost, orphans>>
    BY <1>11 DEF ChildExits
  <2>3. LiveDriven'
    BY <1>11, <2>2 DEF ChildExits, Goto, Ends, TypeOK, LiveDriven, Outcome
  <2>4. Admitting'
    BY <1>11, <2>2 DEF ChildExits, Goto, Ends, TypeOK, Admitting, LastId
  <2>5. ChildDriven'
    BY <1>11, <2>2 DEF ChildExits, Goto, Ends, TypeOK, ChildDriven
  <2>6. SlotsReserved' /\ IdsInOrder' /\ Abandoned' /\ InterruptedExplained'
         /\ CutoffOld' /\ PrunedAreOld'
    BY <2>2, RowsKept
  <2> QED
    BY <2>1, <2>2, <2>3, <2>4, <2>5, <2>6 DEF Inv
<1>12. ASSUME NEW r \in Runs, Cancel(r) PROVE Inv'
  <2>1. TypeOK'
    BY <1>12 DEF Cancel, Goto, Ends, TypeOK, Outcome
  <2>2. UNCHANGED <<lock, live, row, prune, lost, orphans>>
    BY <1>12 DEF Cancel
  <2>3. LiveDriven'
    BY <1>12, <2>2 DEF Cancel, Goto, Ends, TypeOK, LiveDriven, Outcome
  <2>4. Admitting'
    BY <1>12, <2>2 DEF Cancel, Goto, Ends, TypeOK, Admitting, LastId
  <2>5. ChildDriven'
    BY <1>12, <2>2 DEF Cancel, Goto, Ends, TypeOK, ChildDriven
  <2>6. SlotsReserved' /\ IdsInOrder' /\ Abandoned' /\ InterruptedExplained'
         /\ CutoffOld' /\ PrunedAreOld'
    BY <2>2, RowsKept
  <2> QED
    BY <2>1, <2>2, <2>3, <2>4, <2>5, <2>6 DEF Inv
<1>13. ASSUME NEW r \in Runs, PruneRead(r) PROVE Inv'
  <2>1. \/ prune' = [prune EXCEPT ![r].pc = "done"]
        \/ \E q \in Runs : prune' = [prune EXCEPT ![r] = [pc |-> "delete", cutoff |-> q]]
    BY <1>13 DEF PruneRead, Stored
  <2>2. TypeOK'
    BY <1>13, <2>1 DEF PruneRead, TypeOK
  <2>3. SlotsReserved' /\ IdsInOrder' /\ Admitting' /\ LiveDriven' /\ ChildDriven'
    BY <1>13
       DEF PruneRead, SlotsReserved, IdsInOrder, Admitting, LastId, LiveDriven,
           ChildDriven
  <2>4. Abandoned' /\ InterruptedExplained' /\ PrunedAreOld'
    BY <1>13
       DEF PruneRead, Abandoned, LastId, InterruptedExplained, PrunedAreOld,
           InsertedAfter
  <2>5. ASSUME NEW q \in Stored, Cardinality({p \in Stored : p > q}) = MaxKept
        PROVE  Cardinality(InsertedAfter(q)) >= MaxKept
    <3>1. {p \in Stored : p > q} \subseteq InsertedAfter(q)
      BY DEF Stored, InsertedAfter
    <3>2. IsFiniteSet(InsertedAfter(q)) /\ Cardinality(InsertedAfter(q)) \in Nat
      BY RunsFinite DEF InsertedAfter
    <3> QED
      BY <2>5, <3>1, <3>2, FS_Subset
  <2>6. CutoffOld'
    <3>1. UNCHANGED row
      BY <1>13 DEF PruneRead
    <3>2. CASE prune' = [prune EXCEPT ![r].pc = "done"]
      BY <3>1, <3>2 DEF TypeOK, CutoffOld, InsertedAfter
    <3>3. ASSUME NEW q \in Stored, Cardinality({p \in Stored : p > q}) = MaxKept,
                 prune' = [prune EXCEPT ![r] = [pc |-> "delete", cutoff |-> q]]
          PROVE  CutoffOld'
      BY <2>5, <3>1, <3>3 DEF TypeOK, CutoffOld, InsertedAfter, Stored
    <3> QED
      BY <1>13, <3>2, <3>3 DEF PruneRead
  <2> QED
    BY <2>1, <2>2, <2>3, <2>4, <2>5, <2>6 DEF Inv
<1>14. ASSUME NEW r \in Runs, PruneDelete(r) PROVE Inv'
  <2>1. TypeOK'
    BY <1>14 DEF PruneDelete, TypeOK
  <2>2. /\ \A q \in Runs : row'[q] # row[q] =>
             row[q] \in Final /\ row'[q] = "pruned" /\ q <= prune[r].cutoff
        /\ prune[r].cutoff \in Runs
    BY <1>14 DEF PruneDelete, TypeOK, CutoffOld
  <2>3. \A q \in Runs : row[q] # "none" <=> row'[q] # "none"
    BY <2>2 DEF Final, Outcome
  <2>4. SlotsReserved' /\ IdsInOrder'
    BY <1>14, <2>3 DEF PruneDelete, SlotsReserved, IdsInOrder
  <2>5. \A q \in Runs : LastId(q)' <=> LastId(q)
    BY <2>3 DEF LastId
  <2>6. \A q \in Runs : row'[q] = "running" <=> row[q] = "running"
    BY <2>2 DEF Final, Outcome
  <2>7. Admitting' /\ LiveDriven' /\ ChildDriven' /\ Abandoned'
    BY <1>14, <2>3, <2>5, <2>6
       DEF PruneDelete, Admitting, LiveDriven, ChildDriven, Abandoned
  <2>8. InterruptedExplained'
    BY <1>14, <2>2 DEF PruneDelete, InterruptedExplained
  <2>9. \A q \in Runs : InsertedAfter(q)' = InsertedAfter(q)
    BY <2>3 DEF InsertedAfter
  <2>10. CutoffOld'
    BY <1>14, <2>9 DEF PruneDelete, TypeOK, CutoffOld
  <2>11. PrunedAreOld'
    <3> SUFFICES ASSUME NEW q \in Runs, row'[q] = "pruned"
                 PROVE  Cardinality(InsertedAfter(q)) >= MaxKept
      BY <2>9 DEF PrunedAreOld
    <3>1. CASE row[q] = "pruned"
      BY <3>1 DEF PrunedAreOld
    <3>2. CASE q <= prune[r].cutoff
      <4>1. InsertedAfter(prune[r].cutoff) \subseteq InsertedAfter(q)
        BY <2>2, <3>2 DEF InsertedAfter
      <4>2. /\ IsFiniteSet(InsertedAfter(q)) /\ Cardinality(InsertedAfter(q)) \in Nat
            /\ Cardinality(InsertedAfter(prune[r].cutoff)) \in Nat
        BY RunsFinite DEF InsertedAfter
      <4>3. Cardinality(InsertedAfter(prune[r].cutoff)) >= MaxKept
        BY <1>14 DEF PruneDelete, CutoffOld
      <4> QED
        BY <4>1, <4>2, <4>3, FS_Subset
    <3> QED
      BY <2>2, <3>1, <3>2
  <2> QED
    BY <2>1, <2>2, <2>3, <2>4, <2>5, <2>6, <2>7, <2>8, <2>9, <2>10, <2>11 DEF Inv
<1>15. CASE Reconcile
  <2>1. TypeOK'
    BY <1>15 DEF Reconcile, TypeOK, Final
  <2>2. \A q \in Runs : row'[q] # row[q] =>
          row[q] = "running" /\ row'[q] = "interrupted" /\ q \notin live
    BY <1>15 DEF Reconcile
  <2>3. SlotsReserved' /\ IdsInOrder' /\ Admitting'
    BY <1>15, <2>2 DEF Reconcile, SlotsReserved, IdsInOrder, Admitting
  <2>4. LiveDriven' /\ ChildDriven'
    BY <1>15, <2>2 DEF Reconcile, LiveDriven, ChildDriven
  <2>5. Abandoned' /\ InterruptedExplained'
    BY <1>15, <2>2 DEF Reconcile, Abandoned, InterruptedExplained
  <2>6. CutoffOld' /\ PrunedAreOld'
    BY <1>15, <2>2, AgeKept DEF Reconcile
  <2> QED
    BY <2>1, <2>2, <2>3, <2>4, <2>5, <2>6 DEF Inv
<1>16. CASE Crash
  <2>1. drive' \in [Runs -> [pc : {"none", "spawn", "wait", "update", "remove", "ended"},
                            outcome : {"none"} \cup Outcome]]
    BY <1>16 DEF Crash, TypeOK
  <2>2. prune' \in [Runs -> [pc : {"none", "read", "delete", "done"}, cutoff : {0} \cup Runs]]
    BY <1>16 DEF Crash, TypeOK
  <2>3. crashes' \in 0..MaxCrashes
    BY <1>16 DEF Crash, TypeOK
  <2>4. TypeOK'
    BY <1>16, <2>1, <2>2, <2>3 DEF Crash, TypeOK
  <2>5. SlotsReserved'
    BY <1>16, FS_EmptySet DEF Crash, SlotsReserved
  <2>6. IdsInOrder' /\ Admitting'
    BY <1>16 DEF Crash, IdsInOrder, Admitting
  <2>7. LiveDriven'
    BY <1>16 DEF Crash, TypeOK, LiveDriven
  <2>8. ChildDriven'
    BY <1>16 DEF Crash, TypeOK, LiveDriven, ChildDriven
  <2>9. Abandoned' /\ InterruptedExplained'
    BY <1>16 DEF Crash, Abandoned, InterruptedExplained
  <2>10. CutoffOld' /\ PrunedAreOld'
    BY <1>16, AgeKept DEF Crash, TypeOK
  <2> QED
    BY <2>1, <2>2, <2>3, <2>4, <2>5, <2>6, <2>7, <2>8, <2>9, <2>10 DEF Inv
<1>17. CASE UNCHANGED vars
  <2>1. TypeOK' /\ SlotsReserved' /\ IdsInOrder'
    BY <1>17 DEF vars, TypeOK, SlotsReserved, IdsInOrder
  <2>2. Admitting' /\ LiveDriven' /\ ChildDriven' /\ Abandoned'
    BY <1>17 DEF vars, Admitting, LastId, LiveDriven, ChildDriven, Abandoned
  <2>3. InterruptedExplained' /\ CutoffOld' /\ PrunedAreOld'
    BY <1>17, AgeKept DEF vars, InterruptedExplained, TypeOK
  <2> QED
    BY <2>1, <2>2, <2>3 DEF Inv
<1> QED
  BY <1>1, <1>2, <1>3, <1>4, <1>5, <1>6, <1>7, <1>8, <1>9, <1>10, <1>11, <1>12, <1>13,
     <1>14, <1>15, <1>16, <1>17 DEF Next, StartStep, DriveStep

\* The invariant holds of every behavior.
LEMMA Invariance == Spec => []Inv
<1>1. Init => Inv
  BY InvInit
<1>2. Inv /\ [Next]_vars => Inv'
  BY InvNext
<1> QED
  BY <1>1, <1>2, PTL DEF Spec

-----------------------------------------------------------------------------
(* The theorems *)

\* Every variable keeps its type; in particular what drive writes into a row is one of
\* the statuses.
THEOREM TypeCorrect == Spec => []TypeOK
<1>1. Inv => TypeOK
  BY DEF Inv
<1> QED
  BY <1>1, Invariance, PTL

\* A list request never records a run as interrupted that is just starting or just
\* finishing in this server (reconcile_interrupted_runs against spawn_run and drive).
THEOREM NeverInterruptsALiveRun == Spec => []InterruptedExplained
<1>1. Inv => InterruptedExplained
  BY DEF Inv
<1> QED
  BY <1>1, Invariance, PTL

\* The processes of the server are those of live runs, and spawn_run keeps live_runs
\* within MAX_ACTIVE_RUNS.
THEOREM SlotsBoundProcesses == Spec => []ProcessesBounded
<1>1. ASSUME Inv PROVE ProcessesBounded
  <2>1. OwnProcesses \subseteq live
    BY <1>1 DEF OwnProcesses, Inv, ChildDriven, LiveDriven
  <2>2. IsFiniteSet(live) /\ Cardinality(live) \in Nat /\ Cardinality(OwnProcesses) \in Nat
    BY <1>1, <2>1, RunsFinite DEF Inv, TypeOK
  <2>3. Cardinality(OwnProcesses) <= Cardinality(live)
    BY <2>1, <2>2, FS_Subset
  <2> QED
    BY <1>1, <2>2, <2>3, ConstantsAssumption DEF Inv, SlotsReserved, ProcessesBounded
<1> QED
  BY <1>1, Invariance, PTL

\* prune_history never deletes one of the MAX_RUNS_KEPT newest records.
THEOREM PrunesOnlyOldRecords == Spec => []PrunedAreOld
<1>1. Inv => PrunedAreOld
  BY DEF Inv
<1> QED
  BY <1>1, Invariance, PTL

\* Each row is written once by insert, once by drive or reconciliation, and then deleted
\* at most: no result overwrites another.
THEOREM RowsSettledOnce == Spec => RowLifecycle
<1> DEFINE Legal ==
      \A r \in Runs : row'[r] # row[r] =>
        \/ row[r] = "none" /\ row'[r] = "running"
        \/ row[r] = "running" /\ row'[r] \in Final
        \/ row[r] \in Final /\ row'[r] = "pruned"
<1>1. ASSUME Inv, Next PROVE Legal
  <2>1. ASSUME NEW r \in Runs, StartInsert(r) \/ StartFails(r) PROVE Legal
    BY <1>1, <2>1 DEF StartInsert, StartFails, NextId, Inv, TypeOK
  <2>2. ASSUME NEW r \in Runs, DriveUpdate(r) PROVE Legal
    BY <1>1, <2>2 DEF DriveUpdate, Inv, TypeOK, LiveDriven, Final
  <2>3. ASSUME NEW r \in Runs, PruneDelete(r) PROVE Legal
    BY <1>1, <2>3 DEF PruneDelete, Inv, TypeOK
  <2>4. CASE Reconcile
    BY <1>1, <2>4 DEF Reconcile, Inv, TypeOK, Final
  <2>5. CASE UNCHANGED row
    BY <2>5
  <2> QED
    BY <1>1, <2>1, <2>2, <2>3, <2>4, <2>5
       DEF Next, StartLock, StartStep, StartDrive, DriveStep, DriveSpawn, DriveExited,
           DriveCancelled, DriveRemove, DriveWaitFails, ChildExits, Cancel, PruneRead, Crash
<1>2. Inv /\ [Next]_vars => [Legal]_vars
  BY <1>1
<1>3. [][Legal]_vars => RowLifecycle
  BY PTL DEF RowLifecycle
<1> QED
  BY <1>2, <1>3, Invariance, PTL DEF Spec
=============================================================================
