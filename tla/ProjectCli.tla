------------------------------ MODULE ProjectCli ------------------------------
(***************************************************************************)
(* The project CLI runner of src/services/project_cli.rs: spawn_run        *)
(* records a run and starts its process, a drive task per run records how  *)
(* it ended, cancel_run signals it, and every list request reconciles the  *)
(* rows a restart left behind.                                             *)
(*                                                                         *)
(* The map of live runs is behind an async mutex that spawn_run holds      *)
(* across its database insert.  What holds the mutex for one database      *)
(* call only (reconcile_interrupted_runs, cancel_run, the removal at the   *)
(* end of drive) is one step that needs it free.                           *)
(***************************************************************************)
EXTENDS Naturals, FiniteSets

CONSTANTS
  MaxRuns,      \* bound: how many rows are inserted
  MaxActive,    \* MAX_ACTIVE_RUNS
  MaxKept,      \* MAX_RUNS_KEPT
  MaxCrashes,   \* bound: how often the server dies
  MaxDbFailures \* bound: how many database calls fail

ASSUME ConstantsAssumption ==
  /\ MaxRuns \in Nat /\ MaxActive \in Nat \ {0} /\ MaxKept \in Nat
  /\ MaxCrashes \in Nat /\ MaxDbFailures \in Nat

VARIABLES
  lock,         \* where spawn_run is while it holds the mutex of live_runs
  live,         \* the keys of live_runs
  permit,       \* the stored permit of each run's Notify
  row,          \* the status of each project_cli_runs row
  drive,        \* the drive task of each run: where it is, and its outcome
  child,        \* the process of each run
  prune,        \* the prune_history call of each spawn_run
  cancels,      \* history: live runs a cancel request reached
  lost,         \* history: runs whose insert or final update failed
  orphans,      \* history: runs whose row was running when the server died
  crashes, dbFailures

vars ==
  <<lock, live, permit, row, drive, child, prune, cancels, lost, orphans, crashes, dbFailures>>

\* Row ids, in the order the database hands them out.
Runs == 1..MaxRuns

Outcome == {"success", "failed", "cancelled"}

\* "interrupted" is the failed status with the error text of a restart.
Final == Outcome \cup {"interrupted"}

TypeOK ==
  /\ lock \in {"free", "insert", "admit"}
  /\ live \subseteq Runs
  /\ permit \in [Runs -> BOOLEAN]
  /\ row \in [Runs -> {"none", "running", "pruned"} \cup Final]
  /\ drive \in [Runs -> [pc : {"none", "spawn", "wait", "update", "remove", "ended"},
                         outcome : {"none"} \cup Outcome]]
  /\ child \in [Runs -> {"none", "running", "zero", "nonzero", "killed", "escaped"}]
  /\ prune \in [Runs -> [pc : {"none", "read", "delete", "done"}, cutoff : {0} \cup Runs]]
  /\ cancels \subseteq Runs
  /\ lost \subseteq Runs
  /\ orphans \subseteq Runs
  /\ crashes \in 0..MaxCrashes
  /\ dbFailures \in 0..MaxDbFailures

Init ==
  /\ lock = "free"
  /\ live = {}
  /\ permit = [r \in Runs |-> FALSE]
  /\ row = [r \in Runs |-> "none"]
  /\ drive = [r \in Runs |-> [pc |-> "none", outcome |-> "none"]]
  /\ child = [r \in Runs |-> "none"]
  /\ prune = [r \in Runs |-> [pc |-> "none", cutoff |-> 0]]
  /\ cancels = {}
  /\ lost = {}
  /\ orphans = {}
  /\ crashes = 0
  /\ dbFailures = 0

-----------------------------------------------------------------------------

DbFails == dbFailures < MaxDbFailures /\ dbFailures' = dbFailures + 1

Stored == {r \in Runs : row[r] \notin {"none", "pruned"}}

\* The id the next insert gets: ids are not used twice.
NextId(r) == row[r] = "none" /\ \A q \in Runs : row[q] = "none" => r <= q

LastId(r) == row[r] # "none" /\ \A q \in Runs : row[q] # "none" => q <= r

Goto(r, pc) == drive' = [drive EXCEPT ![r].pc = pc]

Ends(r, outcome, pc) == drive' = [drive EXCEPT ![r] = [pc |-> pc, outcome |-> outcome]]

-----------------------------------------------------------------------------
(* spawn_run *)

\* Mutant: one run too many is let in.
StartLockOneMore ==
  /\ lock = "free"
  /\ Cardinality(live) <= MaxActive
  /\ \E r \in Runs : NextId(r)
  /\ lock' = "insert"
  /\ UNCHANGED <<live, permit, row, drive, child, prune, cancels, lost, orphans, crashes,
                 dbFailures>>

StartLock ==
  /\ lock = "free"
  /\ Cardinality(live) < MaxActive
  /\ \E r \in Runs : NextId(r)
  /\ lock' = "insert"
  /\ UNCHANGED <<live, permit, row, drive, child, prune, cancels, lost, orphans, crashes,
                 dbFailures>>

\* The row is running before the run is live; the mutex stays locked.
StartInsert(r) ==
  /\ lock = "insert" /\ NextId(r)
  /\ row' = [row EXCEPT ![r] = "running"]
  /\ lock' = "admit"
  /\ UNCHANGED <<live, permit, drive, child, prune, cancels, lost, orphans, crashes,
                 dbFailures>>

\* The insert fails, or its answer is lost: then the row is there and nobody drives it.
StartFails(r) ==
  /\ lock = "insert" /\ NextId(r)
  /\ DbFails
  /\ \/ UNCHANGED <<row, lost>>
     \/ row' = [row EXCEPT ![r] = "running"] /\ lost' = lost \cup {r}
  /\ lock' = "free"
  /\ UNCHANGED <<live, permit, drive, child, prune, cancels, orphans, crashes>>

\* The run enters live_runs, the mutex is released and drive is spawned.
StartDrive(r) ==
  /\ lock = "admit" /\ LastId(r)
  /\ live' = live \cup {r}
  /\ lock' = "free"
  /\ Goto(r, "spawn")
  /\ prune' = [prune EXCEPT ![r].pc = "read"]
  /\ UNCHANGED <<permit, row, child, cancels, lost, orphans, crashes, dbFailures>>

-----------------------------------------------------------------------------
(* prune_history, after spawn_run released the mutex *)

\* Mutant: the offset of the cutoff is one too small.
PruneReadOneMore(r) ==
  /\ prune[r].pc = "read"
  /\ \/ /\ Cardinality(Stored) < MaxKept
        /\ prune' = [prune EXCEPT ![r].pc = "done"]
     \/ \E q \in Stored :
          /\ Cardinality({p \in Stored : p > q}) = MaxKept - 1
          /\ prune' = [prune EXCEPT ![r] = [pc |-> "delete", cutoff |-> q]]
  /\ UNCHANGED <<lock, live, permit, row, drive, child, cancels, lost, orphans, crashes,
                 dbFailures>>

\* The newest row that is not among the MaxKept newest, if there is one.
PruneRead(r) ==
  /\ prune[r].pc = "read"
  /\ \/ /\ Cardinality(Stored) <= MaxKept
        /\ prune' = [prune EXCEPT ![r].pc = "done"]
     \/ \E q \in Stored :
          /\ Cardinality({p \in Stored : p > q}) = MaxKept
          /\ prune' = [prune EXCEPT ![r] = [pc |-> "delete", cutoff |-> q]]
  /\ UNCHANGED <<lock, live, permit, row, drive, child, cancels, lost, orphans, crashes,
                 dbFailures>>

PruneDelete(r) ==
  /\ prune[r].pc = "delete"
  /\ row' = [q \in Runs |-> IF q <= prune[r].cutoff /\ row[q] \in Final
                            THEN "pruned" ELSE row[q]]
  /\ prune' = [prune EXCEPT ![r] = [pc |-> "done", cutoff |-> 0]]
  /\ UNCHANGED <<lock, live, permit, drive, child, cancels, lost, orphans, crashes,
                 dbFailures>>

-----------------------------------------------------------------------------
(* drive and execute *)

DriveSpawn(r) ==
  /\ drive[r].pc = "spawn"
  /\ \/ child' = [child EXCEPT ![r] = "running"] /\ Goto(r, "wait")
     \/ Ends(r, "failed", "update") /\ UNCHANGED child
  /\ UNCHANGED <<lock, live, permit, row, prune, cancels, lost, orphans, crashes,
                 dbFailures>>

\* When an escaped process exits, nobody looks.
ChildExits(r) ==
  /\ child[r] = "running"
  /\ \E how \in {"zero", "nonzero"} : child' = [child EXCEPT ![r] = how]
  /\ UNCHANGED <<lock, live, permit, row, drive, prune, cancels, lost, orphans, crashes,
                 dbFailures>>

\* Mutant: the exit is recorded where a status belongs.
DriveExitedRaw(r) ==
  /\ drive[r].pc = "wait" /\ child[r] \in {"zero", "nonzero"}
  /\ Ends(r, child[r], "update")
  /\ UNCHANGED <<lock, live, permit, row, child, prune, cancels, lost, orphans, crashes,
                 dbFailures>>

\* Mutant: the run leaves live_runs before its result is recorded.
DriveExitedAndRemoved(r) ==
  /\ drive[r].pc = "wait" /\ child[r] \in {"zero", "nonzero"}
  /\ live' = live \ {r}
  /\ Ends(r, IF child[r] = "zero" THEN "success" ELSE "failed", "update")
  /\ UNCHANGED <<lock, permit, row, child, prune, cancels, lost, orphans, crashes,
                 dbFailures>>

\* The process exits by itself; its readers end or are aborted after two seconds, and the
\* log writer with them.
DriveExited(r) ==
  /\ drive[r].pc = "wait" /\ child[r] \in {"zero", "nonzero"}
  /\ Ends(r, IF child[r] = "zero" THEN "success" ELSE "failed", "update")
  /\ UNCHANGED <<lock, live, permit, row, child, prune, cancels, lost, orphans, crashes,
                 dbFailures>>

\* The wait itself fails; the child is killed when it is dropped, or escapes.
DriveWaitFails(r) ==
  /\ drive[r].pc = "wait"
  /\ Ends(r, "failed", "update")
  /\ \E left \in {"killed", "escaped"} :
       child' = [child EXCEPT ![r] = IF @ = "running" THEN left ELSE @]
  /\ UNCHANGED <<lock, live, permit, row, prune, cancels, lost, orphans, crashes,
                 dbFailures>>

\* The Notify resolves; terminate_process_tree may fail and the run is cancelled anyway.
DriveCancelled(r) ==
  /\ drive[r].pc = "wait" /\ permit[r]
  /\ permit' = [permit EXCEPT ![r] = FALSE]
  /\ \E left \in {"killed", "escaped"} :
       child' = [child EXCEPT ![r] = IF @ = "running" THEN left ELSE @]
  /\ Ends(r, "cancelled", "update")
  /\ UNCHANGED <<lock, live, row, prune, cancels, lost, orphans, crashes, dbFailures>>

\* Mutant: drive returns when the update fails.
DriveUpdateOrReturn(r) ==
  /\ drive[r].pc = "update"
  /\ \/ /\ row' = [row EXCEPT ![r] = IF @ = "pruned" THEN @ ELSE drive[r].outcome]
        /\ Goto(r, "remove")
        /\ UNCHANGED <<lost, dbFailures>>
     \/ DbFails /\ lost' = lost \cup {r} /\ Goto(r, "ended") /\ UNCHANGED row
  /\ UNCHANGED <<lock, live, permit, child, prune, cancels, orphans, crashes>>

\* An update that fails is logged, and the run leaves live_runs all the same.
DriveUpdate(r) ==
  /\ drive[r].pc = "update"
  /\ \/ /\ row' = [row EXCEPT ![r] = IF @ = "pruned" THEN @ ELSE drive[r].outcome]
        /\ UNCHANGED <<lost, dbFailures>>
     \/ DbFails /\ lost' = lost \cup {r} /\ UNCHANGED row
  /\ Goto(r, "remove")
  /\ UNCHANGED <<lock, live, permit, child, prune, cancels, orphans, crashes>>

\* The run and its Notify go.
DriveRemove(r) ==
  /\ drive[r].pc = "remove" /\ lock = "free"
  /\ live' = live \ {r}
  /\ permit' = [permit EXCEPT ![r] = FALSE]
  /\ Ends(r, "none", "ended")
  /\ cancels' = cancels \ {r}
  /\ UNCHANGED <<lock, row, child, prune, lost, orphans, crashes, dbFailures>>

-----------------------------------------------------------------------------
(* cancel_run and reconcile_interrupted_runs *)

\* Mutant: notify_waiters leaves no permit when nobody waits yet.
CancelWaiters(r) ==
  /\ lock = "free" /\ r \in live
  /\ permit' = [permit EXCEPT ![r] = drive[r].pc = "wait"]
  /\ cancels' = cancels \cup {r}
  /\ UNCHANGED <<lock, live, row, drive, child, prune, lost, orphans, crashes, dbFailures>>

\* notify_one leaves a permit when nobody waits yet.
Cancel(r) ==
  /\ lock = "free" /\ r \in live
  /\ permit' = [permit EXCEPT ![r] = TRUE]
  /\ cancels' = cancels \cup {r}
  /\ UNCHANGED <<lock, live, row, drive, child, prune, lost, orphans, crashes, dbFailures>>

\* Mutant: the mutex is not taken.
ReconcileUnlocked ==
  /\ row' = [r \in Runs |-> IF row[r] = "running" /\ r \notin live
                            THEN "interrupted" ELSE row[r]]
  /\ UNCHANGED <<lock, live, permit, drive, child, prune, cancels, lost, orphans, crashes,
                 dbFailures>>

\* list_runs, run_detail of a running row, and cancel_run of a run that is not live.
Reconcile ==
  /\ lock = "free"
  /\ row' = [r \in Runs |-> IF row[r] = "running" /\ r \notin live
                            THEN "interrupted" ELSE row[r]]
  /\ UNCHANGED <<lock, live, permit, drive, child, prune, cancels, lost, orphans, crashes,
                 dbFailures>>

-----------------------------------------------------------------------------

\* The server dies.  Its children are in process groups of their own and go on.
Crash ==
  /\ crashes < MaxCrashes
  /\ crashes' = crashes + 1
  /\ orphans' = orphans \cup {r \in Runs : row[r] = "running"}
  /\ lock' = "free"
  /\ live' = {}
  /\ permit' = [r \in Runs |-> FALSE]
  /\ drive' = [r \in Runs |-> IF drive[r].pc = "none" THEN drive[r]
                              ELSE [pc |-> "ended", outcome |-> "none"]]
  /\ prune' = [r \in Runs |-> IF prune[r].pc = "none" THEN prune[r]
                              ELSE [pc |-> "done", cutoff |-> 0]]
  /\ cancels' = {}
  /\ UNCHANGED <<row, child, lost, dbFailures>>

StartStep(r) == StartInsert(r) \/ StartFails(r) \/ StartDrive(r)

DriveStep(r) ==
  \/ DriveSpawn(r) \/ DriveExited(r) \/ DriveCancelled(r)
  \/ DriveUpdate(r) \/ DriveRemove(r)

Next ==
  \/ StartLock
  \/ \E r \in Runs : \/ StartStep(r) \/ DriveStep(r) \/ DriveWaitFails(r)
                     \/ ChildExits(r) \/ Cancel(r) \/ PruneRead(r) \/ PruneDelete(r)
  \/ Reconcile
  \/ Crash

Spec == Init /\ [][Next]_vars

\* The handler that holds the mutex and the drive tasks go on; someone lists the runs
\* again and again.  Nothing makes a child exit or its wait fail.
Fairness ==
  /\ WF_vars(\E r \in Runs : StartStep(r))
  /\ \A r \in Runs : WF_vars(DriveStep(r))
  /\ WF_vars(Reconcile)

FairSpec == Spec /\ Fairness

-----------------------------------------------------------------------------
(* Safety *)

\* The record of a run is settled once: it is running until its own drive task or a
\* reconciliation settles it, is never settled again, and is deleted only after that.
\* Reconciliation, drive and prune_history all write the row, and only reconciliation
\* holds the mutex while it does.
RowLifecycle ==
  [][\A r \in Runs : row'[r] # row[r] =>
       \/ row[r] = "none" /\ row'[r] = "running"
       \/ row[r] = "running" /\ row'[r] \in Final
       \/ row[r] \in Final /\ row'[r] = "pruned"]_vars

\* A run is recorded as interrupted by a restart only if the server did die while its row
\* was running, or a database call that stores the run failed: a list request never hits
\* a run that is just starting or just finishing.
InterruptedExplained ==
  \A r \in Runs : row[r] = "interrupted" => r \in orphans \cup lost

OwnProcesses == {r \in Runs : child[r] = "running" /\ r \notin orphans}

\* The server never runs more than MaxActive processes at once; those an earlier server
\* left behind, and those that could not be killed, are not counted.
ProcessesBounded == Cardinality(OwnProcesses) <= MaxActive

InsertedAfter(r) == {q \in Runs : q > r /\ row[q] # "none"}

\* prune_history deletes a record only when MaxKept newer ones have been inserted, also
\* when other runs are inserted and deleted between its two database calls.
PrunedAreOld ==
  \A r \in Runs : row[r] = "pruned" => Cardinality(InsertedAfter(r)) >= MaxKept

-----------------------------------------------------------------------------
(* Liveness *)

\* A cancel request that finds the run live frees its slot, even when it comes before
\* drive waits for it, the kill fails, or the process would never exit.
CancelFreesSlot ==
  \A r \in Runs : r \in cancels ~> r \notin live

\* A run whose process is done, whose server died or whose result could not be stored
\* does not stay running in the history.
RowsSettle ==
  \A r \in Runs :
    drive[r].pc \in {"update", "remove", "ended"} \/ r \in orphans \cup lost
      ~> row[r] # "running"
=============================================================================
