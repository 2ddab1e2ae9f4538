---------------------------- MODULE CommandRunner ----------------------------
(***************************************************************************)
(* The command runner of src/services/command_runner.rs: a background task *)
(* per command run, the HTTP handlers that cancel runs, and the sweep      *)
(* (mark_stale_runs_failed) every list request performs first.             *)
(*                                                                         *)
(* What the three share is the command_runs table (row), the map of cancel *)
(* senders RUN_CANCELLERS (cancellers) and the set RUN_CANCELLED           *)
(* (cancelled).  A step is one database call or one critical section of a  *)
(* mutex: everything else can run between two of them, on another thread   *)
(* of the async runtime or at an await.                                    *)
(***************************************************************************)
EXTENDS Naturals

CONSTANTS
  Runs,         \* ids of command_runs rows
  Callers,      \* calls of cancel_run
  Sweepers,     \* clients whose list requests call mark_stale_runs_failed
  MaxRetries,   \* RetryPolicy.max_retries
  MaxCrashes,   \* bound: how often the backend process dies
  KillMayFail,  \* may terminate_process_tree fail?
  WaitMayFail,  \* may the wait for a shell fail?
  DbMayFail     \* may a database call of the task or of a sweep fail?

ASSUME ConstantsAssumption ==
  /\ MaxRetries \in Nat \ {0}
  /\ MaxCrashes \in Nat
  /\ KillMayFail \in BOOLEAN
  /\ WaitMayFail \in BOOLEAN
  /\ DbMayFail \in BOOLEAN

VARIABLES
  row,          \* the persisted command_runs row of each run
  cancellers,   \* RUN_CANCELLERS: the runs whose cancel sender is in the map
  cancelled,    \* RUN_CANCELLED
  chan,         \* the oneshot channel that carries the CancelRequest
  task,         \* start_command_run and the run_command_task it spawns
  proc,         \* the process group of the run
  call,         \* the calls of cancel_run
  sweep,        \* the call of mark_stale_runs_failed each of them has in progress
  orphans,      \* history: runs that were unfinished when the backend died
  crashes       \* history: how often the backend died

vars == <<row, cancellers, cancelled, chan, task, proc, call, sweep, orphans, crashes>>

-----------------------------------------------------------------------------
(* Values *)

Active == {"queued", "running"}
Terminal == {"success", "failed", "cancelled"}

\* CommandWaitResult: zero, nonzero and signal are Exited(Some(0)), Exited(Some(code))
\* and Exited(None); error is an Err of execute_with_retries.
Outcome == {"none", "zero", "nonzero", "signal", "timeout", "cancelled", "error"}

\* The four places that call take_pending_cancel, in the order the task meets them.
Checkpoint == {"admit", "top", "armed", "after"}

\* finish_run_with_status, from its entry to the end of the task.
Finishing == {"finish", "judge", "write", "drop", "clear", "ended"}

TaskPc == {"none", "inserted", "start", "record", "spawn", "wait", "delay", "fail"}
            \cup Checkpoint \cup Finishing
CallPc == {"idle", "mark", "take", "send", "await", "update", "recheck", "giveup",
           "poll", "done"}
SweepPc == {"idle", "next", "read", "judge", "write", "drop", "clear"}

\* Who sent the request on a channel; nobody, until it is sent.
Nobody == "nobody"

Status == {"none"} \cup Active \cup Terminal

RowType == row \in [Runs -> [status : Status, attempts : Nat]]

ChanType ==
  chan \in [Runs -> [state : {"none", "open", "sent", "taken", "closed", "spent"},
                     by : Callers \cup {Nobody}]]

TaskType ==
  task \in [Runs -> [pc : TaskPc, retry : BOOLEAN, timed : BOOLEAN, parked : BOOLEAN,
                     attempt : Nat, result : Outcome, verdict : {"none"} \cup Terminal]]

\* running: the shell lives; lingering: it is gone, and members of its group hold pipes that
\* are still read; background: the readers are done, and members of the group are left.
ProcType ==
  proc \in [Runs -> [state : {"none", "running", "lingering", "background", "gone"},
                     exit : {"none", "zero", "nonzero", "signal", "killed"},
                     spawned : Nat]]

CallType ==
  call \in [Callers -> [pc : CallPc, run : Runs, queued : BOOLEAN, took : BOOLEAN,
                        ack : {"none", "pending", "ok", "err", "dropped"}]]

SweepType ==
  sweep \in [Sweepers -> [pc : SweepPc, todo : SUBSET Runs, run : Runs,
                          verdict : {"none"} \cup Terminal]]

TypeOK ==
  /\ RowType /\ ChanType /\ TaskType /\ ProcType /\ CallType /\ SweepType
  /\ cancellers \subseteq Runs
  /\ cancelled \subseteq Runs
  /\ orphans \subseteq Runs
  /\ crashes \in Nat

Init ==
  /\ row = [r \in Runs |-> [status |-> "none", attempts |-> 0]]
  /\ cancellers = {}
  /\ cancelled = {}
  /\ chan = [r \in Runs |-> [state |-> "none", by |-> Nobody]]
  /\ task = [r \in Runs |-> [pc |-> "none", retry |-> FALSE, timed |-> FALSE,
                             parked |-> FALSE, attempt |-> 1, result |-> "none",
                             verdict |-> "none"]]
  /\ proc = [r \in Runs |-> [state |-> "none", exit |-> "none", spawned |-> 0]]
  /\ call \in [Callers -> [pc : {"idle"}, run : Runs, queued : {FALSE}, took : {FALSE},
                           ack : {"none"}]]
  /\ sweep \in [Sweepers -> [pc : {"idle"}, todo : {{}}, run : Runs, verdict : {"none"}]]
  /\ orphans = {}
  /\ crashes = 0

-----------------------------------------------------------------------------
(* Pieces of the handlers *)

\* The process group has members.
GroupAlive(r) == proc[r].state \in {"running", "lingering", "background"}

\* The script is not over: its shell lives, or its output is still being read.
ScriptOpen(r) == proc[r].state \in {"running", "lingering"}

\* Mutant: counts one retry too many.
ShouldRetryOnceMore(r, outcome, attempt) ==
  task[r].retry /\ attempt <= MaxRetries + 1 /\ outcome \in {"nonzero", "signal"}

\* Mutant: every attempt that did not succeed is retried, a timed-out one too.
ShouldRetryTimeouts(r, outcome, attempt) ==
  task[r].retry /\ attempt <= MaxRetries /\ outcome \notin {"zero", "cancelled"}

ShouldRetry(r, outcome, attempt) ==
  task[r].retry /\ attempt <= MaxRetries /\ outcome \in {"nonzero", "signal"}

\* take_pending_cancel returns true: a request is in the channel, or the channel can
\* no longer deliver one and the flag is set or the task was already waiting for it.
CancelSeen(r) ==
  \/ chan[r].state = "sent"
  \/ chan[r].state \in {"closed", "taken", "spent"} /\ (r \in cancelled \/ task[r].parked)

\* take_pending_cancel finds the channel empty and the flag set, and awaits the request.
CancelAwaited(r) == chan[r].state = "open" /\ r \in cancelled /\ ~task[r].parked

\* Mutant: only the channel is looked at, not RUN_CANCELLED.
NotInChannel(r) == chan[r].state # "sent" /\ ~task[r].parked

\* take_pending_cancel returns false.
CancelNotSeen(r) == chan[r].state # "sent" /\ r \notin cancelled /\ ~task[r].parked

\* The receiver takes the request out of the channel and answers its completion sender.
Answer(r, answer) ==
  /\ chan' = [chan EXCEPT ![r].state = IF @ = "sent" THEN "taken" ELSE @]
  /\ call' = IF chan[r].state = "sent"
             THEN [call EXCEPT ![chan[r].by].ack = answer] ELSE call

\* run_command_task returns: its receiver goes, and an unread request with it.
TaskEnds(r) ==
  /\ task' = [task EXCEPT ![r].pc = "ended", ![r].parked = FALSE]
  /\ Answer(r, "dropped")

\* The sender leaves the map unsent, which closes the channel.
DropCanceller(r) ==
  /\ cancellers' = cancellers \ {r}
  /\ chan' = [chan EXCEPT ![r].state =
                IF @ = "open" /\ r \in cancellers THEN "closed" ELSE @]

\* Mutant: kills the shell instead of its process group.
KillShellOnly(r, ok) ==
  IF ok THEN proc' = [proc EXCEPT ![r].state = IF @ = "running" THEN "lingering" ELSE @,
                                  ![r].exit = IF @ = "none" THEN "killed" ELSE @]
        ELSE KillMayFail /\ GroupAlive(r) /\ UNCHANGED proc

TerminateProcessTree(r, ok) ==
  IF ok THEN proc' = [proc EXCEPT ![r].state = "gone",
                                  ![r].exit = IF @ = "none" THEN "killed" ELSE @]
        ELSE KillMayFail /\ GroupAlive(r) /\ UNCHANGED proc

\* What finish_run_with_status keeps of the row it found.
FoundStatus(r) == IF row[r].status = "cancelled" THEN "cancelled" ELSE "none"

\* The status finish_run_with_status writes for what it found and the caller asked for.
FinishVerdict(r, found, asked) ==
  IF r \in cancelled \/ found = "cancelled" THEN "cancelled" ELSE asked

\* Mutant: writes the name of the wait result where a status belongs.
AskedRawStatus(outcome) == IF outcome = "zero" THEN "success" ELSE outcome

AskedStatus(outcome) ==
  CASE outcome = "zero" -> "success"
    [] outcome = "cancelled" -> "cancelled"
    [] OTHER -> "failed"

-----------------------------------------------------------------------------
(* start_command_run: the row is visible before its canceller is registered.  The  *)
(* request says whether failures are retried and whether there is a timeout.       *)

StartInsert(r) ==
  /\ task[r].pc = "none"
  /\ row' = [row EXCEPT ![r].status = "queued"]
  /\ \E retry, timed \in BOOLEAN :
       task' = [task EXCEPT ![r].pc = "inserted", ![r].retry = retry, ![r].timed = timed]
  /\ UNCHANGED <<cancellers, cancelled, chan, proc, call, sweep, orphans, crashes>>

StartRegister(r) ==
  /\ task[r].pc = "inserted"
  /\ cancellers' = cancellers \cup {r}
  /\ chan' = [chan EXCEPT ![r].state = "open"]
  /\ task' = [task EXCEPT ![r].pc = "admit"]
  /\ UNCHANGED <<row, cancelled, proc, call, sweep, orphans, crashes>>

-----------------------------------------------------------------------------
(* run_command_task *)

\* take_pending_cancel has to wait for the request that goes with the flag.
CheckWaits(r) ==
  /\ task[r].pc \in Checkpoint
  /\ CancelAwaited(r)
  /\ task' = [task EXCEPT ![r].parked = TRUE]
  /\ UNCHANGED <<row, cancellers, cancelled, chan, proc, call, sweep, orphans, crashes>>

\* take_pending_cancel is true at any of its four places: the run ends cancelled.
CheckCancels(r) ==
  /\ task[r].pc \in Checkpoint
  /\ CancelSeen(r)
  /\ task' = [task EXCEPT ![r].pc = "finish", ![r].parked = FALSE,
                          ![r].result = "cancelled"]
  /\ Answer(r, "ok")
  /\ UNCHANGED <<row, cancellers, cancelled, proc, sweep, orphans, crashes>>

\* Where the task goes when take_pending_cancel is false.
PassedCheck(r) ==
  CASE task[r].pc = "admit" -> "start"
    [] task[r].pc = "top"   -> "record"
    [] task[r].pc = "armed" -> "spawn"
    [] task[r].pc = "after" ->
         IF ShouldRetry(r, task[r].result, task[r].attempt) THEN "delay"
         ELSE IF task[r].result = "error" THEN "fail" ELSE "finish"

\* A try_recv that finds the channel closed uses the receiver up.
CheckPasses(r) ==
  /\ task[r].pc \in Checkpoint
  /\ CancelNotSeen(r)
  /\ task' = [task EXCEPT ![r].pc = PassedCheck(r)]
  /\ chan' = [chan EXCEPT ![r].state = IF @ = "closed" THEN "spent" ELSE @]
  /\ UNCHANGED <<row, cancellers, cancelled, proc, call, sweep, orphans, crashes>>

\* mark_running; when it fails the task returns and leaves the row queued.
MarkRunning(r) ==
  /\ task[r].pc = "start"
  /\ \/ /\ row' = [row EXCEPT ![r].status = "running"]
        /\ task' = [task EXCEPT ![r].pc = "top"]
        /\ UNCHANGED <<chan, call>>
     \/ DbMayFail /\ TaskEnds(r) /\ UNCHANGED row
  /\ UNCHANGED <<cancellers, cancelled, proc, sweep, orphans, crashes>>

RecordAttempt(r) ==
  /\ task[r].pc = "record"
  /\ \/ /\ row' = [row EXCEPT ![r].attempts = task[r].attempt]
        /\ task' = [task EXCEPT ![r].pc = "armed"]
     \/ /\ DbMayFail
        /\ task' = [task EXCEPT ![r].pc = "fail", ![r].result = "error"]
        /\ UNCHANGED row
  /\ UNCHANGED <<cancellers, cancelled, chan, proc, call, sweep, orphans, crashes>>

SpawnChild(r) ==
  /\ task[r].pc = "spawn"
  /\ proc' = [proc EXCEPT ![r] = [state |-> "running", exit |-> "none",
                                  spawned |-> @.spawned + 1]]
  /\ task' = [task EXCEPT ![r].pc = "wait"]
  /\ UNCHANGED <<row, cancellers, cancelled, chan, call, sweep, orphans, crashes>>

SpawnFails(r) ==
  /\ task[r].pc = "spawn"
  /\ task' = [task EXCEPT ![r].pc = "after", ![r].result = "error"]
  /\ UNCHANGED <<row, cancellers, cancelled, chan, proc, call, sweep, orphans, crashes>>

\* Mutant: does not wait for the output pipes.
WaitSucceedsUndrained(r) ==
  /\ task[r].pc = "wait"
  /\ proc[r].exit = "zero"
  /\ task' = [task EXCEPT ![r].pc = "after", ![r].result = "zero"]
  /\ UNCHANGED <<row, cancellers, cancelled, chan, proc, call, sweep, orphans, crashes>>

\* wait_for_child, the shell exits with success and both readers are done.  Nothing is killed:
\* members of the group that do not hold its pipes live on.
WaitSucceeds(r) ==
  /\ task[r].pc = "wait"
  /\ proc[r].exit = "zero" /\ ~ScriptOpen(r)
  /\ task' = [task EXCEPT ![r].pc = "after", ![r].result = "zero"]
  /\ UNCHANGED <<row, cancellers, cancelled, chan, proc, call, sweep, orphans, crashes>>

\* wait_for_child, the shell exits without success: what is left of its group is killed.
WaitFails(r) ==
  /\ task[r].pc = "wait"
  /\ proc[r].exit \in {"nonzero", "signal"}
  /\ \E ok \in BOOLEAN :
       /\ TerminateProcessTree(r, ok)
       /\ task' = [task EXCEPT ![r].pc = "after",
                     ![r].result = IF ok THEN proc[r].exit ELSE "error"]
  /\ UNCHANGED <<row, cancellers, cancelled, chan, call, sweep, orphans, crashes>>

\* Mutant: the timeout covers the shell's exit but not the draining of its pipes.
WaitTimesOutBeforeExit(r) ==
  /\ task[r].pc = "wait"
  /\ task[r].timed /\ proc[r].state = "running"
  /\ \E ok \in BOOLEAN :
       /\ TerminateProcessTree(r, ok)
       /\ task' = [task EXCEPT ![r].pc = "after",
                               ![r].result = IF ok THEN "timeout" ELSE "error"]
  /\ UNCHANGED <<row, cancellers, cancelled, chan, call, sweep, orphans, crashes>>

\* wait_for_child, the wait itself fails: an error, and the group is not killed (its shell is
\* when the child is dropped, which ShellExits allows).
WaitBreaks(r) ==
  /\ task[r].pc = "wait"
  /\ WaitMayFail
  /\ task' = [task EXCEPT ![r].pc = "after", ![r].result = "error"]
  /\ UNCHANGED <<row, cancellers, cancelled, chan, proc, call, sweep, orphans, crashes>>

WaitTimesOut(r) ==
  /\ task[r].pc = "wait"
  /\ task[r].timed /\ chan[r].state # "spent"
  /\ \E ok \in BOOLEAN :
       /\ TerminateProcessTree(r, ok)
       /\ task' = [task EXCEPT ![r].pc = "after",
                               ![r].result = IF ok THEN "timeout" ELSE "error"]
  /\ UNCHANGED <<row, cancellers, cancelled, chan, call, sweep, orphans, crashes>>

\* Mutant: a cancel is not listened for while the pipes are drained.
WaitCancelledBeforeExit(r) ==
  /\ task[r].pc = "wait"
  /\ chan[r].state \in {"sent", "closed"} /\ proc[r].state = "running"
  /\ \E ok \in BOOLEAN :
       /\ TerminateProcessTree(r, ok)
       /\ Answer(r, IF ok THEN "ok" ELSE "err")
       /\ task' = IF ok THEN [task EXCEPT ![r].pc = "finish", ![r].result = "cancelled"]
                        ELSE [task EXCEPT ![r].pc = "after", ![r].result = "error"]
  /\ UNCHANGED <<row, cancellers, cancelled, sweep, orphans, crashes>>

\* wait_for_child, the cancel receiver resolves: with a request, or because its
\* sender was dropped.  The group is killed first, then the requester is answered.
WaitCancelled(r) ==
  /\ task[r].pc = "wait"
  /\ chan[r].state \in {"sent", "closed"}
  /\ \E ok \in BOOLEAN :
       /\ TerminateProcessTree(r, ok)
       /\ Answer(r, IF ok THEN "ok" ELSE "err")
       /\ task' = IF ok THEN [task EXCEPT ![r].pc = "finish", ![r].result = "cancelled"]
                        ELSE [task EXCEPT ![r].pc = "after", ![r].result = "error"]
  /\ UNCHANGED <<row, cancellers, cancelled, sweep, orphans, crashes>>

\* The retry delay ends by the timer, or by the cancel receiver.
DelayEnds(r) ==
  /\ task[r].pc = "delay" /\ chan[r].state # "spent"
  /\ task' = [task EXCEPT ![r].pc = "top", ![r].attempt = @ + 1]
  /\ UNCHANGED <<row, cancellers, cancelled, chan, proc, call, sweep, orphans, crashes>>

\* Mutant: a cancel only cuts the delay short.
DelayCutShort(r) ==
  /\ task[r].pc = "delay"
  /\ chan[r].state \in {"sent", "closed"}
  /\ Answer(r, "ok")
  /\ task' = [task EXCEPT ![r].pc = "spawn", ![r].attempt = @ + 1]
  /\ UNCHANGED <<row, cancellers, cancelled, proc, sweep, orphans, crashes>>

DelayCancelled(r) ==
  /\ task[r].pc = "delay"
  /\ chan[r].state \in {"sent", "closed"}
  /\ Answer(r, "ok")
  /\ task' = [task EXCEPT ![r].pc = "finish", ![r].result = "cancelled"]
  /\ UNCHANGED <<row, cancellers, cancelled, proc, sweep, orphans, crashes>>

\* The selects of the wait and of the delay poll the receiver, and polling one that is used up
\* panics: the task is gone without a trace in row or registries (its shell is killed when
\* the child is dropped, which ShellExits allows).
SelectPanics(r) ==
  /\ task[r].pc \in {"wait", "delay"}
  /\ chan[r].state = "spent"
  /\ TaskEnds(r)
  /\ UNCHANGED <<row, cancellers, cancelled, proc, sweep, orphans, crashes>>

\* finish_command_result of an Err clears the flag before it finishes the run.
ClearBeforeFail(r) ==
  /\ task[r].pc = "fail"
  /\ cancelled' = cancelled \ {r}
  /\ task' = [task EXCEPT ![r].pc = "finish"]
  /\ UNCHANGED <<row, cancellers, chan, proc, call, sweep, orphans, crashes>>

\* finish_run_with_status reads the row, then the flag ...
FinishRead(r) ==
  /\ task[r].pc = "finish"
  /\ \/ /\ task' = [task EXCEPT ![r].pc = "judge", ![r].verdict = FoundStatus(r)]
        /\ UNCHANGED <<chan, call>>
     \/ DbMayFail /\ TaskEnds(r)
  /\ UNCHANGED <<row, cancellers, cancelled, proc, sweep, orphans, crashes>>

FinishJudge(r) ==
  /\ task[r].pc = "judge"
  /\ task' = [task EXCEPT ![r].pc = "write",
                ![r].verdict = FinishVerdict(r, task[r].verdict, AskedStatus(task[r].result))]
  /\ UNCHANGED <<row, cancellers, cancelled, chan, proc, call, sweep, orphans, crashes>>

\* ... and finish_run writes the status; if it cannot, nothing is cleaned up.
FinishWrite(r) ==
  /\ task[r].pc = "write"
  /\ \/ /\ row' = [row EXCEPT ![r].status = task[r].verdict]
        /\ task' = [task EXCEPT ![r].pc = "drop"]
        /\ UNCHANGED <<chan, call>>
     \/ DbMayFail /\ TaskEnds(r) /\ UNCHANGED row
  /\ UNCHANGED <<cancellers, cancelled, proc, sweep, orphans, crashes>>

FinishDrop(r) ==
  /\ task[r].pc = "drop"
  /\ DropCanceller(r)
  /\ task' = [task EXCEPT ![r].pc = "clear"]
  /\ UNCHANGED <<row, cancelled, proc, call, sweep, orphans, crashes>>

\* Mutant: the flag is not cleared.
FinishKeepsFlag(r) ==
  /\ task[r].pc = "clear"
  /\ TaskEnds(r)
  /\ UNCHANGED <<row, cancellers, cancelled, proc, sweep, orphans, crashes>>

FinishClear(r) ==
  /\ task[r].pc = "clear"
  /\ cancelled' = cancelled \ {r}
  /\ TaskEnds(r)
  /\ UNCHANGED <<row, cancellers, proc, sweep, orphans, crashes>>

-----------------------------------------------------------------------------
(* The process group, outside the backend *)

\* The shell exits.  What is left of its group may hold the output pipes or have redirected
\* its output; a reader that stopped at an error before leaves nothing to be drained either.
ShellExits(r) ==
  /\ proc[r].state = "running"
  /\ \E how \in {"zero", "nonzero", "signal"}, left \in {"lingering", "background", "gone"} :
       proc' = [proc EXCEPT ![r].exit = how, ![r].state = left]
  /\ UNCHANGED <<row, cancellers, cancelled, chan, task, call, sweep, orphans, crashes>>

\* The pipes are closed, or read_stream stops at a read error or a line it cannot log.
PipesClose(r) ==
  /\ proc[r].state = "lingering"
  /\ \E left \in {"background", "gone"} : proc' = [proc EXCEPT ![r].state = left]
  /\ UNCHANGED <<row, cancellers, cancelled, chan, task, call, sweep, orphans, crashes>>

BackgroundEnds(r) ==
  /\ proc[r].state = "background"
  /\ proc' = [proc EXCEPT ![r].state = "gone"]
  /\ UNCHANGED <<row, cancellers, cancelled, chan, task, call, sweep, orphans, crashes>>

-----------------------------------------------------------------------------
(* cancel_run *)

CancelFind(c) ==
  LET r == call[c].run IN
  /\ call[c].pc = "idle"
  /\ row[r].status # "none"
  /\ call' = [call EXCEPT ![c].pc = IF row[r].status \in Active THEN "mark" ELSE "done"]
  /\ UNCHANGED <<row, cancellers, cancelled, chan, task, proc, sweep, orphans, crashes>>

\* mark_cancelled: the second caller to mark a run only waits for the first.
CancelMark(c) ==
  LET r == call[c].run IN
  /\ call[c].pc = "mark"
  /\ cancelled' = cancelled \cup {r}
  /\ call' = [call EXCEPT ![c].pc = IF r \in cancelled THEN "poll" ELSE "take",
                          ![c].queued = r \notin cancelled /\ row[r].status = "queued"]
  /\ UNCHANGED <<row, cancellers, chan, task, proc, sweep, orphans, crashes>>

CancelTake(c) ==
  LET r == call[c].run IN
  /\ call[c].pc = "take"
  /\ cancellers' = cancellers \ {r}
  /\ call' = [call EXCEPT ![c].pc = IF r \in cancellers THEN "send" ELSE "giveup",
                          ![c].took = r \in cancellers]
  /\ UNCHANGED <<row, cancelled, chan, task, proc, sweep, orphans, crashes>>

\* The send fails when the task has returned; then the flag is cleared and the row polled.
CancelSend(c) ==
  LET r == call[c].run IN
  /\ call[c].pc = "send"
  /\ IF task[r].pc # "ended"
     THEN /\ chan' = [chan EXCEPT ![r] = [state |-> "sent", by |-> c]]
          /\ call' = [call EXCEPT ![c].pc = "await", ![c].ack = "pending"]
          /\ UNCHANGED cancelled
     ELSE /\ call' = [call EXCEPT ![c].pc = "poll"]
          /\ cancelled' = cancelled \ {r}
          /\ UNCHANGED chan
  /\ UNCHANGED <<row, cancellers, task, proc, sweep, orphans, crashes>>

\* No canceller is registered: the flag is cleared again and the call answers without
\* having cancelled anything.
CancelGivesUp(c) ==
  /\ call[c].pc = "giveup"
  /\ cancelled' = cancelled \ {call[c].run}
  /\ call' = [call EXCEPT ![c].pc = "done"]
  /\ UNCHANGED <<row, cancellers, chan, task, proc, sweep, orphans, crashes>>

\* The completion arrives: confirmed, refused, or dropped by a task that returned.
CancelConfirmed(c) ==
  /\ call[c].pc = "await" /\ call[c].ack = "ok"
  /\ call' = [call EXCEPT ![c].pc = "update"]
  /\ UNCHANGED <<row, cancellers, cancelled, chan, task, proc, sweep, orphans, crashes>>

CancelRefused(c) ==
  /\ call[c].pc = "await" /\ call[c].ack = "err"
  /\ cancelled' = cancelled \ {call[c].run}
  /\ call' = [call EXCEPT ![c].pc = "done"]
  /\ UNCHANGED <<row, cancellers, chan, task, proc, sweep, orphans, crashes>>

CancelDropped(c) ==
  /\ call[c].pc = "await" /\ call[c].ack = "dropped"
  /\ call' = [call EXCEPT ![c].pc = "recheck"]
  /\ UNCHANGED <<row, cancellers, cancelled, chan, task, proc, sweep, orphans, crashes>>

\* The dropped completion of a run that is not finished leaves the flag set, and so does a
\* read that fails or whose client hung up.
CancelRecheck(c) ==
  LET r == call[c].run IN
  /\ call[c].pc = "recheck"
  /\ \/ row[r].status \notin Active /\ cancelled' = cancelled \ {r}
     \/ UNCHANGED cancelled
  /\ call' = [call EXCEPT ![c].pc = "done"]
  /\ UNCHANGED <<row, cancellers, chan, task, proc, sweep, orphans, crashes>>

\* Five seconds pass, or the client hangs up: the flag and the request stay.
CancelTimesOut(c) ==
  /\ call[c].pc = "await" /\ call[c].ack = "pending"
  /\ call' = [call EXCEPT ![c].pc = "done"]
  /\ UNCHANGED <<row, cancellers, cancelled, chan, task, proc, sweep, orphans, crashes>>

\* The update writes the status over whatever the row holds by then, unless it fails or its
\* client hung up.
CancelUpdate(c) ==
  LET r == call[c].run IN
  /\ call[c].pc = "update"
  /\ \/ row' = [row EXCEPT ![r].status = "cancelled"]
     \/ UNCHANGED row
  /\ call' = [call EXCEPT ![c].pc = "done"]
  /\ UNCHANGED <<cancellers, cancelled, chan, task, proc, sweep, orphans, crashes>>

\* wait_for_cancel_completion sees a finished row, or its five seconds pass.
CancelPollEnds(c) ==
  /\ call[c].pc = "poll"
  /\ call' = [call EXCEPT ![c].pc = "done"]
  /\ UNCHANGED <<row, cancellers, cancelled, chan, task, proc, sweep, orphans, crashes>>

-----------------------------------------------------------------------------
(* mark_stale_runs_failed *)

\* Mutant: queued runs are not looked at.
SweepListRunning(s) ==
  /\ sweep[s].pc = "idle"
  /\ sweep' = [sweep EXCEPT ![s].pc = "next",
                            ![s].todo = {r \in Runs : row[r].status = "running"}]
  /\ UNCHANGED <<row, cancellers, cancelled, chan, task, proc, call, orphans, crashes>>

SweepList(s) ==
  /\ sweep[s].pc = "idle"
  /\ sweep' = [sweep EXCEPT ![s].pc = "next",
                            ![s].todo = {r \in Runs : row[r].status \in Active}]
  /\ UNCHANGED <<row, cancellers, cancelled, chan, task, proc, call, orphans, crashes>>

LooksStale(r) == r \notin cancellers /\ r \notin cancelled

SweepNext(s, r) ==
  /\ sweep[s].pc = "next" /\ r \in sweep[s].todo
  /\ sweep' = [sweep EXCEPT ![s].pc = IF LooksStale(r) THEN "read" ELSE "next",
                            ![s].todo = @ \ {r}, ![s].run = r]
  /\ UNCHANGED <<row, cancellers, cancelled, chan, task, proc, call, orphans, crashes>>

SweepEnds(s) ==
  /\ sweep[s].pc = "next" /\ sweep[s].todo = {}
  /\ sweep' = [sweep EXCEPT ![s].pc = "idle", ![s].verdict = "none"]
  /\ UNCHANGED <<row, cancellers, cancelled, chan, task, proc, call, orphans, crashes>>

\* finish_run_with_status(Failed) for a run found stale; its errors are ignored.
SweepRead(s) ==
  /\ sweep[s].pc = "read"
  /\ \/ sweep' = [sweep EXCEPT ![s].pc = "judge", ![s].verdict = FoundStatus(sweep[s].run)]
     \/ DbMayFail /\ sweep' = [sweep EXCEPT ![s].pc = "next"]
  /\ UNCHANGED <<row, cancellers, cancelled, chan, task, proc, call, orphans, crashes>>

SweepJudge(s) ==
  /\ sweep[s].pc = "judge"
  /\ sweep' = [sweep EXCEPT ![s].pc = "write",
                 ![s].verdict = FinishVerdict(sweep[s].run, sweep[s].verdict, "failed")]
  /\ UNCHANGED <<row, cancellers, cancelled, chan, task, proc, call, orphans, crashes>>

SweepWrite(s) ==
  /\ sweep[s].pc = "write"
  /\ \/ /\ row' = [row EXCEPT ![sweep[s].run].status = sweep[s].verdict]
        /\ sweep' = [sweep EXCEPT ![s].pc = "drop"]
     \/ DbMayFail /\ sweep' = [sweep EXCEPT ![s].pc = "next"] /\ UNCHANGED row
  /\ UNCHANGED <<cancellers, cancelled, chan, task, proc, call, orphans, crashes>>

SweepDrop(s) ==
  /\ sweep[s].pc = "drop"
  /\ DropCanceller(sweep[s].run)
  /\ sweep' = [sweep EXCEPT ![s].pc = "clear"]
  /\ UNCHANGED <<row, cancelled, task, proc, call, orphans, crashes>>

SweepClear(s) ==
  /\ sweep[s].pc = "clear"
  /\ cancelled' = cancelled \ {sweep[s].run}
  /\ sweep' = [sweep EXCEPT ![s].pc = "next"]
  /\ UNCHANGED <<row, cancellers, chan, task, proc, call, orphans, crashes>>

-----------------------------------------------------------------------------
(* The backend process dies: its registries, tasks and handlers are gone, the rows *)
(* and the process groups stay.                                                     *)

Crash ==
  /\ crashes < MaxCrashes
  /\ crashes' = crashes + 1
  /\ orphans' = orphans \cup {r \in Runs : row[r].status \in Active}
  /\ cancellers' = {}
  /\ cancelled' = {}
  /\ chan' = [r \in Runs |-> [state |-> "none", by |-> Nobody]]
  /\ task' = [r \in Runs |-> IF task[r].pc = "none" THEN task[r]
                             ELSE [task[r] EXCEPT !.pc = "ended", !.parked = FALSE]]
  /\ call' = [c \in Callers |-> IF call[c].pc = "idle" THEN call[c]
                                ELSE [call[c] EXCEPT !.pc = "done"]]
  /\ sweep' = [s \in Sweepers |-> [sweep[s] EXCEPT !.pc = "idle", !.todo = {},
                                                  !.verdict = "none"]]
  /\ UNCHANGED <<row, proc>>

-----------------------------------------------------------------------------

TaskStep(r) ==
  \/ CheckWaits(r) \/ CheckCancels(r) \/ CheckPasses(r)
  \/ MarkRunning(r) \/ RecordAttempt(r) \/ SpawnChild(r) \/ SpawnFails(r)
  \/ WaitSucceeds(r) \/ WaitFails(r) \/ WaitTimesOut(r) \/ WaitCancelled(r)
  \/ DelayEnds(r) \/ DelayCancelled(r) \/ SelectPanics(r) \/ ClearBeforeFail(r)
  \/ FinishRead(r) \/ FinishJudge(r) \/ FinishWrite(r) \/ FinishDrop(r) \/ FinishClear(r)

CancelStep(c) ==
  \/ CancelFind(c) \/ CancelMark(c) \/ CancelTake(c) \/ CancelSend(c)
  \/ CancelGivesUp(c) \/ CancelConfirmed(c) \/ CancelRefused(c) \/ CancelDropped(c)
  \/ CancelRecheck(c) \/ CancelTimesOut(c) \/ CancelUpdate(c) \/ CancelPollEnds(c)

SweepStep(s) ==
  \/ SweepList(s) \/ (\E r \in Runs : SweepNext(s, r)) \/ SweepEnds(s)
  \/ SweepRead(s) \/ SweepJudge(s) \/ SweepWrite(s) \/ SweepDrop(s) \/ SweepClear(s)

Next ==
  \/ \E r \in Runs : StartInsert(r) \/ StartRegister(r) \/ TaskStep(r)
                     \/ WaitBreaks(r) \/ ShellExits(r) \/ PipesClose(r) \/ BackgroundEnds(r)
  \/ \E c \in Callers : CancelStep(c)
  \/ \E s \in Sweepers : SweepStep(s)
  \/ Crash

Spec == Init /\ [][Next]_vars

\* What the async runtime guarantees: a task or a handler that can go on does.  Nothing
\* makes a shell exit; a run with a timeout is ended by WaitTimesOut.  The clients in
\* Sweepers keep listing runs, as the pages of the frontend do.
Fairness ==
  /\ \A r \in Runs : WF_vars(TaskStep(r))
  /\ \A c \in Callers :
       WF_vars(call[c].pc # "idle" /\ CancelStep(c))
  /\ \A s \in Sweepers : WF_vars(SweepStep(s))

FairSpec == Spec /\ Fairness

-----------------------------------------------------------------------------
(* Properties that survive sweeps, crashes and failing database and kill calls *)

\* A run starts its script once, and at most MaxRetries times more if the request
\* enabled retries (RetryPolicy::should_retry counts from the first attempt).
AttemptsBounded ==
  \A r \in Runs : proc[r].spawned <= IF task[r].retry THEN MaxRetries + 1 ELSE 1

\* A retry replaces a process group that is gone and whose shell failed by itself: two
\* groups of one run never overlap, and a success, a timeout and a kill are not retried.
RetryOnlyAfterFailure ==
  [][\A r \in Runs :
       proc'[r].spawned > proc[r].spawned =>
         \/ proc[r].spawned = 0
         \/ proc[r].state = "gone" /\ proc[r].exit \in {"nonzero", "signal"}]_vars

\* Once a cancel request has been answered Ok, the run never starts its script again,
\* at whichever of the checkpoints and selects the request was taken.
NoStartAfterAck ==
  [][\A c \in Callers :
       call[c].ack = "ok" =>
         proc'[call[c].run].spawned = proc[call[c].run].spawned]_vars

\* A record says success only of a script whose shell exited with code 0 and whose output
\* was read as far as the readers go, whoever finished the record and however often the run
\* was retried: nothing the run still logs comes after its success.
SuccessMeansZeroExit ==
  \A r \in Runs : row[r].status = "success" => proc[r].exit = "zero" /\ ~ScriptOpen(r)

-----------------------------------------------------------------------------
(* Properties of runs and cancellations while no sweep is in progress *)

\* A cancel request that marked the run while its record was queued, and found its
\* canceller, is seen by one of the checkpoints before the script starts.
QueuedCancelNeverStarts ==
  \A c \in Callers : call[c].queued /\ call[c].took => proc[call[c].run].spawned = 0

\* When the task has returned and no cancel call is between marking and answering, the
\* run has left both registries: later sweeps and cancels see it as it is.
RegistriesClean ==
  \A r \in Runs :
    /\ task[r].pc = "ended"
    /\ \A c \in Callers : call[c].run = r =>
         call[c].pc \notin {"take", "send", "await", "recheck", "giveup"}
    => r \notin cancellers /\ r \notin cancelled

\* A run with a timeout whose task got past the first checkpoint reaches a final status.
RunEnds ==
  \A r \in Runs :
    task[r].pc = "start" /\ task[r].timed ~> row[r].status \in Terminal

\* A cancel request that was sent ends the run, even when the call that sent it has
\* timed out and the script would never exit.
RequestHonoured ==
  \A c \in Callers : call[c].ack = "pending" ~> row[call[c].run].status \in Terminal

-----------------------------------------------------------------------------
(* Recovery after the backend process died *)

\* A run the backend left unfinished when it died is settled by the sweeps of list
\* requests, even when cancel calls for it come in meanwhile and raise its flag.
OrphansSettled ==
  \A r \in Runs : r \in orphans ~> row[r].status \in Terminal

-----------------------------------------------------------------------------
(* What the README promises of cancelled runs, and the code does not always keep *)

\* README.md:666: a command that gets a cancel request while it is queued never starts.
CancelWhileQueuedNeverStarts ==
  \A c \in Callers : call[c].queued => proc[call[c].run].spawned = 0

\* README.md:663-665: a cancel ends the shell and the members of its group, and the record is
\* marked cancelled only after their termination was confirmed.  Tasks in the background are
\* left aside: line 667 asks scripts to run in the foreground what a cancel has to end.
CancelledMeansStopped ==
  \A r \in Runs : row[r].status = "cancelled" => ~ScriptOpen(r)
=============================================================================
