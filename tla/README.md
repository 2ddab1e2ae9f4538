# Verification of the command and task backend

TLA+ models of the parts of this Rust backend (Loco, Axum, SeaORM, Tokio) that have protocols of their
own: the runners that start processes and keep records of them, the workflows over them, chunked
uploads, the sessions of the browser, the DNS updater and the shared SSH terminals. With them the TLC
instances that check the models, and theorems about them that TLAPS checks. Line numbers refer to `src/src/...` unless another root is given;
`PROJECT.json` gives, for every definition, the lines it stands for.

## 1. The system

The program is an administration backend: a web server with a PostgreSQL or SQLite database, a set
of background tasks, and processes it starts on its host. Its concurrency has three sources:
HTTP handlers run in parallel, background tasks (`tokio::spawn`) outlive the requests that
started them, and the processes they start live on their own. What they share is the database
(every call is an `await`, most handlers use no transaction) and a few registries in statics
behind a mutex. A restart loses tasks and registries and keeps rows and processes.

### Components

| Component | State it keeps | Operations | What is hard | What makes it correct |
|---|---|---|---|---|
| **Command run lifecycle** `services/command_runner.rs` | `command_runs` rows; `RUN_CANCELLERS`, `RUN_CANCELLED`; a oneshot channel, a task and a process group per run | `start_command_run`, `run_command_task` (attempts, retries, timeout), `cancel_run`, `mark_stale_runs_failed` | cancels racing four checkpoints, the wait, the retry delay and the finish; kills that fail; restarts; sweeps racing everything | the record tells what happened to the process; final statuses stay; requests and timeouts end the run; registries do not leak; restarted backends settle old rows |
| **Project CLI run lifecycle** `services/project_cli.rs` | `project_cli_runs` rows; `live_runs` behind an async mutex; a `Notify`, a drive task and a process per run | `spawn_run`, `drive`, `cancel_run`, `reconcile_interrupted_runs`, `prune_history` | reconciliation racing start and finish; slot limit; cancel before the wait; failed updates; restarts | a live run is never recorded as interrupted; at most four processes; newest records kept; every slot freed and every row settled |
| Command run logs (same file, `controllers/admin/commands.rs:1255`) | `command_run_logs`, the output tail in the row, a broadcast channel, single-use log tickets | `append_log`, `next_seq`, `update_tail`, `run_ws` | sequence numbers and tail are read, changed and written by two stream readers and the task; a subscriber between snapshot and stream | lines neither lost nor renumbered; a ticket opens one socket |
| **Workflow runner** `services/command_workflow_runner.rs`, edits in `controllers/admin/commands.rs` | `command_workflows` and their steps, `command_workflow_runs` and their steps, a task per run | `start_workflow_run`, sequential steps, `wait_for_command_run` (poll, 60 database errors); saving and deleting workflows and templates | the definition is replaced row by row under a run; failed calls in the middle of a step; restarts | one command at a time, the next only after success; a workflow's result agrees with its commands; every run ends |
| **DDNS updater** `services/cloudflare_ddns.rs` | settings rows, sync mutex with the fingerprint of what was published, the records at Cloudflare | `start_updater` loop, `sync_now`, `sync_with_settings`, `save_config` | settings read and saved row by row, read before the lock; manual and periodic sync; requests that fail halfway or are dropped | what a check skips is published; records converge to the newest settings |
| **Sessions** `controllers/auth.rs`, `models/refresh_tokens.rs`, `frontend/src/api/client.ts`, `frontend/src/stores/auth.ts` | refresh tokens; the pair of tokens in `localStorage` and in each tab, `refreshRequest` of each tab | `login`, `refresh`, `logout`, the interceptors of the browser | rotation in three steps against several tabs, lost and late answers, database errors | the browser keeps a token that works; only a refused token signs out; one refresh per expiry |
| **Chunked uploads** `controllers/admin/uploads.rs`, `services/storage.rs`, `frontend/.../uploadTaskManager.tsx` | task row with the list of chunks, chunk files, stored object, background import; the tab's running uploads | `create_task`, `upload_task_chunk`, `complete_task`, `complete_upload_task`, pause and resume | list read before the body is awaited; completion requested twice; the import dies | listed chunks stay until they are imported; completed means whole; every upload can be continued |
| **Shared SSH terminals** `controllers/admin/ssh.rs`, `frontend/.../ssh/SshPage.tsx`, `sshSession.ts` | `SSH_SESSIONS`, `SSH_TICKETS`; of each session a shell, a reader thread, the output buffer and the broadcast channel; sockets; the page's terminal (status, socket, attempts, timers) | `create_session`, `create_session_ticket`, `session_ws`, `handle_terminal_socket`, `close_session`, `sessions`; `connectSession`, `disconnectSession`, `scheduleReconnect`, the poll | output printed while a socket attaches; a session that ends while one attaches; connects that overlap; restarts | a terminal that keeps up misses no output; it never stays in a state that is not the case |
| Payments `controllers/admin/payments.rs` | orders, refunds | `mark_order_paid`, `cancel_order`, `create_refund`, `review_refund`, `mark_refund_succeeded` | order and refund in two updates; two operators | refunds never exceed the payment; one final outcome per order |
| Scheduled tasks, backups `controllers/admin/scheduled_tasks.rs` | task status, run records | `run_task` | two requests run one task | the last record written is a real one |
| Rate limiting `middleware/rate_limit.rs` | windows per rule and key behind a mutex | `limited_rule`, `increment_and_check` | several rules per request; window boundary | at most `limit` requests per window |
| Database watchdog, log retention, monitoring | counter of failed pings, timers, samples | timers | a single actor each | exit after three failures in a row |
| VNC and RDP relays, request manager, storage, static hosting, access control, content, chat, audit, installer, migrations, frontend | rows edited by one request, byte relays, files | CRUD | none beyond the database's own | - |

### How they interact

* List and detail handlers of `controllers/admin/commands.rs` (411, 709, 1098) call
  `mark_stale_runs_failed` before they read; `list_runs` and `run_detail` of the project CLI
  reconcile first. So recovery is done by readers, at any moment, in parallel with every run.
* The workflow runner starts command runs through `start_command_run` and learns of their end by
  polling the row: it depends on exactly what `CommandContract` promises of the row.
* `cancel_run` reaches the task through the flag, the channel and the row, in this order; the
  task answers through the completion sender in the request, and through the row.
* A tab drives an upload: it sends one chunk after another, then completes; two loops of one tab (a
  second click, or a pause and a resume during a call) and the import the backend spawned meet on
  one row and one directory.
* Tabs of one browser share `localStorage` but not their stores, and each refreshes on its own.
* A terminal of the page creates a session, takes a ticket for it and opens a socket with it; the thread
  that reads the shell's output reaches all sockets of the session through its buffer and its channel, and
  the page learns what ended from the socket and from the list it polls.
* The DDNS updater and administrators share the sync lock and the settings rows. It touches no runner.

## 2. Modules

| Module | Role |
|---|---|
| `CommandRunner` | component: command runs, cancel calls, sweeps, process groups, restart |
| `CommandContract` | abstract specification of a command run, as a caller sees it |
| `MCCommandRunner` | refinement mapping from `CommandRunner` to `CommandContract`, instances for TLC |
| `CommandRunner_proofs` | theorems about `CommandRunner` |
| `CommandContract_proofs` | theorems about cancelling and about the refinement, on top of `CommandRunner_proofs` |
| `ProjectCli` | component: project CLI runs, reconciliation, pruning, restart |
| `ProjectCli_proofs` | theorems about `ProjectCli` |
| `CommandWorkflow` | component: workflow runs and edits of their definition, composed with `CommandContract` (`Commands == INSTANCE`) |
| `MCCommandWorkflow` | the definitions TLC's instance saves |
| `CommandWorkflow_proofs` | theorems about `CommandWorkflow` |
| `UploadTasks`, `MCUploadTasks` | component: one chunked upload, its tab, its imports; symmetry of the loops |
| `UploadTasks_proofs` | theorems about `UploadTasks` |
| `Sessions`, `MCSessions` | component: refresh and logout between the backend and several tabs; the requests of TLC's instance |
| `Sessions_proofs` | theorems about `Sessions` |
| `DdnsUpdater`, `DdnsUpdater_proofs` | component: updater loop, manual syncs, settings, records; theorems about it |
| `SshTerminal`, `MCSshTerminal` | component: shared SSH sessions, their sockets, one terminal of the page, restart; symmetry of the connects |
| `SshTerminal_proofs` | theorems about `SshTerminal` |

Each property is stated with the component it is about; definitions whose comment starts with
`Mutant:` are wrong variants of the definition below them. They are not part of any
specification: `PROJECT.json` names, for every checked property, the variant that breaks it.

### CommandRunner

| Variable | Code |
|---|---|
| `row` | status and `attempt_count` of `command_runs` (`none` before the insert) |
| `cancellers` | keys of `RUN_CANCELLERS` |
| `cancelled` | `RUN_CANCELLED` |
| `chan` | the oneshot channel: open, request sent, request taken, closed because the sender was dropped, spent by a `try_recv` that found it closed; who sent |
| `task` | program counter of `start_command_run`/`run_command_task`, the attempt number, the last result, and the status `finish_run_with_status` decided on |
| `proc` | the process group: running (its shell lives), lingering (the shell is gone, its output is still read), background (the readers are done, members of the group live on), gone; how the shell ended; how often it was started |
| `call` | each `cancel_run`: program counter, its run, and the answer on its completion channel |
| `sweep` | each `mark_stale_runs_failed`: program counter, the rows listed and not yet visited |
| `orphans`, `crashes` | history |

A step is one database call or one critical section of a registry's mutex; everything else may
happen between two of them. Order of the actions along the code:

* start: `StartInsert`, `StartRegister` (lines 142-195);
* checkpoints `take_pending_cancel` (494-508), called at admission (before `mark_running`), at the
  top of an attempt, before the spawn and after the attempt: `CheckWaits`, `CheckCancels`,
  `CheckPasses`;
* attempt: `MarkRunning`, `RecordAttempt`, `SpawnChild`/`SpawnFails`, then the select of
  `wait_for_child` (525-587): `WaitSucceeds`, `WaitFails`, `WaitBreaks`, `WaitTimesOut`,
  `WaitCancelled`; between attempts `DelayEnds`, `DelayCancelled`; `SelectPanics`, when one of the two selects
  polls a receiver that is spent, which Tokio answers with a panic of the task;
* finish (689-733): `ClearBeforeFail`, `FinishRead`, `FinishJudge`, `FinishWrite`, `FinishDrop`, `FinishClear`;
* `cancel_run` (202-264): `CancelFind`, `CancelMark`, `CancelTake`, `CancelSend`, then one action
  for each way the wait for the completion ends;
* `mark_stale_runs_failed` (266-285): `SweepList`, `SweepNext`, `SweepRead`, `SweepJudge`, `SweepWrite`,
  `SweepDrop`, `SweepClear`;
* `Crash`: the statics, the tasks and the handlers go, rows and process groups stay.

`ShellExits`, `PipesClose` and `BackgroundEnds` are the environment: nothing makes them happen. `PipesClose` is the
end of both readers, because the pipes are closed or because a reader stops at a read or log error (653-671).
After exit 0 the runner waits for the readers and neither kills the group nor looks at it (555-562), so what a script
left in the background without the pipes (`sleep 600 >/dev/null 2>&1 &`) lives on under a record that says success:
`ScriptOpen` is what the runner does wait for, `GroupAlive` counts the background as well.

Abstractions. The log, the output tail and their failures are left out (a later module); so are
the drain of the pipes after a kill and the wording of errors. `terminate_process_tree` is one step, and so are the
read of a row and its update in `mark_running` and `record_attempt`, which write only the columns they change. `try_recv` and the
flag read of `take_pending_cancel`, which have no await between them, are one step: what a cancel call
does between the two has the effect it has just before or just after the pair, and only a sweep that
clears the flag right there can hide a request that has just arrived, which the next checkpoint or
select then takes.
Both five-second limits of `cancel_run` and a client that hangs
up are one outcome: the handler stops where it waits. A cancel call is used once; a sweeper lists
again and again and does not hang up in the middle. A database call of the task that fails has not written. A poisoned
mutex, a process that leaves its group (out of scope by `src/README.md:667`) and a process number
the operating system uses again are not modelled. Runs share nothing but the list a sweep works
on and the registries, which are maps by run.

### ProjectCli

| Variable | Code |
|---|---|
| `lock` | where `spawn_run` is while it holds the mutex of `live_runs` (1463-1510) |
| `live` | keys of `live_runs` |
| `permit` | the permit stored in the run's `Notify` |
| `row` | status of `project_cli_runs`; `interrupted` is `failed` with the text of a restart, `pruned` a deleted row |
| `drive` | program counter of `drive`/`execute` and the outcome to be recorded |
| `child` | the process: running, exit code zero or not, killed, or escaped a kill that failed |
| `prune` | the `prune_history` call each start makes after it released the mutex |
| `cancels`, `lost`, `orphans`, `crashes`, `dbFailures` | history and bounds |

A holder of the mutex that makes a single database call is one step that needs the mutex free
(`Reconcile`, `Cancel`, `DriveRemove`); `spawn_run` has two, so it is `StartLock`, `StartInsert` (or
`StartFails`, which also stands for an insert whose answer is lost or whose client hung up), and
`StartDrive`. `drive` is `DriveSpawn`, one of `DriveExited`, `DriveWaitFails`, `DriveCancelled`,
then `DriveUpdate` and `DriveRemove`. The readers, the log writer and their deadline of two seconds
are part of `DriveExited`. The exit of an escaped process is not modelled: nobody looks.

### CommandContract

The promise, without tasks, channels and registries: a record goes from queued to running to a
final status it never leaves; the script starts only while the record is running, only when no
process of the run is alive, and at most `Limit` times. `script` is idle, open (its shell runs or its output is
read) or left (its shell exited with 0 and only background processes are alive, `Detach`). A record becomes final
only when the script is not open, failed only when nothing of it is left, and success only after a start.
It does not promise that a success, or a cancel that comes after one, leaves nothing behind: the code does not.
`MCCommandRunner` maps `row`, `proc` (through `Script`) and `proc.spawned` to it.

### CommandWorkflow

| Variable | Code |
|---|---|
| `rows`, `saving`, `plans` | `command_workflow_steps`; each `update_workflow` under way; history of what was saved |
| `exists`, `template` | the workflow; each template: enabled, disabled, deleted |
| `flow`, `steps` | `command_workflow_runs` (status, and whether `workflow_id` is still set) and the run steps |
| `task` | program counter of `run_workflow_task`, the steps it loaded and has still to run, the verdict to store |
| `status`, `script`, `starts` | the command runs, as `CommandContract` has them |

A step of a task is one database call. Command runs take the steps of the contract (`RunCommand`, and
`CancelCommand` by anyone), not those of `CommandRunner`: this composition is what the refinement
`KeepsContract` allows, which is a theorem (`ImplementsContract`) when kills and waits work and sweeps settle no run. Saving is `SaveBegin` (delete) and one
`SaveRow` per step, without a transaction; the foreign keys of the schema make `CreateRunStep` fail when the
step's row was replaced, delete steps with their template, and detach runs from a deleted workflow.
Abstractions: one workflow; steps are their templates; disabled steps are never loaded and left out;
the poll is one step, and 60 failed polls in a row are one failed call (`CallFails`).

### UploadTasks

| Variable | Code |
|---|---|
| `task` | the `upload_tasks` row: status, chunk list, file |
| `dir`, `object`, `files` | chunk files; the bytes under `object_key`; the sha256 each import stored |
| `imports` | each `finish_upload_task_in_background`: program counter, its snapshot of the row |
| `store`, `seen` | `runningUploads[task.id]` and the query cache of the tab |
| `loop` | each call of `startChunkUpload` or (`button`) of `submitTaskImport`, with its request in flight and the handler's snapshot of list and file |

One task, one tab, the same file every time. A chunk call is `ChunkRead` (find), `ChunkTruncate` and
`ChunkWrite` (`fs::write` truncates first), `ChunkUpdate` (the list read before the body, plus one). A call that
fails is `CallFault`, or `ChunkUpdate` with a lost answer. Completing is `CompleteFind`, `CompleteQueue` (the row says
importing) and `CompleteSpawn`, with a log entry awaited between the last two; only `startChunkUpload` takes the task out of
`runningUploads` when it ends (`TakeOut`). An import is `ImportLocate`, `ImportHash`,
`ImportPut`, `ImportCopy`, `ImportInsert`, `ImportComplete`, `ImportClean`, or `ImportFault` and `ImportFail`. Bytes are whole,
damaged or missing; a pass over all chunks is one step, and `ImportPut`/`ImportCopy` between them
allow every state the object goes through. `raced` remembers that two calls, or a call and an import, met on
the task: the code takes no lock, and then lists shrink, objects are overwritten and late failures
undo a completion.

### Sessions

| Variable | Code |
|---|---|
| `live`, `fresh` | refresh tokens `find_valid_by_token` accepts; access tokens not yet expired |
| `storage`, `held` | the pair in `localStorage`, and in each tab's store |
| `refreshing` | `refreshRequest` of each tab |
| `handler` | the `refresh` handler each tab waits for, and one it gave up on and which goes on |
| `leaving` | each tab's logout |
| `request` | requests through `apiClient`: sent, refused, waiting for the refresh |
| `lost`, `over` | history: tokens whose revocation nobody learned of; tokens logged out, expired or replaced |

A pair is a number. The handler is `FindValid`, `Issue`, `Revoke`; the tab's side of it is `Renew`, `Deny`,
`Error` or `GiveUp` (15 seconds, or a broken connection, after which the handler is dropped where it waits or
goes on unheard). `Refused` is the response interceptor, with its check that the request belongs to the
session the tab has now. Time: a request takes seconds and an access token lives for days
(`config/development.yaml:102`), so none expires twice under one request (`AccessExpires`).

### DdnsUpdater

| Variable | Code |
|---|---|
| `settings`, `saver` | `ddns.enabled` and the rest (`options`), two rows for all of them; a `save_config` between rows |
| `host`, `record` | the address `detect_ipv6` finds; the records at Cloudflare |
| `memory`, `lock` | `SyncMemory` and who holds the mutex around it |
| `run` | the loop's and each administrator's run, with the settings it loaded before the lock |
| `error` | `last_error` |
| `edited`, `cut` | history: records edited by hand, or written by an aborted run, and not verified since |

`Wake` and `LoadOptions` read the settings row by row, `Acquire` takes the lock, `Detect`, then `Skip` or
`Connect`, one `Upsert` per name, `Finish`. `Abort` drops a handler with its connection, `Restart` everything; a request
that was in flight may still be carried out (recorded in `cut`). The
fingerprint is the record it describes; collisions of the 64-bit hash are left out. Token, zone and headers,
which decide where records go, are part of `options`.

### SshTerminal

| Variable | Code |
|---|---|
| `store`, `tickets` | keys of `SSH_SESSIONS`; the connects whose ticket is in `SSH_TICKETS` |
| `session` | each `ManagedSshSession`: status, chunks printed, and where its reader thread is |
| `connect` | each call of `connectSession` with the socket it opens: program counter, session, its receiver (`feed`) and what it was sent (`shown`) |
| `tab` | the terminal: status, `serverSessionId`, socket, reconnect attempts, timers and the one that can be cleared |
| `closing`, `poll` | `closeSharedSession`; the session list under way |
| `stray`, `late`, `lagged` | history: a socket replaced an open one; a socket subscribed after the end; a receiver lost messages |

Of the reader: `Output` and `Broadcast` are the halves of `append_output`, then `Eof` (the status), `EofSaid` (the message
to the sockets) and `ReaderRemove`.
Of a connect: `ConnectOverlay`, `ConnectToolbar` or `TimerFires`, `CreateSession`, `CreateTicket` (or
`SessionGone`, `RequestFails`), `OpenSocket` in the page; `Upgrade`, `Subscribe`, `Replay`, `Relay`,
`ReceiveOutput`, `ReceiveClosed` in the handler; `Drop` and `OnClose`. A message reaches the page in the
step that sends it. The button in the toolbar is disabled while the mutation it started last is pending (`connect.last`). That the shell exits is seen only at the end of its output, so `Eof` is its exit as well.
A ticket that a cleaned or broken connect leaves behind is dropped from `tickets`: nobody holds it any more.
A chunk is its number. Input, resizing and the current directory decide nothing here.

## 3. Runs

| Run | Instance | What it shows |
|---|---|---|
| `command_cancel` | 1 run, 2 cancel calls, 1 retry, nothing fails, fair | The run keeps the contract (`KeepsContract`, a refinement): final statuses stay, no record is final before its script is over, none failed before its processes are gone. A cancel that marked a queued run and found its canceller is in time (`QueuedCancelNeverStarts`). The registries are left clean (`RegistriesClean`). A run with a timeout ends (`RunEnds`), and so does one that was sent a request, even if the caller gave up (`RequestHonoured`) |
| `command_sweep` | 1 run, 1 cancel call, 1 sweeper, 1 crash, database, wait and kill may fail | What survives all of that: `AttemptsBounded`, `RetryOnlyAfterFailure`, `NoStartAfterAck`, `SuccessMeansZeroExit` |
| `command_restart` | 1 run, 1 cancel call, 1 sweeper, 1 crash, fair | Sweeps settle every run the dead backend left open, although cancel calls raise flags that hide them (`OrphansSettled`) |
| `queued_cancel_starts` | 1 run, 1 cancel call | violated: finding 1 |
| `cancelled_but_alive` | 1 run, 1 cancel call, kill may fail | violated: finding 2 |
| `project_cli` | 2 runs, 1 slot, 1 kept record, 1 crash, 1 database failure, fair | While starts, ends, cancels, reconciliations and prunes interleave and the database or the backend fails: `ProcessesBounded`, `PrunedAreOld`, `RowLifecycle`; a run is recorded as interrupted only for a reason (`InterruptedExplained`); a cancel frees its slot (`CancelFreesSlot`); every row settles (`RowsSettle`) |
| `workflow` | 1 run, 2 templates, definitions of two and one steps, 2 administrators, 2 changes, 1 fault, fair | Whatever is edited, cancelled or fails: one command at a time and only after success (`OneAtATime`); success means that the whole definition that was loaded succeeded (`SuccessIsWhole`); a run that ended without an error leaves no command at work, no process of a failed one, and no step open (`EndsClean`); every run ends unless its task died (`FlowEnds`) |
| `upload_tasks` | 2 loops, 2 chunks, 2 imports, 1 fault | A listed chunk stays on disk until its import (`ListedOnDisk`); a completed task is the whole file, its object and its hash agree, through crashes and retries (`CompletedIsWhole`); a tab that shows an upload as running works on it (`RunningTabWorks`); importing means an import, under way or about to be spawned (`ImportingHasImport`). The last three while calls do not meet |
| `sessions` | 2 tabs with two and one requests, 1 sign-in, 2 expiries, 1 click, 1 fault, fair | The token a browser keeps is accepted unless an answer was lost, it was logged out or is too old (`UsableUnlessLost`); a tab drops its session only for a token that is dead (`SignsOutOnlyDead`); a renewed pair is not refreshed again by late 401s (`RefreshesOnce`); an expired tab gets a new pair or is signed out (`Renews`) |
| `ddns_sync` | 2 names, 2 addresses, 2 options, 1 administrator, 3 changes, 1 fault, fair | The memory describes the records (`MemoryIsPublished`), a skipped check had nothing to publish (`SkipIsSafe`), records converge to host and settings (`Converges`) |
| `ddns_aborted` | the same with 1 option | violated: finding 3 |
| `ssh_terminal` | 2 sessions, 2 connects, 2 chunks, 1 chunk of history, 1 message of capacity, 1 attempt, 2 clicks, 2 faults | A socket that keeps up is sent every chunk from the first it shows, although the session prints while it attaches (`NoGap`). The terminal is never connecting with nothing to wait for, nor connected to a session that is over, except after the two races of section 3, *Findings* (`NeverStuck`) |

`TypeOK` is checked once per component. Deadlock is not checked: a system whose runs are over
may stop, and a task may wait for a script that never exits.

### Bounds

* One command run: the registries and rows of two runs are disjoint, and a sweep visits the rows
  one after another without carrying anything over, so a property of a run needs one run. The
  theorems hold for any number.
* Two cancel calls: the second one is the first that finds the flag set (line 207) and polls; a
  third does what the second does. With a sweep or a crash one is enough for the races of interest:
  both sides of every window are an action of another actor.
* One sweeper: it lists again and again, so a sweep that started before a crash, a start or a finish and one
  that starts after it both occur. Two sweeps at once are covered by the theorems only.
* `MaxRetries = 1`: first attempt, last attempt and the boundary between them.
* `MaxCrashes = 1`: a crash at any point, and everything a new backend does with what is left.
* Project CLI: one slot and two runs, so that a start waits for a slot; one kept record, so that pruning
  cuts between the records in either order of their ends. The constants of the code (4 and 500) only shift
  these boundaries. The five safety properties are theorems for every value of the constants, with any
  number of runs, slots, crashes and failures; the instance is there for liveness.
* `MaxDbFailures = 1`: one failed insert or update at any place.
* Workflow: a definition of two steps has a boundary between steps, the other one replaces it by a shorter
  one with a template in common; two saves can overlap and mix their rows, which is why a run may load up
  to four steps. `MaxFaults = 1` puts one failure or restart anywhere. Two workflow runs share only the
  definition, which neither changes.
* Uploads: two loops meet in every way a tab and its second click can; two chunks give a list that is
  empty, partial or full; the second import is the one that meets the first, or retries it.
* Sessions: the second request of a tab is the one that joins a refresh or comes too late for it; the
  second expiry is that of a renewed pair; two tabs hold one pair. One click and one fault anywhere.
* SSH: two connects overlap in every way, and each may end before the next begins. A third at the same moment
  would need a third click: a connect without a click comes from a timer, and a timer from a connect that
  ended. Two sessions are the one that ended and its replacement. Capacity 1 and one chunk of history make a
  receiver lag and the buffer drop with two chunks. Two faults are a broken socket and what happens to the
  attempt that follows it.
* DDNS: two names so that a run can fail halfway, two options and two addresses so that a change can be
  undone; three changes are a sync, a change in it and one after it.

### Fairness

`CommandRunner`: weak fairness of each task that can take a step, of each cancel call that has
begun, and of the sweepers. The first two are what the Tokio runtime gives a future whose await is
ready, and what a timer gives a timeout; the third is an assumption about users: the pages that show
runs refresh, so lists keep coming. A sweep is only assumed where recovery is the question. No
fairness for shells, pipes and failing waits: a script may run for ever, which is why
`RunEnds` speaks of runs with a timeout. `RunEnds` also starts after the first checkpoint: before it a
task can wait for a request nobody sends (hazard at line 500), so the stronger property is false.

`ProjectCli`: weak fairness of the start that holds the mutex, of each drive task and of
reconciliation (a list request comes again). Nothing makes a process exit or its wait fail.

`CommandWorkflow`: weak fairness of each workflow task, and of each command run: `CommandRunner` ends a
run that is cancelled, fails or times out (`RunEnds`, `RequestHonoured`), and scripts without a timeout are assumed to end.
Nobody has to save, cancel or fail.

`Sessions`: weak fairness of the handler a tab waits for together with the callbacks of its answer, and of the
requests: pages go on asking, which is what a signed-in page does (polling, refetching).

`DdnsUpdater`: timers fire (`Wake`, `HourPasses`), a save in progress goes on, runs take their steps, and the
lock is granted in turn (strong fairness of `Acquire`: Tokio's mutex is a queue).

`SshTerminal`: none; its properties are about states. `NeverStuck` says of every state that something is to
come that changes it, and leaves open when.

### Findings

1. *A cancel request can miss a queued run* (`queued_cancel_starts`). `start_command_run` inserts
   the queued row before it registers the canceller. A cancel call in between marks the run, finds
   no canceller, takes its mark back and answers with an error; the run starts. `src/README.md:666`
   says that a command that gets a cancel request while it is queued does not start.
   `QueuedCancelNeverStarts` is the part that does hold: with a registered canceller it does not.
2. *A record can say cancelled of a process that runs on* (`cancelled_but_alive`).
   `finish_run_with_status` turns any result into `cancelled` when the flag is set. If the kill of a
   timeout fails, the run ends with an error, and a cancel call that comes after line 467 has cleared
   the flag sets it again. `src/README.md:665` says that the record is marked only after the end of
   the process is confirmed. Without failing kills the contract (`KeepsContract`) excludes it. What a script with exit
   code 0 left in the background also outlives a cancel that comes while it finishes; the run does not count
   that, because `src/README.md:667` asks scripts to keep in the foreground what a cancel is to end.
3. *An aborted sync makes scheduled checks skip wrong records* (`ddns_aborted`). A manual sync rewrites records
   and stores the fingerprint of what it wrote only at its end. When its connection breaks in between, the
   handler is dropped and the lock released, and the memory still describes the records of the run before: the
   loop finds "nothing new" for up to an hour. The comment at `services/cloudflare_ddns.rs:170` says that a
   scheduled check skips Cloudflare when nothing changed. Without aborted runs `SkipIsSafe` holds, and with
   them `Converges` still does, because a verification is due every hour.

Two more disagreements are visible in `SshTerminal` and have no run. `controllers/admin/ssh.rs:995` says that attaching
never lands on a dead terminal: a session can end between `find_live_session` (448) and `subscribe` (1019),
the new socket then gets the history and is never told the end (`late`). And connects can overlap, because the
poll shows a terminal that is connecting without a socket as detached, which offers to connect again: the later one
replaces the socket of the earlier one without closing it (`stray`), whose messages still change the status.
`NeverStuck` excepts exactly these two.

Things the model does not contradict although they look wrong, because nothing in the repository
promises otherwise: a sweep that read a row as stale can overwrite the result of a run that
registered and finished meanwhile with `failed`; a final update that fails leaves the canceller
registered, so sweeps never settle the run until the next restart; a workflow edited while a run is between
two steps makes the run fail there, and a save that stops halfway is what later runs execute and report
as success; calls that meet on an upload task lose chunks of the list, and an import whose snapshot
already names a file leaves the task importing for ever; a tab that holds an older pair is denied, signs
out and clears the newer pair another tab stored (`client.ts:100`); a logout that meets a refresh leaves the
new token valid; `last_error` of the DDNS status stays on the page when the next check is skipped;
a chunk printed while a terminal attaches can be in the history and in the stream, and is then shown twice.

## 4. Proofs

Every safety property a passing run checks is a theorem, and so is the refinement of `CommandContract`: for every
value of the constants, which means any number of runs, callers, sweepers, tabs, chunks, sessions or
administrators, and any bound on crashes and faults.

| Module | Theorem | Statement |
|---|---|---|
| all but `CommandContract_proofs` | `TypeCorrect` | the type invariant `TypeOK` |
| `CommandRunner_proofs` | `StartsBounded` | `AttemptsBounded` |
| | `SuccessIsTrue` | `SuccessMeansZeroExit` |
| | `RetriesOnlyFailures` | `RetryOnlyAfterFailure` |
| | `NoStartsAfterAck` | `NoStartAfterAck` |
| `CommandContract_proofs` | `LeavesRegistries` | `RegistriesClean`, if `~DbMayFail` |
| | `QueuedCancelStops` | `QueuedCancelNeverStarts`, under `[]QuietSweeps` |
| | `ImplementsContract` | `KeepsContract`, if `~KillMayFail` and `~WaitMayFail`, under `[]QuietSweeps` |
| | `FinalStatusesStay` | no step replaces a final status; the same hypotheses |
| `ProjectCli_proofs` | `SlotsBoundProcesses` | `ProcessesBounded` |
| | `NeverInterruptsALiveRun` | `InterruptedExplained` |
| | `PrunesOnlyOldRecords` | `PrunedAreOld` |
| | `RowsSettledOnce` | `RowLifecycle` |
| `CommandWorkflow_proofs` | `RunsOneAtATime` | `OneAtATime` |
| | `SuccessMeansWhole` | `SuccessIsWhole` |
| | `EndsCleanly` | `EndsClean` |
| `UploadTasks_proofs` | `ChunksStay` | `ListedOnDisk` |
| | `CompletesWhole` | `CompletedIsWhole` |
| | `NoDeadUpload` | `RunningTabWorks` |
| | `NoDeadImport` | `ImportingHasImport` |
| `Sessions_proofs` | `KeepsUsable` | `UsableUnlessLost` |
| | `NeverSignsOutAlive` | `SignsOutOnlyDead` |
| | `RefreshesOnlyStale` | `RefreshesOnce` |
| `DdnsUpdater_proofs` | `MemoryPublished` | `MemoryIsPublished` |
| | `SkipsAreSafe` | `SkipIsSafe` |
| `SshTerminal_proofs` | `MissesNothing` | `NoGap` |
| | `AlwaysAnswered` | `NeverStuck` |

### What they assume

Of the constants, the `ASSUME` of each module. Most are types and lower bounds: numbers are naturals, there is at
least one retry (the validation of `max_retries` asks for 1 to 10), one slot, one chunk, one message of
capacity. `ActorsAssumption` and `ValuesAssumption` of `DdnsUpdater` keep the names of actors and the value that stands
for nothing apart from administrators, addresses and options. `DefinitionsAssumption` of `CommandWorkflow` makes a definition a
sequence of templates with at least one step and at most `MaxSteps`; `MaxSteps` also bounds the rows a run loads, and is
arbitrary.

Four theorems have hypotheses of their own, and each is needed:

* `~DbMayFail` in `LeavesRegistries`: when the final update fails, `finish_run` returns before it drops the canceller
  and clears the flag (hazard at line 728). Sweeps, crashes, and kills and waits that fail do not matter.
* `QuietSweeps` says of a state that no sweep is settling a run: sweeps list runs and find a canceller or a
  flag of each. A sweep that listed a run before it registered writes `failed` over its
  row, drops its canceller and clears its flag while it runs; the record then leaves a final status, and the flag
  a cancel call counted on is gone. `command_sweep` and its theorems cover what survives that.
* `~KillMayFail` and `~WaitMayFail` in `ImplementsContract` and `FinalStatusesStay`: otherwise a record becomes final over a script
  that still runs (finding 2). Database calls may fail, and the backend may die at any moment.

### The invariants

None of the properties is inductive. Each module proves an invariant `Inv` (or, in `CommandContract_proofs`, one on top
of that of `CommandRunner_proofs`) from which its properties follow; TLC checked each on the instance of its run
first.

**CommandRunner.** `Inv` is the type invariant with
* `AttemptCounted`: the attempt number is at most the limit, and is ahead of the number of starts
  until the script starts, so the next start is still within the limit; in the retry delay there is a
  retry left;
* `ResultTrue`: what the task believes of the group it waited for is so: after a wait that ended
  with a failure, until the next start, the group is gone and its shell failed; a result or a
  decided status of success is of a shell that exited with zero and whose output is no longer read;
* `SuccessLast`: a row says success only when the task is past its last update of the row, so no
  start can follow;
* `SweepsFail`: a sweep never decides on success;
* `RequestsMatch` and `AcksFinish`: a request in a channel belongs to a call for that run, and a run
  with a call answered Ok is between the finish and the end. Without `RequestsMatch` an answer could
  reach a caller of another run.

The proof of `Inv'` is split by conjunct and by kind of step; `RunNext` handles the four conjuncts about runs,
`AckNext` the two about calls. The action properties follow because only `SpawnChild` raises the number of
starts (`OnlySpawnStarts`).

**CommandContract.** Three invariants, each with one lemma for the steps of a run, one for cancel calls, and the crash:
* `Cleared`: a run is in the map of cancellers only between `StartRegister` and `FinishDrop` (`Left`), and until a
  request is sent that its task can still answer, as well as after its task, its flag is up only while a call holds it and has
  yet to send or to take it down (`Held`, `Sending`). A task that panics leaves nothing behind: its sender was dropped before.
* `Caution`, for a cancel that marked a queued run: the flag of a run that has not started belongs to one call
  (`Owned`), the calls that clear a flag because of an answer come too late to matter (`TooLate`), and the run is
  caught (`Caught`): by the flag until the request is in its channel, by the request until a
  checkpoint takes it, and then because the task is on its way out. The script can start in none of these.
* `Promised`, for the refinement: the row follows the task (`Flow`: which status belongs to which program counter,
  that a script is open only while the task waits or after it died, and that nothing of the group is left when it goes
  on with a failure), and a confirmed request is of a stopped run (`Stopped`), which is why the later update of the row by the cancel call is no step out of
  a final status. Every step is then shown to change one run in a way the contract allows (`Honest`), and
  `HonestMaps` turns that into a step of the contract or a stutter under the mapping.

**ProjectCli.** `Inv` adds to the properties: `SlotsReserved` (while `spawn_run` holds the mutex there is a
free slot), `IdsInOrder` and `Admitting` (the newest row is the one being admitted, running
and not yet driven), `LiveDriven` (live runs are exactly the driven ones, and their rows are running
until `drive` writes them), `ChildDriven` (a running process is driven or an orphan, which bounds
processes by slots), `Abandoned` (a running row that is not live has a reason) and `CutoffOld` (a
cutoff already read still has enough newer rows when the delete comes). Cardinalities come from
lemmas about finite sets (`InsertedGrows`, `AgeKept`).

**CommandWorkflow.** For each run: `Position` (what the program counter says of record, steps and rows
ahead), `CommandsDone` (every command before the last succeeded, none after it was submitted, the last one agrees
with the verdict) and `Whole` (steps made and rows ahead are together the definition that was loaded); and
`SavesKnown`, `ScriptRuns` for the definition and the commands. That what a run loads is a whole definition
whenever the rows are those of one save needs `SortedDefinition`: sorting the rows of one save gives back its
sequence.

**UploadTasks.** `InOrder` and `OnDisk` (chunk files go only for a task that has its file, and a call lists what it
has seen on disk) hold always. As long as no two calls met, so does `Calm`: what a call read of the task is still
so (`Alike`), the task has a file exactly if it is completed (`Kept`), there is one import, of a whole file
(`Single`), and a tab that shows an upload has the loop of an upload, not only of the button (`Works`). The three properties that are stated for that case are part of `Calm`, since each step needs
all of them. That a loop that has sent all chunks before the first missing one has a first missing one is a
least-element argument over sets of naturals.

**Sessions.** `Accounted`: every pair that was issued works, or a lost answer, a logout or age explains why
not, or its renewal is on its way to the tab. `Joined` and `Tracked` tie each refresh to the pair of its tab and each waiting
request to the refresh; without them a late 401 could start a second refresh, or a denial sign out a
tab that has a newer pair.

**DdnsUpdater.** `HolderInside` (a run between detection and end holds the lock), `Published` (under a run, too, only
what that run wrote can differ from the memory) and `Written` (a run without a failed request has put what
it wants in every record it wrote, and those left are the rest): together they make the memory true at the
moment `Finish` replaces it.

**SshTerminal.** `Follows`: from its first chunk on, a receiver that kept up has all that was broadcast, in history,
queue or on the page. `Ends`: a receiver was told that its session ended, or its reader has yet to say so.
`Knows`: the terminal knows its socket and timers, and whenever it is connecting there is a timer, a request or a
socket whose next message will move it. `Shape` and `Printed` say what fields mean at which program counter.

### Only model-checked

Liveness (`RunEnds`, `RequestHonoured`, `OrphansSettled`, `CancelFreesSlot`, `RowsSettle`, `FlowEnds`, `Renews`,
`Converges`): it needs fairness and `ENABLED`, which the prover does not handle. The three violated runs are TLC's
counterexamples, not theorems.

## 5. Not modelled

Everything that has status `not_modelled` in `PROJECT.json`, with its reason there: text processing
(script building, help parsing), byte relays (VNC, RDP), file storage, single-request CRUD,
samples, installer, migrations and most of the frontend. Of the parts with several actors:

* **Command output** (`append_log`, `next_seq`, `update_tail`, broadcast, tickets): two readers and the task
  interleave here and lines do get equal numbers; nothing the runner decides depends on them.
* **Payments**: orders and refunds are changed by independent requests. Each refund is compared with the whole
  amount (line 815 of `controllers/admin/payments.rs`) and nothing sums them up, so the property one would state (refunds
  within the payment) is not one the code promises anywhere.
* **Failed logins** (`update_failed_login`): a counter read before the password check; concurrent failures
  count once.
* **Rate limiting**: one critical section per rule.
* **Scheduled tasks, backups**: a task runs inside its request; its status is informative.
* **SSH**: input, resizing, the file browser, `create_ticket` and `terminal_ws` (the older way in, with the same
  handler), several terminals in one page, and reloading the page, which forgets the terminal.
* The upload endpoints for stored files, and the parts of `controllers/admin/commands.rs` that only read.

Next: the output of a run (`append_log`, its readers and the log tickets) as a module of its own, and what of the
contract survives failing kills and sweeps that settle runs, as theorems with these as hypotheses.
