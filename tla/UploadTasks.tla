----------------------------- MODULE UploadTasks -----------------------------
(***************************************************************************)
(* One chunked upload: the handlers of src/controllers/admin/uploads.rs    *)
(* that create a task, store its chunks and complete it, the background    *)
(* import complete_task spawns, and the browser tab that drives them       *)
(* (frontend uploadTaskManager.tsx and its store).                         *)
(*                                                                         *)
(* A chunk call reads the task before it awaits the body and writes the    *)
(* chunk list after it; an import reads the chunk files twice (to hash     *)
(* them and to copy them) and removes them at the end.  A step is one      *)
(* database call that reads or writes the task, one change of a chunk      *)
(* file, or one pass over all the chunks of an import.  The tab sends the  *)
(* same file every time.                                                   *)
(***************************************************************************)
EXTENDS Naturals, FiniteSetsExt

CONSTANTS
  Loops,        \* calls of startChunkUpload or submitTaskImport under way in the tab
  Total,        \* task.total_chunks
  MaxImports,   \* bound: how many imports are ever spawned
  MaxFaults     \* bound: backend deaths, failed database calls and lost answers

ASSUME ConstantsAssumption ==
  /\ Total \in Nat \ {0}
  /\ MaxImports \in Nat
  /\ MaxFaults \in Nat

VARIABLES
  task,         \* the upload_tasks row
  dir,          \* the chunk files in storage/upload_tasks/<id>
  object,       \* what is stored under task.object_key
  files,        \* the upload_files row each import inserted: what its sha256 is of
  imports,      \* the background imports, in the order complete_task spawned them
  store,        \* runningUploads[task.id] of the tab
  seen,         \* the tab's copy of the task (the query admin-upload-tasks)
  loop,         \* the calls under way in the tab and the request each has in flight
  raced,        \* history: two calls met on this task, or a listed chunk was rewritten
  faults        \* history: how many faults there were

vars == <<task, dir, object, files, imports, store, seen, loop, raced, faults>>

-----------------------------------------------------------------------------
(* Values *)

Chunk == 0 .. Total - 1
ImportIds == 1 .. MaxImports
Part == {"none", "short", "whole"}        \* short: truncated, not yet written again
Bytes == {"none", "damaged", "whole"}     \* nothing, something else, the tab's file

TaskStatus == {"none", "pending", "uploading", "importing", "completed", "failed"}
CallPc == {"read", "body", "write", "update", "find", "queue", "spawn"}
LoopPc == {"idle", "next"} \cup CallPc
ImportPc == {"none", "locate", "hash", "put", "copy", "insert", "complete",
             "clean", "fail", "done"}

TypeOK ==
  /\ task \in [status : TaskStatus, chunks : SUBSET Chunk, file : {0} \cup ImportIds]
  /\ dir \in [Chunk -> Part]
  /\ object \in Bytes
  /\ files \in [ImportIds -> Bytes]
  /\ imports \in [ImportIds -> [pc : ImportPc, chunks : SUBSET Chunk,
                                file : {0} \cup ImportIds, hash : Bytes]]
  /\ store \in {"none", "active", "paused"}
  /\ seen \in [completed : BOOLEAN, chunks : SUBSET Chunk]
  /\ loop \in [Loops -> [pc : LoopPc, button : BOOLEAN, index : 0 .. Total,
                         uploaded : SUBSET Chunk, answer : SUBSET Chunk,
                         snapshot : SUBSET Chunk, file : {0} \cup ImportIds]]
  /\ raced \in BOOLEAN
  /\ faults \in 0 .. MaxFaults

Full(chunks) == chunks = Chunk
InFlight(l) == loop[l].pc \in CallPc
Importing == \E j \in ImportIds : imports[j].pc \notin {"none", "done"}
Queued == \E l \in Loops : loop[l].pc = "spawn"
Alone(l) == ~Importing /\ \A m \in Loops \ {l} : ~InFlight(m)
Idle == [pc |-> "idle", button |-> FALSE, index |-> 0, uploaded |-> {}, answer |-> {},
         snapshot |-> {}, file |-> 0]
NoImport == [pc |-> "none", chunks |-> {}, file |-> 0, hash |-> "none"]
Row == [completed |-> task.status = "completed", chunks |-> task.chunks]
Goto(l, pc) == loop' = [loop EXCEPT ![l].pc = pc]

Init ==
  /\ task = [status |-> "none", chunks |-> {}, file |-> 0]
  /\ dir = [i \in Chunk |-> "none"]
  /\ object = "none"
  /\ files = [j \in ImportIds |-> "none"]
  /\ imports = [j \in ImportIds |-> NoImport]
  /\ store = "none"
  /\ seen = Row
  /\ loop = [l \in Loops |-> Idle]
  /\ raced = FALSE
  /\ faults = 0

-----------------------------------------------------------------------------
(* The tab: startChunkUpload, its pause and resume buttons, submitTaskImport *)

BeginLoop(l, chunks) ==
  loop' = [loop EXCEPT ![l] = [Idle EXCEPT !.pc = "next", !.uploaded = chunks,
                                           !.answer = chunks]]

\* create_task inserts the row, then prepares the directory; when that fails the
\* row stays and the tab is told the call failed.
CreateTask(l) ==
  /\ loop[l].pc = "idle" /\ task.status = "none"
  /\ task' = [task EXCEPT !.status = "pending"]
  /\ \/ /\ store' = "active"
        /\ BeginLoop(l, {})
        /\ UNCHANGED faults
     \/ /\ faults < MaxFaults
        /\ faults' = faults + 1
        /\ UNCHANGED <<store, loop>>
  /\ UNCHANGED <<dir, object, files, imports, seen, raced>>

\* The buttons act on the tab's copy of the task, which the query may have refetched:
\* resumeTask on a paused upload, startChunkUpload with the task on one that is not
\* running and has chunks missing.
Resume(l) ==
  /\ loop[l].pc = "idle" /\ task.status # "none"
  /\ \E view \in {seen, Row} :
       /\ \/ store = "paused"
          \/ store = "none" /\ ~view.completed /\ ~Full(view.chunks)
       /\ seen' = view
       /\ BeginLoop(l, view.chunks)
  /\ store' = "active"
  /\ UNCHANGED <<task, dir, object, files, imports, raced, faults>>

Pause ==
  /\ store = "active"
  /\ store' = "paused"
  /\ UNCHANGED <<task, dir, object, files, imports, seen, loop, raced, faults>>

\* submitTaskImport: the button a fully uploaded task has while it is not completed,
\* also while it is importing.
ClickImport(l) ==
  /\ loop[l].pc = "idle" /\ store = "none"
  /\ \E view \in {seen, Row} :
       /\ ~view.completed /\ Full(view.chunks)
       /\ seen' = view
  /\ loop' = [loop EXCEPT ![l] = [Idle EXCEPT !.pc = "find", !.button = TRUE]]
  /\ UNCHANGED <<task, dir, object, files, imports, store, raced, faults>>

Missing(l) == {i \in loop[l].index .. Total - 1 : i \notin loop[l].uploaded}

\* The head of the loop: send the next missing chunk while the upload runs ...
SendChunk(l) ==
  /\ loop[l].pc = "next" /\ store = "active" /\ Missing(l) # {}
  /\ loop' = [loop EXCEPT ![l].pc = "read", ![l].index = Min(Missing(l))]
  /\ UNCHANGED <<task, dir, object, files, imports, store, seen, raced, faults>>

\* ... and what follows it: return when paused, complete when the last answer lists
\* every chunk, or end with the upload still marked as running.
LeaveLoop(l) ==
  /\ loop[l].pc = "next" /\ (store # "active" \/ Missing(l) = {})
  /\ IF store # "paused" /\ Full(loop[l].answer)
       THEN loop' = [loop EXCEPT ![l] = [Idle EXCEPT !.pc = "find"]]
       ELSE loop' = [loop EXCEPT ![l] = Idle]
  /\ UNCHANGED <<task, dir, object, files, imports, store, seen, raced, faults>>

\* Mutant: the catch leaves the task among the running uploads.
CallFailsStillRunning(l) ==
  /\ UNCHANGED store
  /\ loop' = [loop EXCEPT ![l] = Idle]

\* setTaskRunning(task.id): only startChunkUpload takes the task out of runningUploads.
TakeOut(l) == store' = IF loop[l].button THEN store ELSE "none"

\* The catch of startChunkUpload and of submitTaskImport.
CallFails(l) ==
  /\ TakeOut(l)
  /\ loop' = [loop EXCEPT ![l] = Idle]

\* await uploadTaskChunk returned the row.
ChunkAnswered(l, chunks, completed) ==
  /\ loop' = [loop EXCEPT ![l].pc = "next", ![l].index = @ + 1, ![l].answer = chunks,
                          ![l].uploaded = @ \cup {loop[l].index}, ![l].snapshot = {}]
  /\ seen' = [completed |-> completed, chunks |-> chunks]

\* await completeUploadTask returned the row.
CompleteAnswered(l, completed) ==
  /\ TakeOut(l)
  /\ seen' = [completed |-> completed, chunks |-> task.chunks]
  /\ loop' = [loop EXCEPT ![l] = Idle]

-----------------------------------------------------------------------------
(* upload_task_chunk *)

\* find_task; a completed task is answered at once, any other waits for the body.  The
\* index is checked too, but the tab sends no other.
ChunkRead(l) ==
  /\ loop[l].pc = "read" /\ loop[l].index \in Chunk
  /\ IF task.status = "completed"
       THEN ChunkAnswered(l, task.chunks, TRUE)
       ELSE /\ loop' = [loop EXCEPT ![l].pc = "body", ![l].snapshot = task.chunks]
            /\ UNCHANGED seen
  /\ raced' = (raced \/ ~Alone(l))
  /\ UNCHANGED <<task, dir, object, files, imports, store, faults>>

\* save_task_chunk recreates the directory if an import removed it, truncates ...
ChunkTruncate(l) ==
  /\ loop[l].pc = "body"
  /\ dir' = [dir EXCEPT ![loop[l].index] = "short"]
  /\ raced' = (raced \/ ~Alone(l) \/ loop[l].index \in task.chunks)
  /\ Goto(l, "write")
  /\ UNCHANGED <<task, object, files, imports, store, seen, faults>>

\* The list read before the body, with this index added.
Listed(l) == loop[l].snapshot \cup {loop[l].index}

\* ... and writes; then uploaded_bytes is summed over the files, and a missing one
\* fails the call.
ChunkWrite(l) ==
  /\ loop[l].pc = "write"
  /\ dir' = [dir EXCEPT ![loop[l].index] = "whole"]
  /\ IF \A i \in Listed(l) : dir'[i] # "none"
       THEN Goto(l, "update") /\ UNCHANGED store
       ELSE CallFails(l)
  /\ UNCHANGED <<task, object, files, imports, seen, raced, faults>>

ChunkUpdate(l) ==
  /\ loop[l].pc = "update"
  /\ task' = [task EXCEPT !.chunks = Listed(l), !.status = "uploading"]
  /\ raced' = (raced \/ ~Alone(l))
  /\ \/ ChunkAnswered(l, Listed(l), FALSE) /\ UNCHANGED <<store, faults>>
     \/ /\ faults < MaxFaults      \* stored, but the answer is lost
        /\ faults' = faults + 1
        /\ CallFails(l) /\ UNCHANGED seen
  /\ UNCHANGED <<dir, object, files, imports>>

-----------------------------------------------------------------------------
(* complete_task *)

CompleteFind(l) ==
  /\ loop[l].pc = "find"
  /\ IF task.status = "completed"
       THEN CompleteAnswered(l, TRUE)
       ELSE IF Full(task.chunks)
         THEN Goto(l, "queue") /\ UNCHANGED <<store, seen>>
         ELSE CallFails(l) /\ UNCHANGED seen
  /\ raced' = (raced \/ ~Alone(l))
  /\ UNCHANGED <<task, dir, object, files, imports, faults>>

Unused == {j \in ImportIds : imports[j].pc = "none"}

\* The update returns the row as it is now: that row is the import's snapshot.
CompleteQueue(l) ==
  /\ loop[l].pc = "queue" /\ Unused # {}
  /\ task' = [task EXCEPT !.status = "importing"]
  /\ loop' = [loop EXCEPT ![l].pc = "spawn", ![l].snapshot = task.chunks, ![l].file = task.file]
  /\ raced' = (raced \/ ~Alone(l))
  /\ UNCHANGED <<dir, object, files, imports, store, seen, faults>>

\* The operation is logged, and the import starts.
CompleteSpawn(l) ==
  /\ loop[l].pc = "spawn" /\ Unused # {}
  /\ imports' = [imports EXCEPT ![Min(Unused)].pc = "locate",
                                ![Min(Unused)].chunks = loop[l].snapshot,
                                ![Min(Unused)].file = loop[l].file]
  /\ raced' = (raced \/ ~Alone(l))
  /\ \/ /\ TakeOut(l)
        /\ seen' = [completed |-> FALSE, chunks |-> loop[l].snapshot]
        /\ loop' = [loop EXCEPT ![l] = Idle]
        /\ UNCHANGED faults
     \/ /\ faults < MaxFaults      \* started, but the answer is lost
        /\ faults' = faults + 1
        /\ CallFails(l) /\ UNCHANGED seen
  /\ UNCHANGED <<task, dir, object, files>>

\* A database call or a write of a handler fails, or its connection breaks, which drops it
\* where it awaits.
CallFault(l) ==
  /\ loop[l].pc \in CallPc
  /\ faults < MaxFaults
  /\ faults' = faults + 1
  /\ CallFails(l)
  /\ UNCHANGED <<task, dir, object, files, imports, seen, raced>>

-----------------------------------------------------------------------------
(* finish_upload_task_in_background and complete_upload_task *)

Step(j, pc) ==
  imports' = [imports EXCEPT ![j] = IF pc = "done" THEN [NoImport EXCEPT !.pc = "done"]
                                    ELSE [@ EXCEPT !.pc = pc]]

\* An import whose snapshot already has a file finds it and writes nothing; another fails
\* when the bucket is gone or disabled, or marks the task.
ImportLocate(j) ==
  /\ imports[j].pc = "locate"
  /\ IF imports[j].file # 0
       THEN Step(j, "done") /\ UNCHANGED task
       ELSE \/ Step(j, "fail") /\ UNCHANGED task
            \/ Step(j, "hash") /\ task' = [task EXCEPT !.status = "importing"]
  /\ UNCHANGED <<dir, object, files, store, seen, loop, raced, faults>>

\* What an import reads: the chunks its snapshot lists, if all of them are there.
AllThere(j) == \A i \in imports[j].chunks : dir[i] # "none"
Read(j) ==
  IF Full(imports[j].chunks) /\ \A i \in Chunk : dir[i] = "whole" THEN "whole" ELSE "damaged"

ImportHash(j) ==
  /\ imports[j].pc = "hash"
  /\ IF AllThere(j)
       THEN imports' = [imports EXCEPT ![j].pc = "put", ![j].hash = Read(j)]
       ELSE Step(j, "fail")
  /\ UNCHANGED <<task, dir, object, files, store, seen, loop, raced, faults>>

\* put_local_files creates (and so truncates) the object before it copies, and a write
\* that fails leaves what it wrote; the object of a multipart upload changes when it
\* completes.
Spoilt == {object, "damaged"}

\* Mutant: an error of put_object_from_files is dropped.
ImportPutUnchecked(j) ==
  /\ imports[j].pc = "put"
  /\ Step(j, "copy") \/ Step(j, "insert")
  /\ object' \in Spoilt
  /\ UNCHANGED <<task, dir, files, store, seen, loop, raced, faults>>

ImportPut(j) ==
  /\ imports[j].pc = "put"
  /\ Step(j, "copy") \/ Step(j, "fail")
  /\ object' \in Spoilt
  /\ UNCHANGED <<task, dir, files, store, seen, loop, raced, faults>>

ImportCopy(j) ==
  /\ imports[j].pc = "copy"
  /\ IF AllThere(j)
       THEN object' = Read(j) /\ Step(j, "insert")
       ELSE object' \in Spoilt /\ Step(j, "fail")
  /\ UNCHANGED <<task, dir, files, store, seen, loop, raced, faults>>

ImportInsert(j) ==
  /\ imports[j].pc = "insert"
  /\ files' = [files EXCEPT ![j] = imports[j].hash]
  /\ imports' = [imports EXCEPT ![j] = [NoImport EXCEPT !.pc = "complete"]]
  /\ UNCHANGED <<task, dir, object, store, seen, loop, raced, faults>>

\* ensure_access_url, then the update; only a failure tells the two apart (ImportFault).
ImportComplete(j) ==
  /\ imports[j].pc = "complete"
  /\ task' = [task EXCEPT !.status = "completed", !.file = j]
  /\ Step(j, "clean")
  /\ UNCHANGED <<dir, object, files, store, seen, loop, raced, faults>>

\* remove_task_dir
ImportClean(j) ==
  /\ imports[j].pc = "clean"
  /\ dir' = [i \in Chunk |-> "none"]
  /\ Step(j, "done")
  /\ UNCHANGED <<task, object, files, store, seen, loop, raced, faults>>

\* Mutant: a failed import writes a status no reader knows.
ImportFailError(j) ==
  /\ imports[j].pc = "fail"
  /\ task' = [task EXCEPT !.status = "error"]
  /\ Step(j, "done")
  /\ UNCHANGED <<dir, object, files, store, seen, loop, raced, faults>>

\* Mutant: a failed import removes the chunk files as a completed one does.
ImportFailCleans(j) ==
  /\ imports[j].pc = "fail"
  /\ task' = [task EXCEPT !.status = "failed"]
  /\ dir' = [i \in Chunk |-> "none"]
  /\ Step(j, "done")
  /\ UNCHANGED <<object, files, store, seen, loop, raced, faults>>

\* Mutant: a failed import is only logged.
ImportFailLogs(j) ==
  /\ imports[j].pc = "fail"
  /\ Step(j, "done")
  /\ UNCHANGED <<task, dir, object, files, store, seen, loop, raced, faults>>

\* Whatever the row says by now, it is marked failed.
ImportFail(j) ==
  /\ imports[j].pc = "fail"
  /\ task' = [task EXCEPT !.status = "failed"]
  /\ Step(j, "done")
  /\ UNCHANGED <<dir, object, files, store, seen, loop, raced, faults>>

\* A database call of the import fails; the last one, which records the failure, is
\* not tried again.
ImportFault(j) ==
  /\ imports[j].pc \in {"locate", "insert", "complete", "fail"}
  /\ faults < MaxFaults
  /\ faults' = faults + 1
  /\ Step(j, IF imports[j].pc = "fail" THEN "done" ELSE "fail")
  /\ UNCHANGED <<task, dir, object, files, store, seen, loop, raced>>

-----------------------------------------------------------------------------
(* The backend dies: imports are gone, every call in flight fails. *)
Crash ==
  /\ faults < MaxFaults
  /\ faults' = faults + 1
  /\ imports' = [j \in ImportIds |-> IF imports[j].pc = "none" THEN NoImport
                                     ELSE [NoImport EXCEPT !.pc = "done"]]
  /\ loop' = [l \in Loops |-> IF InFlight(l) THEN Idle ELSE loop[l]]
  /\ store' = IF \E l \in Loops : InFlight(l) /\ ~loop[l].button THEN "none" ELSE store
  /\ UNCHANGED <<task, dir, object, files, seen, raced>>

LoopStep(l) ==
  \/ SendChunk(l) \/ LeaveLoop(l)
  \/ ChunkRead(l) \/ ChunkTruncate(l) \/ ChunkWrite(l) \/ ChunkUpdate(l)
  \/ CompleteFind(l) \/ CompleteQueue(l) \/ CompleteSpawn(l)

ImportStep(j) ==
  \/ ImportLocate(j) \/ ImportHash(j) \/ ImportPut(j) \/ ImportCopy(j)
  \/ ImportInsert(j) \/ ImportComplete(j) \/ ImportClean(j) \/ ImportFail(j)

Next ==
  \/ Pause \/ Crash
  \/ \E l \in Loops : CreateTask(l) \/ Resume(l) \/ ClickImport(l) \/ LoopStep(l) \/ CallFault(l)
  \/ \E j \in ImportIds : ImportStep(j) \/ ImportFault(j)

Spec == Init /\ [][Next]_vars

-----------------------------------------------------------------------------
(* Properties *)

\* A chunk the row lists is on disk until an import has handed its file to the row: a
\* failed or interrupted import can always be retried from what was uploaded.
ListedOnDisk ==
  task.file = 0 => \A i \in task.chunks : dir[i] # "none"

\* When the calls on a task never met and no listed chunk was rewritten, a completed
\* task names a file whose object is the whole upload and whose sha256 is that of the
\* object, through every crash, failed import and retry.
CompletedIsWhole ==
  task.status = "completed" /\ ~raced =>
    task.file # 0 /\ files[task.file] = "whole" /\ object = "whole"

\* When no calls met, a tab that shows the upload as running has a loop that works on
\* it: the buttons that could continue it are hidden meanwhile.
RunningTabWorks ==
  store = "active" /\ ~raced => \E l \in Loops : loop[l].pc # "idle"

\* Without a fault and without calls that met, a task that says importing has an import
\* under way or about to start, which ends in completed or failed: the result the tab
\* promises to show.
ImportingHasImport ==
  task.status = "importing" /\ ~raced /\ faults = 0 => Importing \/ Queued
=============================================================================
