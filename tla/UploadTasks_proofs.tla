-------------------------- MODULE UploadTasks_proofs --------------------------
(***************************************************************************)
(* What holds of an upload task for any number of chunks, of calls in the  *)
(* tab and of imports, with crashes, failed calls and lost answers         *)
(* anywhere.                                                               *)
(***************************************************************************)
EXTENDS UploadTasks, TLAPS, FiniteSetTheorems

-----------------------------------------------------------------------------
(* The inductive invariant *)

Sending == {"read", "body", "write", "update"}
Past(l) == loop[l].pc \in {"body", "write", "update", "queue", "spawn"}
Active(j) == imports[j].pc \notin {"none", "done"}

\* A loop has sent every chunk before the one it is at.
InOrder(l) ==
  /\ loop[l].pc \in Sending => loop[l].index \in Chunk
  /\ loop[l].pc \in Sending \cup {"next"} => \A i \in Chunk : i < loop[l].index => i \in loop[l].uploaded

\* Chunk files are removed for a task that has its file, and a call adds the chunks it
\* has seen on disk.
OnDisk ==
  /\ ListedOnDisk
  /\ \A j \in ImportIds : imports[j].pc = "clean" => task.file # 0
  /\ \A l \in Loops : loop[l].pc = "update" /\ task.file = 0 => \A i \in Listed(l) : dir[i] # "none"

(* As long as no calls met: *)

\* What a call has read of the task is still so, and nothing else works on the task.
Alike(l) ==
  /\ Past(l) => /\ ~Importing /\ task.status # "completed"
                /\ \A m \in Loops : Past(m) => m = l
  /\ loop[l].pc \in {"body", "write", "update"} => loop[l].snapshot = task.chunks
  /\ loop[l].pc = "write" => loop[l].index \notin task.chunks
  /\ loop[l].pc = "update" => dir[loop[l].index] = "whole"
  /\ loop[l].pc \in {"queue", "spawn"} => Full(task.chunks)
  /\ loop[l].pc = "spawn" => Full(loop[l].snapshot) /\ loop[l].file = 0
  /\ loop[l].uploaded \subseteq loop[l].answer
  /\ loop[l].uploaded \subseteq task.chunks

\* The task has a file exactly if it is completed, and the chunk files until then.
Kept ==
  /\ task.status = "completed" <=> task.file # 0
  /\ task.status = "completed" => Full(task.chunks)
  /\ task.file = 0 => \A i \in task.chunks : dir[i] = "whole"
  /\ seen.chunks \subseteq task.chunks

\* An import is the only one and reads a whole file.
Single(j) ==
  Active(j) =>
    /\ \A k \in ImportIds : Active(k) => k = j
    /\ Full(task.chunks)
    /\ imports[j].pc = "clean" <=> task.status = "completed"
    /\ imports[j].pc \in {"locate", "hash", "put", "copy"} =>
         Full(imports[j].chunks) /\ imports[j].file = 0
    /\ imports[j].pc \in {"put", "copy", "insert"} => imports[j].hash = "whole"
    /\ imports[j].pc = "complete" => files[j] = "whole"
    /\ imports[j].pc \in {"insert", "complete"} => object = "whole"

\* An upload the tab shows as running has a loop that startChunkUpload runs.
Works == store = "active" => \E l \in Loops : loop[l].pc # "idle" /\ ~loop[l].button

Calm ==
  /\ \A l \in Loops : Alike(l)
  /\ Kept
  /\ \A j \in ImportIds : Single(j)
  /\ CompletedIsWhole /\ Works /\ ImportingHasImport

Inv ==
  /\ TypeOK
  /\ \A l \in Loops : InOrder(l)
  /\ OnDisk
  /\ ~raced => Calm

-----------------------------------------------------------------------------
(* Helpers *)

\* Any set of naturals that has a member has a least one.
LEMMA Least ==
  ASSUME NEW T, T \subseteq Nat, T # {}
  PROVE  \E x \in T : \A y \in T : x <= y
<1> DEFINE U == {1 .. x : x \in T}
           R == StrictSubsetOrdering(Nat)
<1>1. U \subseteq FiniteSubsetsOf(Nat) /\ U # {}
  <2>1. \A x \in T : 1 .. x \in SUBSET Nat /\ IsFiniteSet(1 .. x)
    BY FS_Interval
  <2> QED
    BY <2>1 DEF FiniteSubsetsOf
<1>2. \E I \in U : \A J \in U : <<J, I>> \notin R
  <2> HIDE DEF U, R
  <2>1. IsWellFoundedOn(R, FiniteSubsetsOf(Nat))
    BY FS_StrictSubsetOrderingWellFounded DEF R
  <2> QED
    BY <1>1, <2>1, WFMin
<1>3. PICK x \in T : \A y \in T : <<1 .. y, 1 .. x>> \notin R
  BY <1>2
<1>4. ASSUME NEW y \in T, y < x PROVE FALSE
  <2>1. 1 .. y \subseteq 1 .. x /\ x \in 1 .. x /\ x \notin 1 .. y
    BY <1>4
  <2>2. 1 .. y # 1 .. x /\ 1 .. y \in SUBSET Nat /\ 1 .. x \in SUBSET Nat
    BY <2>1
  <2>3. <<1 .. y, 1 .. x>> \in R
    BY <2>1, <2>2 DEF StrictSubsetOrdering
  <2> QED
    BY <1>3, <2>3
<1> QED
  BY <1>4

LEMMA MinOf ==
  ASSUME NEW T, T \subseteq Nat, T # {}
  PROVE  Min(T) \in T /\ \A y \in T : Min(T) <= y
BY Least DEF Min

TaskSet == [status : TaskStatus, chunks : SUBSET Chunk, file : {0} \cup ImportIds]
ImportSet == [pc : ImportPc, chunks : SUBSET Chunk, file : {0} \cup ImportIds, hash : Bytes]
LoopSet == [pc : LoopPc, button : BOOLEAN, index : 0 .. Total, uploaded : SUBSET Chunk,
            answer : SUBSET Chunk, snapshot : SUBSET Chunk, file : {0} \cup ImportIds]
SeenSet == [completed : BOOLEAN, chunks : SUBSET Chunk]

Typed ==
  /\ task \in TaskSet
  /\ dir \in [Chunk -> Part]
  /\ object \in Bytes
  /\ files \in [ImportIds -> Bytes]
  /\ imports \in [ImportIds -> ImportSet]
  /\ store \in {"none", "active", "paused"}
  /\ seen \in SeenSet
  /\ loop \in [Loops -> LoopSet]
  /\ raced \in BOOLEAN
  /\ faults \in 0 .. MaxFaults

LEMMA TypeParts == (TypeOK => Typed) /\ (Typed' => TypeOK')
BY DEF TypeOK, Typed, TaskSet, ImportSet, LoopSet, SeenSet

LEMMA IdleType ==
  /\ Idle \in LoopSet /\ Idle.pc = "idle" /\ Idle.uploaded = {} /\ Idle.answer = {} /\ Idle.index = 0
  /\ Idle.button = FALSE
  /\ NoImport \in ImportSet /\ NoImport.pc = "none"
  /\ [NoImport EXCEPT !.pc = "done"] \in ImportSet /\ [NoImport EXCEPT !.pc = "done"].pc = "done"
BY ConstantsAssumption
DEF Idle, LoopSet, LoopPc, CallPc, NoImport, ImportSet, ImportPc, Bytes, Chunk

LEMMA RowType ==
  ASSUME TypeOK
  PROVE  Row \in SeenSet /\ Row.chunks = task.chunks
BY TypeParts DEF Typed, Row, SeenSet, TaskSet

\* A step that replaces one loop, or one import.
LEMMA OneLoop ==
  ASSUME TypeOK, NEW l \in Loops, NEW v \in LoopSet, loop' = [loop EXCEPT ![l] = v]
  PROVE  /\ loop' \in [Loops -> LoopSet]
         /\ loop'[l] = v
         /\ \A m \in Loops : m # l => loop'[m] = loop[m]
BY TypeParts DEF Typed

LEMMA OneImport ==
  ASSUME TypeOK, NEW j \in ImportIds, NEW v \in ImportSet, imports' = [imports EXCEPT ![j] = v]
  PROVE  /\ imports' \in [ImportIds -> ImportSet]
         /\ imports'[j] = v
         /\ \A k \in ImportIds : k # j => imports'[k] = imports[k]
BY TypeParts DEF Typed

LEMMA ActiveIsImporting == Importing <=> \E j \in ImportIds : Active(j)
BY DEF Importing, Active

LEMMA AloneHere ==
  ASSUME NEW l \in Loops, Alone(l)
  PROVE  ~Importing /\ \A m \in Loops : m # l => ~Past(m)
BY DEF Alone, InFlight, Past, CallPc

-----------------------------------------------------------------------------
(* The initial states *)

LEMMA InvInit == Init => Inv
<1> SUFFICES ASSUME Init PROVE Inv
  OBVIOUS
<1>1. TypeOK
  <2>1. task \in TaskSet
    BY DEF Init, TaskSet, TaskStatus
  <2>2. imports \in [ImportIds -> ImportSet] /\ loop \in [Loops -> LoopSet]
    BY IdleType DEF Init
  <2>3. seen \in SeenSet
    BY <2>1 DEF Init, Row, SeenSet, TaskSet
  <2>4. dir \in [Chunk -> Part] /\ object \in Bytes /\ files \in [ImportIds -> Bytes]
    BY DEF Init, Part, Bytes
  <2>5. store \in {"none", "active", "paused"} /\ faults \in 0 .. MaxFaults
    BY ConstantsAssumption DEF Init
  <2>6. raced \in BOOLEAN
    BY Zenon DEF Init
  <2> QED BY <2>1, <2>2, <2>3, <2>4, <2>5, <2>6 DEF TypeOK, TaskSet, ImportSet, LoopSet, SeenSet
<1>2. /\ task.status = "none" /\ task.chunks = {} /\ task.file = 0 /\ seen.chunks = {}
      /\ store = "none"
      /\ \A l \in Loops : loop[l] = Idle
      /\ \A j \in ImportIds : imports[j].pc = "none"
  BY DEF Init, Row, NoImport
<1>3. ASSUME NEW l \in Loops PROVE InOrder(l) /\ Alike(l)
  BY <1>2, IdleType DEF InOrder, Sending, Alike, Past
<1>4. OnDisk
  BY <1>2, IdleType DEF OnDisk, ListedOnDisk
<1>5. Kept /\ CompletedIsWhole /\ Works /\ ImportingHasImport
  BY <1>2 DEF Kept, CompletedIsWhole, Works, ImportingHasImport
<1>6. ASSUME NEW j \in ImportIds PROVE Single(j)
  BY <1>2 DEF Single, Active
<1> QED BY <1>1, <1>3, <1>4, <1>5, <1>6 DEF Inv, Calm

-----------------------------------------------------------------------------
(* What a step leaves alone *)

\* The row keeps its chunks and its file, and is completed if it was.
TaskSame ==
  /\ task' \in TaskSet /\ task'.chunks = task.chunks /\ task'.file = task.file
  /\ task'.status = "completed" <=> task.status = "completed"

\* No chunk file is removed or damaged.
DirGrows ==
  /\ dir' \in [Chunk -> Part]
  /\ \A i \in Chunk : (dir[i] # "none" => dir'[i] # "none") /\ (dir[i] = "whole" => dir'[i] = "whole")

LEMMA InOrderKept ==
  ASSUME NEW m \in Loops, InOrder(m), loop'[m] = loop[m]
  PROVE  InOrder(m)'
BY DEF InOrder

\* A loop that does not move, when the chunks listed become more or its own call forbids it.
LEMMA AlikeKept ==
  ASSUME TypeOK, NEW m \in Loops, InOrder(m), Alike(m), loop'[m] = loop[m],
         task.chunks \subseteq task'.chunks,
         loop[m].pc = "update" => dir'[loop[m].index] = dir[loop[m].index],
         Past(m) => /\ ~Importing' /\ task'.status # "completed" /\ task'.chunks = task.chunks
                    /\ \A k \in Loops : Past(k)' => Past(k)
  PROVE  Alike(m)'
<1>1. Past(m)' <=> Past(m)
  BY DEF Past
<1>2. (Past(m) => /\ ~Importing /\ task.status # "completed"
                  /\ \A k \in Loops : Past(k) => k = m)'
  BY <1>1 DEF Alike
<1>3. loop[m].pc \in {"body", "write", "update"} =>
        loop'[m].snapshot = task'.chunks /\ (loop[m].pc = "write" => loop'[m].index \notin task'.chunks)
  BY DEF Alike, Past
<1>4. (loop[m].pc = "update" => dir[loop[m].index] = "whole")'
  BY DEF Alike
<1>5. /\ (loop[m].pc \in {"queue", "spawn"} => Full(task.chunks))'
      /\ (loop[m].pc = "spawn" => Full(loop[m].snapshot) /\ loop[m].file = 0)'
  BY DEF Alike, Past, Full
<1>6. (loop[m].uploaded \subseteq loop[m].answer /\ loop[m].uploaded \subseteq task.chunks)'
  BY DEF Alike
<1> QED BY <1>2, <1>3, <1>4, <1>5, <1>6 DEF Alike

\* A step of the tab that leaves it with no call past its first read.
LEMMA TabMoves ==
  ASSUME Inv, NEW l \in Loops, NEW v \in LoopSet, loop' = [loop EXCEPT ![l] = v],
         v.pc \in {"idle", "next", "read", "find"},
         v.pc = "read" => v.index \in Chunk,
         v.pc \in {"next", "read"} => \A i \in Chunk : i < v.index => i \in v.uploaded,
         TaskSame, DirGrows, UNCHANGED <<object, files, imports>>,
         store' \in {"none", "active", "paused"}, seen' \in SeenSet,
         raced' \in BOOLEAN, ~raced' => ~raced,
         faults' \in 0 .. MaxFaults, faults' = 0 => faults = 0,
         task'.status = "importing" => task.status = "importing",
         loop[l].pc = "spawn" => faults' # 0,
         ~raced' => /\ v.uploaded \subseteq v.answer /\ v.uploaded \subseteq task.chunks
                    /\ seen'.chunks \subseteq task.chunks
                    /\ store' = "active" => \/ v.pc # "idle" /\ ~v.button
                                            \/ store = "active" /\ loop[l].button
  PROVE  Inv'
<1>1. loop' \in [Loops -> LoopSet] /\ loop'[l] = v /\ \A m \in Loops : m # l => loop'[m] = loop[m]
  BY OneLoop DEF Inv
<1>2. TypeOK'
  BY <1>1, TypeParts DEF Typed, Inv, TaskSame, DirGrows
<1>3. ASSUME NEW m \in Loops PROVE InOrder(m)'
  BY <1>1, InOrderKept DEF Inv, InOrder, Sending
<1>4. OnDisk'
  <2>1. ListedOnDisk'
    BY TypeParts DEF Typed, TaskSet, Inv, OnDisk, ListedOnDisk, TaskSame, DirGrows
  <2>2. ASSUME NEW m \in Loops, loop'[m].pc = "update", task'.file = 0
        PROVE  \A i \in Listed(m)' : dir'[i] # "none"
    <3>1. m # l /\ loop'[m] = loop[m]
      BY <1>1, <2>2
    <3>2. Listed(m)' = Listed(m) /\ Listed(m) \subseteq Chunk
      BY <2>2, <3>1, TypeParts DEF Typed, Inv, Listed, LoopSet, InOrder, Sending
    <3> QED BY <2>2, <3>1, <3>2 DEF Inv, OnDisk, TaskSame, DirGrows
  <2> QED BY <2>1, <2>2 DEF Inv, OnDisk, TaskSame
<1>5. ASSUME ~raced' PROVE Calm'
  <2>1. Calm
    BY <1>5 DEF Inv
  <2>2. Importing' <=> Importing
    BY DEF Importing
  <2>3. \A k \in Loops : Past(k)' => Past(k)
    BY <1>1 DEF Past
  <2>4. ASSUME NEW m \in Loops PROVE Alike(m)'
    <3>1. CASE m = l
      BY <1>1, <1>5, <3>1 DEF Alike, Past, TaskSame
    <3>2. CASE m # l
      <4>1. loop[m].pc = "update" => loop[m].index \in Chunk
        BY DEF Inv, InOrder, Sending
      <4>2. loop[m].pc = "update" => dir[loop[m].index] = "whole"
        BY <2>1 DEF Calm, Alike
      <4>3. loop[m].pc = "update" => dir'[loop[m].index] = dir[loop[m].index]
        BY <4>1, <4>2 DEF DirGrows
      <4>4. Alike(m)
        BY <2>1 DEF Calm
      <4>5. Past(m) => ~Importing' /\ task'.status # "completed" /\ task'.chunks = task.chunks
        BY <2>2, <4>4 DEF Alike, TaskSame
      <4> QED BY <1>1, <2>3, <3>2, <4>3, <4>4, <4>5, AlikeKept DEF Inv, TaskSame
    <3> QED BY <3>1, <3>2
  <2>5. Kept'
    BY <1>5, <2>1, TypeParts DEF Typed, TaskSet, Inv, Calm, Kept, TaskSame, DirGrows, Full
  <2>6. ASSUME NEW j \in ImportIds PROVE Single(j)'
    BY <2>1 DEF Calm, Single, Active, TaskSame, Full
  <2>7. CompletedIsWhole'
    BY <1>5, <2>1 DEF Inv, Calm, CompletedIsWhole, TaskSame
  <2>8. Works'
    BY <1>1, <1>5, <2>1 DEF Calm, Works
  <2>9. ImportingHasImport'
    BY <1>1, <1>5, <2>1, <2>2 DEF Calm, ImportingHasImport, Queued
  <2> QED BY <2>4, <2>5, <2>6, <2>7, <2>8, <2>9 DEF Calm
<1> QED BY <1>2, <1>3, <1>4, <1>5 DEF Inv

\* A step after which a call is past its first read: it is alone with the task, or calls met.
LEMMA CallMoves ==
  ASSUME Inv, NEW l \in Loops, NEW v \in LoopSet, loop' = [loop EXCEPT ![l] = v],
         v.pc \in {"body", "write", "update", "queue"},
         loop[l].pc \notin {"idle", "spawn"}, v.button = loop[l].button,
         v.pc # "queue" => v.index \in Chunk /\ \A i \in Chunk : i < v.index => i \in v.uploaded,
         UNCHANGED <<task, object, files, imports, store, seen, faults>>,
         dir' \in [Chunk -> Part], \A i \in Chunk : dir[i] # "none" => dir'[i] # "none",
         v.pc = "update" => \A i \in v.snapshot \cup {v.index} : dir'[i] # "none",
         raced' \in BOOLEAN, ~raced' => ~raced,
         ~raced' =>
           /\ Past(l) \/ Alone(l)
           /\ task.status # "completed"
           /\ v.pc # "queue" => v.snapshot = task.chunks
           /\ v.pc = "queue" => Full(task.chunks)
           /\ v.pc = "write" => v.index \notin task.chunks
           /\ v.pc = "update" => dir'[v.index] = "whole"
           /\ v.uploaded \subseteq v.answer /\ v.uploaded \subseteq task.chunks
           /\ \A i \in task.chunks : dir'[i] = dir[i]
  PROVE  Inv'
<1>1. loop' \in [Loops -> LoopSet] /\ loop'[l] = v /\ \A m \in Loops : m # l => loop'[m] = loop[m]
  BY OneLoop DEF Inv
<1>2. TypeOK'
  BY <1>1, TypeParts DEF Typed, Inv
<1>3. ASSUME NEW m \in Loops PROVE InOrder(m)'
  BY <1>1, InOrderKept DEF Inv, InOrder, Sending
<1>4. OnDisk'
  <2>1. ListedOnDisk'
    BY TypeParts DEF Typed, TaskSet, Inv, OnDisk, ListedOnDisk
  <2>2. ASSUME NEW m \in Loops, loop'[m].pc = "update", task'.file = 0
        PROVE  \A i \in Listed(m)' : dir'[i] # "none"
    <3>1. CASE m = l
      BY <1>1, <2>2, <3>1 DEF Listed
    <3>2. CASE m # l
      <4>1. Listed(m)' = Listed(m) /\ Listed(m) \subseteq Chunk
        BY <1>1, <2>2, <3>2, TypeParts DEF Typed, Inv, Listed, LoopSet, InOrder, Sending
      <4> QED BY <1>1, <2>2, <3>2, <4>1 DEF Inv, OnDisk
    <3> QED BY <3>1, <3>2
  <2> QED BY <2>1, <2>2 DEF Inv, OnDisk
<1>5. ASSUME ~raced' PROVE Calm'
  <2>1. Calm
    BY <1>5 DEF Inv
  <2>2. ~Importing /\ \A m \in Loops : m # l => ~Past(m)
    BY <1>5, <2>1, AloneHere DEF Calm, Alike
  <2>3. Importing' <=> Importing
    BY DEF Importing
  <2>4. \A k \in Loops : Past(k)' => k = l
    BY <1>1, <2>2 DEF Past
  <2>5. ASSUME NEW m \in Loops PROVE Alike(m)'
    <3>1. CASE m = l
      BY <1>1, <1>5, <2>2, <2>3, <2>4, <3>1 DEF Alike, Full
    <3>2. CASE m # l
      <4>1. Alike(m) /\ ~Past(m) /\ loop[m].pc # "update"
        BY <2>1, <2>2, <3>2 DEF Calm, Past
      <4> QED BY <1>1, <3>2, <4>1, AlikeKept DEF Inv
    <3> QED BY <3>1, <3>2
  <2>6. Kept'
    BY <1>5, <2>1 DEF Calm, Kept, Full
  <2>7. ASSUME NEW j \in ImportIds PROVE Single(j)'
    BY <2>1 DEF Calm, Single, Active, Full
  <2>8. CompletedIsWhole'
    BY <1>5, <2>1 DEF Inv, Calm, CompletedIsWhole
  <2>9. Works'
    BY <1>1, <2>1 DEF Calm, Works
  <2>10. ImportingHasImport'
    BY <1>1, <1>5, <2>1, <2>3 DEF Calm, ImportingHasImport, Queued
  <2> QED BY <2>5, <2>6, <2>7, <2>8, <2>9, <2>10 DEF Calm
<1> QED BY <1>2, <1>3, <1>4, <1>5 DEF Inv

\* A step of an import: what it makes of itself, of the row and of what is stored.
LEMMA ImportMoves ==
  ASSUME Inv, NEW j \in ImportIds, Active(j), NEW v \in ImportSet,
         imports' = [imports EXCEPT ![j] = v], v.pc # "none",
         UNCHANGED <<store, seen, loop, raced>>,
         task' \in TaskSet, task'.chunks = task.chunks, task.file # 0 => task'.file # 0,
         dir' \in [Chunk -> Part], task'.file = 0 => dir' = dir,
         object' \in Bytes, files' \in [ImportIds -> Bytes],
         faults' \in 0 .. MaxFaults, faults' = 0 => faults = 0,
         v.pc = "clean" => task'.file # 0,
         ~raced =>
           /\ task'.status = "completed" <=> task'.file # 0
           /\ v.pc # "done" =>
                /\ v.pc = "clean" <=> task'.status = "completed"
                /\ v.pc \in {"locate", "hash", "put", "copy"} => Full(v.chunks) /\ v.file = 0
                /\ v.pc \in {"put", "copy", "insert"} => v.hash = "whole"
                /\ v.pc = "complete" => files'[j] = "whole"
                /\ v.pc \in {"insert", "complete"} => object' = "whole"
           /\ task'.status = "completed" => files'[task'.file] = "whole" /\ object' = "whole"
           /\ task'.status = "importing" /\ faults' = 0 => v.pc # "done"
  PROVE  Inv'
<1>1. /\ imports' \in [ImportIds -> ImportSet] /\ imports'[j] = v
      /\ \A k \in ImportIds : k # j => imports'[k] = imports[k]
  BY OneImport DEF Inv
<1>2. TypeOK'
  BY <1>1, TypeParts DEF Typed, Inv
<1>3. ASSUME NEW m \in Loops PROVE InOrder(m)'
  BY InOrderKept DEF Inv
<1>4. OnDisk'
  <2>1. task'.file = 0 => task.file = 0 /\ dir' = dir
    OBVIOUS
  <2>2. \A m \in Loops : Listed(m)' = Listed(m)
    BY DEF Listed
  <2> QED BY <1>1, <2>1, <2>2 DEF Inv, OnDisk, ListedOnDisk
<1>5. ASSUME ~raced' PROVE Calm'
  <2>1. Calm /\ Importing /\ ~raced
    BY <1>5, ActiveIsImporting DEF Inv
  <2>2. \A m \in Loops : ~Past(m)
    BY <2>1 DEF Calm, Alike
  <2>3. ASSUME NEW m \in Loops PROVE Alike(m)'
    <3>1. Alike(m) /\ ~Past(m) /\ loop[m].pc # "update"
      BY <2>1, <2>2 DEF Calm, Past
    <3> QED BY <3>1, AlikeKept DEF Inv
  <2>4. /\ \A k \in ImportIds : Active(k) => k = j
        /\ Full(task.chunks)
    BY <2>1 DEF Calm, Single
  <2>5. \A k \in ImportIds : Active(k)' => k = j
    BY <1>1, <2>4 DEF Active
  <2>6. Full(task.chunks)'
    BY <2>4 DEF Full
  <2>7. Kept'
    BY <2>1, <2>6 DEF Calm, Kept
  <2>8. ASSUME NEW k \in ImportIds PROVE Single(k)'
    <3>1. SUFFICES ASSUME Active(k)' PROVE k = j /\ Single(j)'
      BY DEF Single
    <3>2. k = j /\ v.pc # "done"
      BY <1>1, <2>5, <3>1 DEF Active
    <3> QED BY <1>1, <2>1, <2>5, <2>6, <3>2 DEF Single, Full
  <2>9. CompletedIsWhole'
    BY <2>1 DEF CompletedIsWhole
  <2>10. Works'
    BY <2>1 DEF Calm, Works
  <2>11. ImportingHasImport'
    BY <1>1, <2>1 DEF ImportingHasImport, Importing
  <2> QED BY <2>3, <2>7, <2>8, <2>9, <2>10, <2>11 DEF Calm
<1> QED BY <1>2, <1>3, <1>4, <1>5 DEF Inv

-----------------------------------------------------------------------------
(* The tab *)

LEMMA DirSame ==
  ASSUME TypeOK, UNCHANGED dir
  PROVE  DirGrows
BY TypeParts DEF Typed, DirGrows

LEMMA TaskUnchanged ==
  ASSUME TypeOK, UNCHANGED task
  PROVE  TaskSame
BY TypeParts DEF Typed, TaskSame

LEMMA RacedKept ==
  ASSUME TypeOK, UNCHANGED raced
  PROVE  raced' \in BOOLEAN /\ (~raced' => ~raced)
BY TypeParts DEF Typed

\* What BeginLoop makes of a loop.
Begun(chunks) == [Idle EXCEPT !.pc = "next", !.uploaded = chunks, !.answer = chunks]

LEMMA BegunType ==
  ASSUME NEW chunks \in SUBSET Chunk
  PROVE  /\ Begun(chunks) \in LoopSet /\ Begun(chunks).pc = "next" /\ Begun(chunks).index = 0
         /\ Begun(chunks).uploaded = chunks /\ Begun(chunks).answer = chunks
         /\ Begun(chunks).button = FALSE
<1>1. Idle \in LoopSet /\ Idle.index = 0 /\ Idle.button = FALSE
  BY IdleType
<1> QED BY <1>1 DEF Begun, LoopSet, LoopPc

LEMMA FaultCounted ==
  ASSUME TypeOK, faults < MaxFaults, faults' = faults + 1
  PROVE  faults' \in 0 .. MaxFaults /\ faults' # 0
BY ConstantsAssumption, TypeParts DEF Typed

LEMMA FaultsKept ==
  ASSUME TypeOK, UNCHANGED faults
  PROVE  faults' \in 0 .. MaxFaults /\ (faults' = 0 => faults = 0)
BY TypeParts DEF Typed

\* The chunks the tab knows of are listed as long as no calls met.
LEMMA ViewListed ==
  ASSUME Inv, NEW view \in {seen, Row}
  PROVE  view \in SeenSet /\ (~raced => view.chunks \subseteq task.chunks)
BY RowType, TypeParts DEF Typed, Inv, Calm, Kept

\* Only the fields of the tab change.
LEMMA Unnoticed ==
  ASSUME Inv, UNCHANGED <<dir, object, files, imports, loop, raced, seen>>, TaskSame,
         task'.status = "importing" => task.status = "importing",
         store' \in {"none", "active", "paused"}, store' = "active" => store = "active",
         faults' \in 0 .. MaxFaults, faults' = 0 => faults = 0
  PROVE  Inv'
<1>1. TypeOK'
  BY TypeParts DEF Typed, Inv, TaskSame
<1>2. ASSUME NEW m \in Loops PROVE InOrder(m)'
  BY InOrderKept DEF Inv
<1>3. OnDisk'
  BY DEF Inv, OnDisk, ListedOnDisk, Listed, TaskSame
<1>4. ASSUME ~raced' PROVE Calm'
  <2>1. Calm
    BY <1>4 DEF Inv
  <2>2. Importing' <=> Importing
    BY DEF Importing
  <2>3. ASSUME NEW m \in Loops PROVE Alike(m)'
    <3>1. Alike(m)
      BY <2>1 DEF Calm
    <3>2. \A k \in Loops : Past(k)' => Past(k)
      BY DEF Past
    <3>3. Past(m) => ~Importing' /\ task'.status # "completed" /\ task'.chunks = task.chunks
      BY <2>2, <3>1 DEF Alike, TaskSame
    <3> QED BY <3>1, <3>2, <3>3, AlikeKept DEF Inv, TaskSame
  <2>4. Kept' /\ CompletedIsWhole' /\ Works'
    BY <2>1 DEF Calm, Kept, CompletedIsWhole, Works, TaskSame, Full
  <2>5. ASSUME NEW j \in ImportIds PROVE Single(j)'
    BY <2>1 DEF Calm, Single, Active, TaskSame, Full
  <2>6. ImportingHasImport'
    BY <1>4, <2>1, <2>2 DEF Calm, ImportingHasImport, Queued
  <2> QED BY <2>3, <2>4, <2>5, <2>6 DEF Calm
<1> QED BY <1>1, <1>2, <1>3, <1>4 DEF Inv

LEMMA InvCreateTask ==
  ASSUME Inv, NEW l \in Loops, CreateTask(l)
  PROVE  Inv'
<1>1. task' = [task EXCEPT !.status = "pending"] /\ task.status = "none"
  BY DEF CreateTask
<1>2. TaskSame /\ task'.status = "pending"
  BY <1>1, TypeParts DEF Typed, Inv, TaskSame, TaskSet, TaskStatus
<1>3. DirGrows /\ raced' \in BOOLEAN /\ (~raced' => ~raced) /\ store \in {"none", "active", "paused"}
      /\ seen' \in SeenSet
  BY DirSame, RacedKept, TypeParts DEF Typed, Inv, CreateTask
<1>4. CASE store' = "active" /\ BeginLoop(l, {}) /\ UNCHANGED faults
  <2> DEFINE v == Begun({})
  <2>1. /\ v \in LoopSet /\ v.pc = "next" /\ v.index = 0 /\ v.uploaded = {} /\ v.answer = {}
        /\ v.button = FALSE
    BY BegunType
  <2>2. loop' = [loop EXCEPT ![l] = v]
    BY <1>4 DEF BeginLoop, Begun
  <2> HIDE DEF v
  <2>3. \A i \in Chunk : i >= 0
    BY DEF Chunk
  <2>4. ~raced' => seen'.chunks \subseteq task.chunks
    BY <1>3 DEF CreateTask, Inv, Calm, Kept
  <2>5. faults' \in 0 .. MaxFaults /\ (faults' = 0 => faults = 0)
    BY <1>4, FaultsKept DEF Inv
  <2>6. \A i \in Chunk : ~(i < v.index)
    BY <2>1 DEF Chunk
  <2> QED BY <1>2, <1>3, <1>4, <2>1, <2>2, <2>4, <2>5, <2>6, TabMoves DEF CreateTask
<1>5. CASE faults < MaxFaults /\ faults' = faults + 1 /\ UNCHANGED <<store, loop>>
  BY <1>2, <1>3, <1>5, FaultCounted, Unnoticed DEF CreateTask, Inv
<1> QED BY <1>4, <1>5 DEF CreateTask

LEMMA InvResume ==
  ASSUME Inv, NEW l \in Loops, Resume(l)
  PROVE  Inv'
<1>1. PICK view \in {seen, Row} : seen' = view /\ BeginLoop(l, view.chunks)
  BY DEF Resume
<1>2. view \in SeenSet /\ (~raced => view.chunks \subseteq task.chunks)
  BY <1>1, ViewListed
<1> DEFINE v == Begun(view.chunks)
<1>3. /\ v \in LoopSet /\ v.pc = "next" /\ v.index = 0
      /\ v.uploaded = view.chunks /\ v.answer = view.chunks /\ v.button = FALSE
  BY <1>2, BegunType DEF SeenSet
<1>4. loop' = [loop EXCEPT ![l] = v]
  BY <1>1 DEF BeginLoop, Begun
<1> HIDE DEF v
<1>5. TaskSame /\ DirGrows /\ raced' \in BOOLEAN /\ (~raced' => ~raced)
      /\ faults' \in 0 .. MaxFaults /\ (faults' = 0 => faults = 0)
  BY TaskUnchanged, DirSame, RacedKept, FaultsKept DEF Inv, Resume
<1>6. \A i \in Chunk : ~(i < v.index)
  BY <1>3 DEF Chunk
<1> QED BY <1>1, <1>2, <1>3, <1>4, <1>5, <1>6, TabMoves DEF Resume

LEMMA InvPause ==
  ASSUME Inv, Pause
  PROVE  Inv'
BY TaskUnchanged, FaultsKept, Unnoticed DEF Pause, Inv

\* A loop that only goes somewhere else.
Gone(l, pc) == [loop[l] EXCEPT !.pc = pc]

LEMMA GotoParts ==
  ASSUME TypeOK, NEW l \in Loops, NEW pc \in LoopPc, Goto(l, pc)
  PROVE  /\ loop' = [loop EXCEPT ![l] = Gone(l, pc)]
         /\ Gone(l, pc) \in LoopSet /\ Gone(l, pc).pc = pc
         /\ Gone(l, pc).index = loop[l].index /\ Gone(l, pc).uploaded = loop[l].uploaded
         /\ Gone(l, pc).answer = loop[l].answer /\ Gone(l, pc).snapshot = loop[l].snapshot
         /\ Gone(l, pc).button = loop[l].button
<1>1. loop[l] \in LoopSet
  BY TypeParts DEF Typed
<1>2. loop' = [loop EXCEPT ![l] = Gone(l, pc)]
  BY DEF Goto, Gone
<1>3. /\ Gone(l, pc) \in LoopSet /\ Gone(l, pc).pc = pc
      /\ Gone(l, pc).index = loop[l].index /\ Gone(l, pc).uploaded = loop[l].uploaded
      /\ Gone(l, pc).answer = loop[l].answer /\ Gone(l, pc).snapshot = loop[l].snapshot
      /\ Gone(l, pc).button = loop[l].button
  BY <1>1 DEF Gone, LoopSet
<1> QED BY <1>2, <1>3

\* What a loop has sent was answered and is listed as long as no calls met.
LEMMA SentListed ==
  ASSUME Inv, NEW l \in Loops, ~raced
  PROVE  loop[l].uploaded \subseteq loop[l].answer /\ loop[l].uploaded \subseteq task.chunks
         /\ seen.chunks \subseteq task.chunks
BY DEF Inv, Calm, Alike, Kept

LEMMA InvClickImport ==
  ASSUME Inv, NEW l \in Loops, ClickImport(l)
  PROVE  Inv'
<1> DEFINE v == [Idle EXCEPT !.pc = "find", !.button = TRUE]
<1>1. /\ loop' = [loop EXCEPT ![l] = v] /\ v \in LoopSet /\ v.pc = "find"
      /\ v.uploaded = {} /\ v.answer = {}
  BY IdleType DEF ClickImport, LoopSet, LoopPc, CallPc
<1> HIDE DEF v
<1>2. seen' \in SeenSet /\ (~raced => seen'.chunks \subseteq task.chunks)
  BY ViewListed DEF ClickImport
<1>3. TaskSame /\ DirGrows /\ raced' \in BOOLEAN /\ (~raced' => ~raced)
      /\ faults' \in 0 .. MaxFaults /\ (faults' = 0 => faults = 0)
  BY TaskUnchanged, DirSame, RacedKept, FaultsKept DEF Inv, ClickImport
<1> QED BY <1>1, <1>2, <1>3, SentListed, TabMoves DEF ClickImport

LEMMA InvSendChunk ==
  ASSUME Inv, NEW l \in Loops, SendChunk(l)
  PROVE  Inv'
<1> DEFINE v == [loop[l] EXCEPT !.pc = "read", !.index = Min(Missing(l))]
<1>1. loop[l] \in LoopSet /\ loop[l].pc = "next" /\ Missing(l) # {}
  BY TypeParts DEF Typed, Inv, SendChunk
<1>2. Min(Missing(l)) \in Missing(l) /\ \A i \in Missing(l) : Min(Missing(l)) <= i
  <2>1. Missing(l) \subseteq Nat
    BY <1>1, ConstantsAssumption DEF Missing, LoopSet
  <2> QED BY <1>1, <2>1, MinOf
<1>3. PICK i \in Chunk : i = Min(Missing(l)) /\ i >= loop[l].index
  <2>1. PICK n \in 0 .. Total : n = loop[l].index
    BY <1>1 DEF LoopSet
  <2>2. Min(Missing(l)) \in n .. Total - 1
    BY <1>2, <2>1 DEF Missing
  <2>3. PICK i \in n .. Total - 1 : i = Min(Missing(l))
    BY <2>2
  <2>4. i \in Chunk /\ i >= n
    BY ConstantsAssumption DEF Chunk
  <2> QED BY <2>1, <2>3, <2>4
<1>4. v \in LoopSet /\ v.pc = "read" /\ v.index = i /\ v.button = loop[l].button
      /\ v.uploaded = loop[l].uploaded /\ v.answer = loop[l].answer
  <2>1. i \in 0 .. Total
    BY <1>3, ConstantsAssumption DEF Chunk
  <2> QED BY <1>1, <1>3, <2>1 DEF LoopSet, LoopPc, CallPc
<1>5. loop' = [loop EXCEPT ![l] = v]
  BY DEF SendChunk
<1> HIDE DEF v
<1>6. ASSUME NEW k \in Chunk, k < v.index PROVE k \in v.uploaded
  <2>1. CASE k < loop[l].index
    BY <1>1, <1>4, <2>1 DEF Inv, InOrder
  <2>2. CASE ~(k < loop[l].index) /\ k \notin loop[l].uploaded
    <3>1. k \in Missing(l)
      BY <1>1, <2>2, ConstantsAssumption DEF Missing, Chunk, LoopSet
    <3>2. i <= k
      BY <1>2, <1>3, <3>1
    <3> QED BY <1>3, <1>4, <1>6, <3>2 DEF Chunk
  <2> QED BY <1>4, <2>1, <2>2
<1>7. TaskSame /\ DirGrows /\ raced' \in BOOLEAN /\ (~raced' => ~raced)
      /\ faults' \in 0 .. MaxFaults /\ (faults' = 0 => faults = 0)
  BY TaskUnchanged, DirSame, RacedKept, FaultsKept DEF Inv, SendChunk
<1>8. store \in {"none", "active", "paused"} /\ seen \in SeenSet
  BY TypeParts DEF Typed, Inv
<1>9. loop[l].button \in BOOLEAN
  BY <1>1 DEF LoopSet
<1> QED BY <1>1, <1>3, <1>4, <1>5, <1>6, <1>7, <1>8, <1>9, SentListed, TabMoves DEF SendChunk

\* An upload that runs is not left before its last answer lists every chunk.
LEMMA InvLeaveLoop ==
  ASSUME Inv, NEW l \in Loops, LeaveLoop(l)
  PROVE  Inv'
<1>1. TaskSame /\ DirGrows /\ raced' \in BOOLEAN /\ (~raced' => ~raced)
      /\ faults' \in 0 .. MaxFaults /\ (faults' = 0 => faults = 0)
  BY TaskUnchanged, DirSame, RacedKept, FaultsKept DEF Inv, LeaveLoop
<1>2. store \in {"none", "active", "paused"} /\ seen \in SeenSet
  BY TypeParts DEF Typed, Inv
<1>3. CASE store # "paused" /\ Full(loop[l].answer)
  <2> DEFINE v == [Idle EXCEPT !.pc = "find"]
  <2>1. v \in LoopSet /\ v.pc = "find" /\ v.uploaded = {} /\ v.answer = {} /\ v.button = FALSE
    BY IdleType DEF LoopSet, LoopPc, CallPc
  <2>2. loop' = [loop EXCEPT ![l] = v]
    BY <1>3 DEF LeaveLoop
  <2> HIDE DEF v
  <2> QED BY <1>1, <1>2, <2>1, <2>2, SentListed, TabMoves DEF LeaveLoop
<1>4. CASE ~(store # "paused" /\ Full(loop[l].answer))
  <2>1. loop' = [loop EXCEPT ![l] = Idle]
    BY <1>4 DEF LeaveLoop
  <2>2. ASSUME ~raced, store = "active" PROVE FALSE
    <3>1. loop[l].pc = "next" /\ Missing(l) = {} /\ loop[l] \in LoopSet
      BY <2>2, TypeParts DEF Typed, Inv, LeaveLoop
    <3>2. ASSUME NEW i \in Chunk PROVE i \in loop[l].uploaded
      <4>1. CASE i < loop[l].index
        BY <3>1, <4>1 DEF Inv, InOrder
      <4>2. CASE ~(i < loop[l].index)
        <5>1. i \in loop[l].index .. Total - 1
          BY <3>1, <4>2, ConstantsAssumption DEF Chunk, LoopSet
        <5> QED BY <3>1, <5>1 DEF Missing
      <4> QED BY <4>1, <4>2
    <3>3. Full(loop[l].answer)
      BY <2>2, <3>1, <3>2, SentListed DEF Full, LoopSet
    <3> QED BY <1>4, <2>2, <3>3
  <2> QED BY <1>1, <1>2, <2>1, <2>2, IdleType, SentListed, TabMoves DEF LeaveLoop
<1> QED BY <1>3, <1>4

\* The catch clause: the loop ends and the upload is marked as not running.
LEMMA CallFailsKeeps ==
  ASSUME Inv, NEW l \in Loops, CallFails(l), TaskSame, DirGrows,
         UNCHANGED <<object, files, imports>>, UNCHANGED seen,
         raced' \in BOOLEAN, ~raced' => ~raced,
         faults' \in 0 .. MaxFaults, faults' = 0 => faults = 0,
         task'.status = "importing" => task.status = "importing",
         loop[l].pc = "spawn" => faults' # 0
  PROVE  Inv'
<1>1. loop' = [loop EXCEPT ![l] = Idle] /\ store' = IF loop[l].button THEN store ELSE "none"
  BY DEF CallFails, TakeOut
<1>2. seen \in SeenSet /\ store \in {"none", "active", "paused"}
  BY TypeParts DEF Typed, Inv
<1> QED BY <1>1, <1>2, IdleType, SentListed, TabMoves

LEMMA InvCallFault ==
  ASSUME Inv, NEW l \in Loops, CallFault(l)
  PROVE  Inv'
<1>1. TaskSame /\ DirGrows /\ raced' \in BOOLEAN /\ (~raced' => ~raced)
      /\ faults' \in 0 .. MaxFaults /\ faults' # 0
  BY TaskUnchanged, DirSame, RacedKept, FaultCounted DEF Inv, CallFault
<1> QED BY <1>1, CallFailsKeeps DEF CallFault

-----------------------------------------------------------------------------
(* upload_task_chunk *)

LEMMA RacedGrows ==
  ASSUME TypeOK, NEW met \in BOOLEAN, raced' = (raced \/ met)
  PROVE  raced' \in BOOLEAN /\ (~raced' => ~raced /\ ~met)
BY TypeParts, ZenonT(30) DEF Typed

\* What ChunkAnswered makes of a loop, and that it keeps the order.
Answered(l, chunks) ==
  [loop[l] EXCEPT !.pc = "next", !.index = @ + 1, !.answer = chunks,
                  !.uploaded = @ \cup {loop[l].index}, !.snapshot = {}]

LEMMA AnsweredParts ==
  ASSUME Inv, NEW l \in Loops, loop[l].pc \in Sending, NEW chunks \in SUBSET Chunk
  PROVE  /\ Answered(l, chunks) \in LoopSet /\ Answered(l, chunks).pc = "next"
         /\ Answered(l, chunks).uploaded = loop[l].uploaded \cup {loop[l].index}
         /\ Answered(l, chunks).answer = chunks /\ Answered(l, chunks).button = loop[l].button
         /\ \A i \in Chunk : i < Answered(l, chunks).index => i \in Answered(l, chunks).uploaded
<1>1. loop[l] \in LoopSet
  BY TypeParts DEF Typed, Inv
<1>2. PICK k \in Chunk : k = loop[l].index
  BY DEF Inv, InOrder
<1>3. k + 1 \in 0 .. Total
  BY ConstantsAssumption DEF Chunk
<1>4. /\ Answered(l, chunks) \in LoopSet /\ Answered(l, chunks).pc = "next"
      /\ Answered(l, chunks).uploaded = loop[l].uploaded \cup {k}
      /\ Answered(l, chunks).answer = chunks /\ Answered(l, chunks).button = loop[l].button
      /\ Answered(l, chunks).index = k + 1
  BY <1>1, <1>2, <1>3 DEF Answered, LoopSet, LoopPc
<1>5. ASSUME NEW i \in Chunk, i < k + 1 PROVE i \in loop[l].uploaded \cup {k}
  <2>1. i < k \/ i = k
    BY <1>5 DEF Chunk
  <2> QED BY <1>2, <2>1 DEF Inv, InOrder
<1> QED BY <1>2, <1>4, <1>5

LEMMA InvChunkRead ==
  ASSUME Inv, NEW l \in Loops, ChunkRead(l)
  PROVE  Inv'
<1>1. /\ loop[l].pc = "read" /\ loop[l].index \in Chunk /\ loop[l] \in LoopSet
      /\ task.chunks \in SUBSET Chunk /\ store \in {"none", "active", "paused"} /\ seen \in SeenSet
      /\ loop[l].button \in BOOLEAN
  BY TypeParts DEF Typed, Inv, TaskSet, LoopSet, ChunkRead
<1>2. raced' \in BOOLEAN /\ (~raced' => ~raced /\ Alone(l))
  BY RacedGrows DEF Inv, ChunkRead, Alone
<1>3. TaskSame /\ DirGrows /\ faults' \in 0 .. MaxFaults /\ (faults' = 0 => faults = 0)
  BY TaskUnchanged, DirSame, FaultsKept DEF Inv, ChunkRead
<1>4. CASE task.status = "completed"
  <2> DEFINE v == Answered(l, task.chunks)
  <2>1. /\ v \in LoopSet /\ v.pc = "next" /\ v.uploaded = loop[l].uploaded \cup {loop[l].index}
        /\ v.answer = task.chunks /\ \A i \in Chunk : i < v.index => i \in v.uploaded
        /\ v.button = loop[l].button
    BY <1>1, AnsweredParts DEF Sending
  <2>2. loop' = [loop EXCEPT ![l] = v] /\ seen' = [completed |-> TRUE, chunks |-> task.chunks]
    BY <1>4 DEF ChunkRead, ChunkAnswered, Answered
  <2> HIDE DEF v
  <2>3. seen' \in SeenSet /\ seen'.chunks = task.chunks
    BY <1>1, <2>2 DEF SeenSet
  <2>4. ~raced => Full(task.chunks)
    BY <1>4 DEF Inv, Calm, Kept
  <2>5. ~raced => v.uploaded \subseteq task.chunks
    BY <1>1, <2>1, <2>4, SentListed DEF Full
  <2> QED BY <1>1, <1>2, <1>3, <2>1, <2>2, <2>3, <2>5, TabMoves DEF ChunkRead
<1>5. CASE task.status # "completed"
  <2> DEFINE v == [loop[l] EXCEPT !.pc = "body", !.snapshot = task.chunks]
  <2>1. /\ v \in LoopSet /\ v.pc = "body" /\ v.index = loop[l].index /\ v.uploaded = loop[l].uploaded
        /\ v.answer = loop[l].answer /\ v.snapshot = task.chunks /\ v.button = loop[l].button
    BY <1>1 DEF LoopSet, LoopPc, CallPc
  <2>2. loop' = [loop EXCEPT ![l] = v]
    BY <1>5 DEF ChunkRead
  <2> HIDE DEF v
  <2>3. \A i \in Chunk : i < v.index => i \in v.uploaded
    BY <1>1, <2>1 DEF Inv, InOrder, Sending
  <2>4. dir' \in [Chunk -> Part] /\ dir' = dir
    BY TypeParts DEF Typed, Inv, ChunkRead
  <2>5. UNCHANGED <<task, object, files, imports, store, seen, faults>>
    BY <1>5 DEF ChunkRead
  <2> QED BY <1>1, <1>2, <1>5, <2>1, <2>2, <2>3, <2>4, <2>5, SentListed, CallMoves
<1> QED BY <1>4, <1>5

LEMMA InvChunkTruncate ==
  ASSUME Inv, NEW l \in Loops, ChunkTruncate(l)
  PROVE  Inv'
<1> DEFINE v == Gone(l, "write")
<1>1. loop[l].pc = "body" /\ loop[l].index \in Chunk /\ dir \in [Chunk -> Part]
  BY TypeParts DEF Typed, Inv, InOrder, Sending, ChunkTruncate
<1>2. /\ loop' = [loop EXCEPT ![l] = v] /\ v \in LoopSet /\ v.pc = "write"
      /\ v.index = loop[l].index /\ v.uploaded = loop[l].uploaded
      /\ v.answer = loop[l].answer /\ v.snapshot = loop[l].snapshot /\ v.button = loop[l].button
  BY GotoParts DEF Inv, ChunkTruncate, LoopPc, CallPc
<1> HIDE DEF v
<1>3. raced' \in BOOLEAN /\ (~raced' => ~raced /\ Alone(l) /\ loop[l].index \notin task.chunks)
  <2>1. raced' = (raced \/ (~Alone(l) \/ loop[l].index \in task.chunks))
    BY Zenon DEF ChunkTruncate
  <2> QED BY <2>1, RacedGrows DEF Inv, Alone
<1>4. /\ dir' = [dir EXCEPT ![loop[l].index] = "short"]
      /\ UNCHANGED <<task, object, files, imports, store, seen, faults>>
  BY DEF ChunkTruncate
<1>5. /\ dir' \in [Chunk -> Part] /\ \A i \in Chunk : dir[i] # "none" => dir'[i] # "none"
      /\ \A i \in Chunk : i # loop[l].index => dir'[i] = dir[i]
  BY <1>1, <1>4 DEF Part
<1>6. \A i \in Chunk : i < v.index => i \in v.uploaded
  BY <1>1, <1>2 DEF Inv, InOrder, Sending
<1>7. ~raced => task.status # "completed" /\ loop[l].snapshot = task.chunks
  BY <1>1 DEF Inv, Calm, Alike, Past
<1>8. task.chunks \subseteq Chunk
  BY TypeParts DEF Typed, Inv, TaskSet
<1>9. ~raced' => \A i \in task.chunks : dir'[i] = dir[i]
  BY <1>3, <1>5, <1>8
<1> QED BY <1>1, <1>2, <1>3, <1>4, <1>5, <1>6, <1>7, <1>9, SentListed, CallMoves

LEMMA InvChunkWrite ==
  ASSUME Inv, NEW l \in Loops, ChunkWrite(l)
  PROVE  Inv'
<1>1. loop[l].pc = "write" /\ loop[l].index \in Chunk /\ dir \in [Chunk -> Part]
  BY TypeParts DEF Typed, Inv, InOrder, Sending, ChunkWrite
<1>2. dir' = [dir EXCEPT ![loop[l].index] = "whole"]
      /\ UNCHANGED <<task, object, files, imports, seen, raced, faults>>
  BY DEF ChunkWrite
<1>3. /\ DirGrows /\ dir'[loop[l].index] = "whole"
      /\ \A i \in Chunk : i # loop[l].index => dir'[i] = dir[i]
  BY <1>1, <1>2 DEF DirGrows, Part
<1>4. raced' \in BOOLEAN /\ (~raced' => ~raced)
  BY <1>2, RacedKept DEF Inv
<1>5. CASE \A i \in Listed(l) : dir'[i] # "none"
  <2> DEFINE v == Gone(l, "update")
  <2>1. Goto(l, "update") /\ UNCHANGED store
    BY <1>5 DEF ChunkWrite
  <2>2. /\ loop' = [loop EXCEPT ![l] = v] /\ v \in LoopSet /\ v.pc = "update"
        /\ v.index = loop[l].index /\ v.uploaded = loop[l].uploaded
        /\ v.answer = loop[l].answer /\ v.snapshot = loop[l].snapshot /\ v.button = loop[l].button
    BY <2>1, GotoParts DEF Inv, LoopPc, CallPc
  <2> HIDE DEF v
  <2>3. \A i \in Chunk : i < v.index => i \in v.uploaded
    BY <1>1, <2>2 DEF Inv, InOrder, Sending
  <2>4. ~raced => /\ task.status # "completed" /\ loop[l].snapshot = task.chunks
                  /\ loop[l].index \notin task.chunks /\ Past(l)
    BY <1>1 DEF Inv, Calm, Alike, Past
  <2>5. task.chunks \subseteq Chunk
    BY TypeParts DEF Typed, Inv, TaskSet
  <2>6. ~raced => \A i \in task.chunks : dir'[i] = dir[i]
    BY <1>3, <2>4, <2>5
  <2>7. \A i \in v.snapshot \cup {v.index} : dir'[i] # "none"
    BY <1>5, <2>2 DEF Listed
  <2> QED BY <1>1, <1>2, <1>3, <1>4, <2>1, <2>2, <2>3, <2>4, <2>6, <2>7, SentListed, CallMoves
          DEF DirGrows
<1>6. CASE ~(\A i \in Listed(l) : dir'[i] # "none")
  <2>1. CallFails(l)
    BY <1>6 DEF ChunkWrite
  <2>2. TaskSame /\ faults' \in 0 .. MaxFaults /\ (faults' = 0 => faults = 0)
    BY <1>2, TaskUnchanged, FaultsKept DEF Inv
  <2> QED BY <1>1, <1>2, <1>3, <1>4, <2>1, <2>2, CallFailsKeeps
<1> QED BY <1>5, <1>6

LEMMA InvChunkUpdate ==
  ASSUME Inv, NEW l \in Loops, ChunkUpdate(l)
  PROVE  Inv'
<1>1. /\ loop[l].pc = "update" /\ loop[l].index \in Chunk /\ loop[l] \in LoopSet
      /\ task \in TaskSet /\ Listed(l) \in SUBSET Chunk
  BY TypeParts DEF Typed, Inv, InOrder, Sending, ChunkUpdate, Listed, LoopSet
<1>2. /\ task' = [task EXCEPT !.chunks = Listed(l), !.status = "uploading"]
      /\ UNCHANGED <<dir, object, files, imports>>
  BY DEF ChunkUpdate
<1>3. task' \in TaskSet /\ task'.chunks = Listed(l) /\ task'.status = "uploading" /\ task'.file = task.file
  BY <1>1, <1>2 DEF TaskSet, TaskStatus
<1>4. raced' \in BOOLEAN /\ (~raced' => ~raced /\ Alone(l))
  BY RacedGrows DEF Inv, ChunkUpdate, Alone
<1>5. PICK v \in LoopSet :
        /\ loop' = [loop EXCEPT ![l] = v] /\ v.pc \in {"next", "idle"}
        /\ v.pc = "next" => \A i \in Chunk : i < v.index => i \in v.uploaded
        /\ \/ /\ v.pc = "next" /\ v.uploaded = loop[l].uploaded \cup {loop[l].index}
              /\ v.answer = Listed(l)
              /\ seen' = [completed |-> FALSE, chunks |-> Listed(l)]
              /\ UNCHANGED <<store, faults>>
              /\ v.button = loop[l].button
           \/ /\ v.uploaded = {} /\ UNCHANGED seen
              /\ store' = IF loop[l].button THEN store ELSE "none"
              /\ faults < MaxFaults /\ faults' = faults + 1
  <2>1. CASE ChunkAnswered(l, Listed(l), FALSE) /\ UNCHANGED <<store, faults>>
    <3> DEFINE v == Answered(l, Listed(l))
    <3>1. /\ v \in LoopSet /\ v.pc = "next" /\ v.uploaded = loop[l].uploaded \cup {loop[l].index}
          /\ v.answer = Listed(l) /\ \A i \in Chunk : i < v.index => i \in v.uploaded
          /\ v.button = loop[l].button
      BY <1>1, AnsweredParts DEF Sending
    <3>2. loop' = [loop EXCEPT ![l] = v] /\ seen' = [completed |-> FALSE, chunks |-> Listed(l)]
      BY <2>1 DEF ChunkAnswered, Answered
    <3> HIDE DEF v
    <3> QED BY <2>1, <3>1, <3>2
  <2>2. CASE faults < MaxFaults /\ faults' = faults + 1 /\ CallFails(l) /\ UNCHANGED seen
    BY <2>2, IdleType DEF CallFails, TakeOut
  <2> QED BY <2>1, <2>2 DEF ChunkUpdate
<1>6. loop' \in [Loops -> LoopSet] /\ loop'[l] = v /\ \A m \in Loops : m # l => loop'[m] = loop[m]
  BY <1>5, OneLoop DEF Inv
<1>7. seen' \in SeenSet /\ store' \in {"none", "active", "paused"} /\ faults' \in 0 .. MaxFaults
  <2>1. [completed |-> FALSE, chunks |-> Listed(l)] \in SeenSet
    BY <1>1 DEF SeenSet
  <2>2. seen \in SeenSet /\ store \in {"none", "active", "paused"} /\ faults \in 0 .. MaxFaults
    BY TypeParts DEF Typed, Inv
  <2> QED BY <1>5, <2>1, <2>2, FaultCounted DEF Inv
<1>8. TypeOK'
  BY <1>2, <1>3, <1>4, <1>6, <1>7, TypeParts DEF Typed, Inv
<1>9. ASSUME NEW m \in Loops PROVE InOrder(m)'
  BY <1>5, <1>6, InOrderKept DEF Inv, InOrder, Sending
<1>10. OnDisk'
  <2>1. task'.file = 0 => \A i \in Listed(l) : dir'[i] # "none"
    BY <1>1, <1>2, <1>3 DEF Inv, OnDisk
  <2>2. ASSUME NEW m \in Loops, loop'[m].pc = "update" PROVE m # l /\ Listed(m)' = Listed(m)
    BY <1>5, <1>6, <2>2 DEF Listed
  <2> QED BY <1>2, <1>3, <1>6, <2>1, <2>2 DEF Inv, OnDisk, ListedOnDisk
<1>11. ASSUME ~raced' PROVE Calm'
  <2>1. Calm /\ ~raced /\ ~Importing /\ \A m \in Loops : m # l => ~Past(m)
    BY <1>4, <1>11, AloneHere DEF Inv
  <2>2. /\ loop[l].snapshot = task.chunks /\ dir[loop[l].index] = "whole" /\ task.status # "completed"
        /\ loop[l].uploaded \subseteq task.chunks
    BY <1>1, <2>1 DEF Calm, Alike, Past
  <2>3. task.chunks \subseteq task'.chunks /\ Listed(l) = task.chunks \cup {loop[l].index}
    BY <1>3, <2>2 DEF Listed
  <2>4. \A k \in Loops : ~Past(k)'
    BY <1>5, <1>6, <2>1 DEF Past
  <2>5. ~Importing'
    BY <1>2, <2>1 DEF Importing
  <2>6. ASSUME NEW m \in Loops PROVE Alike(m)'
    <3>1. CASE m = l
      <4>1. v.uploaded \subseteq v.answer /\ v.uploaded \subseteq task'.chunks
        BY <1>3, <1>5, <2>2, <2>3
      <4> QED BY <1>5, <1>6, <2>4, <3>1, <4>1 DEF Alike
    <3>2. CASE m # l
      <4>1. Alike(m) /\ ~Past(m) /\ loop[m].pc # "update"
        BY <2>1, <3>2 DEF Calm, Past
      <4> QED BY <1>6, <2>3, <3>2, <4>1, AlikeKept DEF Inv
    <3> QED BY <3>1, <3>2
  <2>7. Kept'
    <3>1. task.file = 0 /\ task'.file = 0
      BY <1>3, <2>1, <2>2 DEF Calm, Kept
    <3>2. \A i \in task'.chunks : dir'[i] = "whole"
      BY <1>2, <1>3, <2>1, <2>2, <2>3, <3>1 DEF Calm, Kept
    <3>3. seen'.chunks \subseteq task'.chunks
      BY <1>3, <1>5, <2>1, <2>3 DEF Calm, Kept
    <3> QED BY <1>3, <3>1, <3>2, <3>3 DEF Kept
  <2>8. ASSUME NEW j \in ImportIds PROVE Single(j)'
    BY <2>5, ActiveIsImporting DEF Single, Importing, Active
  <2>9. CompletedIsWhole' /\ ImportingHasImport'
    BY <1>3 DEF CompletedIsWhole, ImportingHasImport
  <2>10. Works'
    BY <1>1, <1>5, <1>6, <2>1 DEF Calm, Works
  <2> QED BY <2>6, <2>7, <2>8, <2>9, <2>10 DEF Calm
<1> QED BY <1>8, <1>9, <1>10, <1>11 DEF Inv

-----------------------------------------------------------------------------
(* complete_task *)

LEMMA InvCompleteFind ==
  ASSUME Inv, NEW l \in Loops, CompleteFind(l)
  PROVE  Inv'
<1>1. /\ loop[l].pc = "find" /\ task \in TaskSet
      /\ UNCHANGED <<task, dir, object, files, imports, faults>>
  BY TypeParts DEF Typed, Inv, CompleteFind
<1>2. raced' \in BOOLEAN /\ (~raced' => ~raced /\ Alone(l))
  BY RacedGrows DEF Inv, CompleteFind, Alone
<1>3. TaskSame /\ DirGrows /\ faults' \in 0 .. MaxFaults /\ (faults' = 0 => faults = 0)
  BY <1>1, TaskUnchanged, DirSame, FaultsKept DEF Inv
<1>4. CASE task.status = "completed"
  <2>1. /\ loop' = [loop EXCEPT ![l] = Idle] /\ store' = IF loop[l].button THEN store ELSE "none"
        /\ seen' = [completed |-> TRUE, chunks |-> task.chunks]
        /\ store \in {"none", "active", "paused"}
    BY <1>4, TypeParts DEF Typed, Inv, CompleteFind, CompleteAnswered, TakeOut
  <2>2. seen' \in SeenSet /\ seen'.chunks = task.chunks
    BY <1>1, <2>1 DEF SeenSet, TaskSet
  <2> QED BY <1>1, <1>2, <1>3, <2>1, <2>2, IdleType, TabMoves
<1>5. CASE task.status # "completed" /\ Full(task.chunks)
  <2> DEFINE v == Gone(l, "queue")
  <2>1. Goto(l, "queue") /\ UNCHANGED <<store, seen>>
    BY <1>5 DEF CompleteFind
  <2>2. /\ loop' = [loop EXCEPT ![l] = v] /\ v \in LoopSet /\ v.pc = "queue"
        /\ v.uploaded = loop[l].uploaded /\ v.answer = loop[l].answer /\ v.button = loop[l].button
    BY <2>1, GotoParts DEF Inv, LoopPc, CallPc
  <2> HIDE DEF v
  <2>3. dir' \in [Chunk -> Part] /\ dir' = dir
    BY <1>1, TypeParts DEF Typed, Inv
  <2> QED BY <1>1, <1>2, <1>5, <2>1, <2>2, <2>3, SentListed, CallMoves
<1>6. CASE task.status # "completed" /\ ~Full(task.chunks)
  <2>1. CallFails(l) /\ UNCHANGED seen
    BY <1>6 DEF CompleteFind
  <2> QED BY <1>1, <1>2, <1>3, <2>1, CallFailsKeeps
<1> QED BY <1>4, <1>5, <1>6

\* The row says importing, and the call holds what it read of it.
LEMMA InvCompleteQueue ==
  ASSUME Inv, NEW l \in Loops, CompleteQueue(l)
  PROVE  Inv'
<1>1. /\ loop[l].pc = "queue" /\ task \in TaskSet /\ loop[l] \in LoopSet
      /\ UNCHANGED <<dir, object, files, imports, store, seen, faults>>
      /\ task' = [task EXCEPT !.status = "importing"]
  BY TypeParts DEF Typed, Inv, CompleteQueue
<1>2. task' \in TaskSet /\ task'.chunks = task.chunks /\ task'.file = task.file /\ task'.status = "importing"
  BY <1>1 DEF TaskSet, TaskStatus
<1> DEFINE v == [loop[l] EXCEPT !.pc = "spawn", !.snapshot = task.chunks, !.file = task.file]
<1>3. /\ v \in LoopSet /\ v.pc = "spawn" /\ v.snapshot = task.chunks /\ v.file = task.file
      /\ v.uploaded = loop[l].uploaded /\ v.answer = loop[l].answer /\ v.button = loop[l].button
  <2>1. task.chunks \in SUBSET Chunk /\ task.file \in {0} \cup ImportIds
    BY <1>1 DEF TaskSet
  <2> QED BY <1>1, <2>1 DEF LoopSet, LoopPc, CallPc
<1>4. loop' = [loop EXCEPT ![l] = v]
  BY DEF CompleteQueue
<1> HIDE DEF v
<1>5. loop' \in [Loops -> LoopSet] /\ loop'[l] = v /\ \A m \in Loops : m # l => loop'[m] = loop[m]
  BY <1>3, <1>4, OneLoop DEF Inv
<1>6. raced' \in BOOLEAN /\ (~raced' => ~raced /\ Alone(l))
  BY RacedGrows DEF Inv, CompleteQueue, Alone
<1>7. TypeOK'
  BY <1>1, <1>2, <1>5, <1>6, TypeParts DEF Typed, Inv
<1>8. ASSUME NEW m \in Loops PROVE InOrder(m)'
  BY <1>3, <1>5, InOrderKept DEF Inv, InOrder, Sending
<1>9. OnDisk'
  <2>1. ASSUME NEW m \in Loops, loop'[m].pc = "update" PROVE m # l /\ Listed(m)' = Listed(m)
    BY <1>3, <1>5, <2>1 DEF Listed
  <2> QED BY <1>1, <1>2, <1>5, <2>1 DEF Inv, OnDisk, ListedOnDisk
<1>10. ASSUME ~raced' PROVE Calm'
  <2>1. Calm /\ ~raced /\ ~Importing /\ \A m \in Loops : m # l => ~Past(m)
    BY <1>6, <1>10, AloneHere DEF Inv
  <2>2. /\ Full(task.chunks) /\ task.status # "completed" /\ task.file = 0
        /\ loop[l].uploaded \subseteq loop[l].answer /\ loop[l].uploaded \subseteq task.chunks
    BY <1>1, <2>1 DEF Calm, Alike, Past, Kept
  <2>3. ~Importing' /\ \A k \in Loops : Past(k)' => k = l
    BY <1>1, <1>5, <2>1 DEF Past, Importing
  <2>4. ASSUME NEW m \in Loops PROVE Alike(m)'
    <3>1. CASE m = l
      BY <1>2, <1>3, <1>5, <2>2, <2>3, <3>1 DEF Alike, Full
    <3>2. CASE m # l
      <4>1. Alike(m) /\ ~Past(m) /\ loop[m].pc # "update"
        BY <2>1, <3>2 DEF Calm, Past
      <4> QED BY <1>2, <1>5, <3>2, <4>1, AlikeKept DEF Inv
    <3> QED BY <3>1, <3>2
  <2>5. Kept'
    BY <1>1, <1>2, <2>1, <2>2 DEF Calm, Kept, Full
  <2>6. ASSUME NEW k \in ImportIds PROVE Single(k)'
    BY <2>3, ActiveIsImporting DEF Single, Importing, Active
  <2>7. CompletedIsWhole'
    BY <1>2 DEF CompletedIsWhole
  <2>8. Works'
    BY <1>1, <1>3, <1>5, <2>1 DEF Calm, Works
  <2>9. ImportingHasImport'
    BY <1>3, <1>5 DEF ImportingHasImport, Queued
  <2> QED BY <2>4, <2>5, <2>6, <2>7, <2>8, <2>9 DEF Calm
<1> QED BY <1>7, <1>8, <1>9, <1>10 DEF Inv

\* The import starts from what the call holds; its answer arrives or is lost.
LEMMA InvCompleteSpawn ==
  ASSUME Inv, NEW l \in Loops, CompleteSpawn(l)
  PROVE  Inv'
<1>1. /\ loop[l].pc = "spawn" /\ task \in TaskSet /\ loop[l] \in LoopSet /\ Unused # {}
      /\ UNCHANGED <<task, dir, object, files>>
      /\ loop' = [loop EXCEPT ![l] = Idle]
      /\ store' = IF loop[l].button THEN store ELSE "none"
      /\ store \in {"none", "active", "paused"} /\ seen \in SeenSet
  BY TypeParts DEF Typed, Inv, CompleteSpawn, TakeOut, CallFails
<1>2. /\ seen' = seen \/ seen' = [completed |-> FALSE, chunks |-> loop[l].snapshot]
      /\ faults' \in 0 .. MaxFaults
  BY FaultsKept, FaultCounted DEF CompleteSpawn, Inv
<1>3. PICK j \in ImportIds : j = Min(Unused) /\ imports[j].pc = "none"
  <2>1. Unused \subseteq Nat
    BY DEF Unused, ImportIds
  <2>2. Min(Unused) \in Unused
    BY <1>1, <2>1, MinOf
  <2> QED BY <2>2 DEF Unused
<1> DEFINE v == [imports[j] EXCEPT !.pc = "locate", !.chunks = loop[l].snapshot, !.file = loop[l].file]
<1>4. imports' = [imports EXCEPT ![j] = v]
  BY <1>3, TypeParts DEF Typed, Inv, CompleteSpawn
<1>5. v \in ImportSet /\ v.pc = "locate" /\ v.chunks = loop[l].snapshot /\ v.file = loop[l].file
  <2>1. imports[j] \in ImportSet /\ loop[l].snapshot \in SUBSET Chunk /\ loop[l].file \in {0} \cup ImportIds
    BY <1>1, TypeParts DEF Typed, Inv, LoopSet
  <2> QED BY <2>1 DEF ImportSet, ImportPc
<1> HIDE DEF v
<1>6. /\ imports' \in [ImportIds -> ImportSet] /\ imports'[j] = v
      /\ \A k \in ImportIds : k # j => imports'[k] = imports[k]
  BY <1>4, <1>5, OneImport DEF Inv
<1>7. loop' \in [Loops -> LoopSet] /\ loop'[l] = Idle /\ \A m \in Loops : m # l => loop'[m] = loop[m]
  BY <1>1, IdleType, OneLoop DEF Inv
<1>8. raced' \in BOOLEAN /\ (~raced' => ~raced /\ Alone(l))
  BY RacedGrows DEF Inv, CompleteSpawn, Alone
<1>9. TypeOK'
  <2>1. seen' \in SeenSet
    <3>1. loop[l].snapshot \in SUBSET Chunk
      BY <1>1 DEF LoopSet
    <3>2. [completed |-> FALSE, chunks |-> loop[l].snapshot] \in SeenSet
      BY <3>1 DEF SeenSet
    <3> QED BY <1>1, <1>2, <3>2
  <2> QED BY <1>1, <1>2, <1>6, <1>7, <1>8, <2>1, TypeParts DEF Typed, Inv
<1>10. ASSUME NEW m \in Loops PROVE InOrder(m)'
  BY <1>7, IdleType, InOrderKept DEF Inv, InOrder, Sending
<1>11. OnDisk'
  <2>1. ASSUME NEW m \in Loops, loop'[m].pc = "update" PROVE m # l /\ Listed(m)' = Listed(m)
    BY <1>7, <2>1, IdleType DEF Listed
  <2>2. \A k \in ImportIds : imports'[k].pc = "clean" => imports[k].pc = "clean"
    BY <1>5, <1>6
  <2> QED BY <1>1, <1>7, <2>1, <2>2 DEF Inv, OnDisk, ListedOnDisk
<1>12. ASSUME ~raced' PROVE Calm'
  <2>1. Calm /\ ~raced /\ ~Importing /\ \A m \in Loops : m # l => ~Past(m)
    BY <1>8, <1>12, AloneHere DEF Inv
  <2>2. /\ Full(task.chunks) /\ task.status # "completed" /\ task.file = 0
        /\ loop[l].snapshot = task.chunks /\ loop[l].file = 0
    BY <1>1, <2>1 DEF Calm, Alike, Past, Kept, Full
  <2>3. \A k \in Loops : ~Past(k)'
    BY <1>7, <2>1, IdleType DEF Past
  <2>4. ASSUME NEW m \in Loops PROVE Alike(m)'
    <3>1. CASE m = l
      BY <1>7, <2>3, <3>1, IdleType DEF Alike
    <3>2. CASE m # l
      <4>1. Alike(m) /\ ~Past(m) /\ loop[m].pc # "update"
        BY <2>1, <3>2 DEF Calm, Past
      <4> QED BY <1>1, <1>7, <3>2, <4>1, AlikeKept DEF Inv
    <3> QED BY <3>1, <3>2
  <2>5. Kept'
    BY <1>1, <1>2, <2>1, <2>2 DEF Calm, Kept, Full
  <2>6. \A k \in ImportIds : Active(k)' => k = j
    BY <1>6, <2>1, ActiveIsImporting DEF Active
  <2>7. ASSUME NEW k \in ImportIds PROVE Single(k)'
    BY <1>1, <1>5, <1>6, <2>2, <2>6 DEF Single, Full
  <2>8. CompletedIsWhole'
    BY <1>1, <2>2 DEF CompletedIsWhole
  <2>9. Works'
    BY <1>1, <1>7, <2>1 DEF Calm, Works
  <2>10. ImportingHasImport'
    BY <1>5, <1>6 DEF ImportingHasImport, Importing
  <2> QED BY <2>4, <2>5, <2>7, <2>8, <2>9, <2>10 DEF Calm
<1> QED BY <1>9, <1>10, <1>11, <1>12 DEF Inv

-----------------------------------------------------------------------------
(* The import *)

\* What Step makes of an import.
Stepped(j, pc) == IF pc = "done" THEN [NoImport EXCEPT !.pc = "done"] ELSE [imports[j] EXCEPT !.pc = pc]

LEMMA SteppedParts ==
  ASSUME TypeOK, NEW j \in ImportIds, NEW pc \in ImportPc, Step(j, pc)
  PROVE  /\ imports' = [imports EXCEPT ![j] = Stepped(j, pc)]
         /\ Stepped(j, pc) \in ImportSet /\ Stepped(j, pc).pc = pc
         /\ pc # "done" => /\ Stepped(j, pc).chunks = imports[j].chunks
                            /\ Stepped(j, pc).file = imports[j].file
                            /\ Stepped(j, pc).hash = imports[j].hash
<1>1. imports' = [imports EXCEPT ![j] = Stepped(j, pc)]
  BY DEF Step, Stepped
<1>2. imports[j] \in ImportSet
  BY TypeParts DEF Typed
<1>3. CASE pc = "done"
  BY <1>1, <1>3, IdleType DEF Stepped
<1>4. CASE pc # "done"
  BY <1>1, <1>2, <1>4 DEF Stepped, ImportSet
<1> QED BY <1>3, <1>4

\* What the steps of an import rely on.
LEMMA ImportFacts ==
  ASSUME Inv, NEW j \in ImportIds
  PROVE  /\ task \in TaskSet /\ dir \in [Chunk -> Part] /\ object \in Bytes
         /\ files \in [ImportIds -> Bytes] /\ imports[j] \in ImportSet
         /\ faults \in 0 .. MaxFaults
         /\ ~raced => Calm /\ Single(j) /\ Kept /\ CompletedIsWhole
BY TypeParts DEF Typed, Inv, Calm

LEMMA InvImportLocate ==
  ASSUME Inv, NEW j \in ImportIds, ImportLocate(j)
  PROVE  Inv'
<1>1. imports[j].pc = "locate" /\ Active(j)
      /\ UNCHANGED <<dir, object, files, store, seen, loop, raced, faults>>
  BY DEF ImportLocate, Active
<1>2. ~raced => /\ imports[j].file = 0 /\ Full(imports[j].chunks)
                /\ task.status # "completed" /\ task.file = 0
  BY <1>1, ImportFacts DEF Single, Kept
<1>3. CASE imports[j].file # 0
  <2>1. Step(j, "done") /\ UNCHANGED task /\ raced
    BY <1>2, <1>3 DEF ImportLocate
  <2> DEFINE v == Stepped(j, "done")
  <2>2. imports' = [imports EXCEPT ![j] = v] /\ v \in ImportSet /\ v.pc = "done"
    BY <2>1, SteppedParts DEF Inv, ImportPc
  <2> HIDE DEF v
  <2> QED BY <1>1, <2>1, <2>2, ImportFacts, ImportMoves
<1>4. CASE imports[j].file = 0 /\ Step(j, "fail") /\ UNCHANGED task
  <2> DEFINE v == Stepped(j, "fail")
  <2>1. imports' = [imports EXCEPT ![j] = v] /\ v \in ImportSet /\ v.pc = "fail"
    BY <1>4, SteppedParts DEF Inv, ImportPc
  <2> HIDE DEF v
  <2> QED BY <1>1, <1>2, <1>4, <2>1, ImportFacts, ImportMoves
<1>5. CASE imports[j].file = 0 /\ Step(j, "hash") /\ task' = [task EXCEPT !.status = "importing"]
  <2> DEFINE v == Stepped(j, "hash")
  <2>1. imports' = [imports EXCEPT ![j] = v] /\ v \in ImportSet /\ v.pc = "hash"
        /\ v.chunks = imports[j].chunks /\ v.file = imports[j].file
    BY <1>5, SteppedParts DEF Inv, ImportPc
  <2> HIDE DEF v
  <2>2. task' \in TaskSet /\ task'.status = "importing" /\ task'.chunks = task.chunks /\ task'.file = task.file
    BY <1>5, ImportFacts DEF TaskSet, TaskStatus
  <2> QED BY <1>1, <1>2, <2>1, <2>2, ImportFacts, ImportMoves
<1> QED BY <1>3, <1>4, <1>5 DEF ImportLocate

\* An import before its file is in the row fails.
LEMMA FailKeeps ==
  ASSUME Inv, NEW j \in ImportIds, Active(j), imports[j].pc # "clean", Step(j, "fail"),
         UNCHANGED <<task, dir, files, store, seen, loop, raced>>,
         object' \in Bytes, faults' \in 0 .. MaxFaults, faults' = 0 => faults = 0
  PROVE  Inv'
<1> DEFINE v == Stepped(j, "fail")
<1>1. imports' = [imports EXCEPT ![j] = v] /\ v \in ImportSet /\ v.pc = "fail"
  BY SteppedParts DEF Inv, ImportPc
<1> HIDE DEF v
<1>2. ~raced => task.status # "completed" /\ task.file = 0
  BY ImportFacts DEF Single, Kept
<1> QED BY <1>1, <1>2, ImportFacts, ImportMoves

LEMMA ReadType ==
  ASSUME NEW j \in ImportIds
  PROVE  Read(j) \in Bytes
BY DEF Read, Bytes

LEMMA ReadWhole ==
  ASSUME Inv, ~raced, NEW j \in ImportIds, imports[j].pc \in {"hash", "copy"}
  PROVE  Read(j) = "whole"
<1>1. Full(imports[j].chunks) /\ Full(task.chunks) /\ task.file = 0
  BY ImportFacts DEF Single, Active, Kept
<1>2. \A i \in Chunk : dir[i] = "whole"
  BY <1>1, ImportFacts DEF Kept, Full
<1> QED BY <1>1, <1>2 DEF Read

LEMMA InvImportHash ==
  ASSUME Inv, NEW j \in ImportIds, ImportHash(j)
  PROVE  Inv'
<1>1. imports[j].pc = "hash" /\ Active(j)
      /\ UNCHANGED <<task, dir, object, files, store, seen, loop, raced, faults>>
  BY DEF ImportHash, Active
<1>2. CASE AllThere(j)
  <2> DEFINE v == [imports[j] EXCEPT !.pc = "put", !.hash = Read(j)]
  <2>1. imports' = [imports EXCEPT ![j] = v]
    BY <1>2, TypeParts DEF Typed, Inv, ImportHash
  <2>2. /\ v \in ImportSet /\ v.pc = "put" /\ v.hash = Read(j)
        /\ v.chunks = imports[j].chunks /\ v.file = imports[j].file
    <3>1. imports[j] \in ImportSet /\ Read(j) \in Bytes
      BY ImportFacts, ReadType
    <3> QED BY <3>1 DEF ImportSet, ImportPc
  <2> HIDE DEF v
  <2>3. ~raced => /\ imports[j].file = 0 /\ Full(imports[j].chunks) /\ v.hash = "whole"
                  /\ task.status # "completed" /\ task.file = 0
    BY <1>1, <2>2, ImportFacts, ReadWhole DEF Single, Kept
  <2> QED BY <1>1, <2>1, <2>2, <2>3, ImportFacts, ImportMoves
<1>3. CASE ~AllThere(j)
  BY <1>1, <1>3, ImportFacts, FailKeeps DEF ImportHash
<1> QED BY <1>2, <1>3

LEMMA InvImportPut ==
  ASSUME Inv, NEW j \in ImportIds, ImportPut(j)
  PROVE  Inv'
<1>1. imports[j].pc = "put" /\ Active(j) /\ object' \in Bytes
      /\ UNCHANGED <<task, dir, files, store, seen, loop, raced, faults>>
  BY ImportFacts DEF ImportPut, Active, Spoilt, Bytes
<1>2. CASE Step(j, "copy")
  <2> DEFINE v == Stepped(j, "copy")
  <2>1. imports' = [imports EXCEPT ![j] = v] /\ v \in ImportSet /\ v.pc = "copy"
        /\ v.chunks = imports[j].chunks /\ v.file = imports[j].file /\ v.hash = imports[j].hash
    BY <1>2, SteppedParts DEF Inv, ImportPc
  <2> HIDE DEF v
  <2>2. ~raced => /\ imports[j].file = 0 /\ Full(imports[j].chunks) /\ imports[j].hash = "whole"
                  /\ task.status # "completed" /\ task.file = 0
    BY <1>1, ImportFacts DEF Single, Kept
  <2> QED BY <1>1, <2>1, <2>2, ImportFacts, ImportMoves
<1>3. CASE Step(j, "fail")
  BY <1>1, <1>3, ImportFacts, FailKeeps
<1> QED BY <1>2, <1>3 DEF ImportPut

LEMMA InvImportCopy ==
  ASSUME Inv, NEW j \in ImportIds, ImportCopy(j)
  PROVE  Inv'
<1>1. imports[j].pc = "copy" /\ Active(j) /\ object' \in Bytes
      /\ UNCHANGED <<task, dir, files, store, seen, loop, raced, faults>>
  BY ImportFacts, ReadType DEF ImportCopy, Active, Spoilt, Bytes
<1>2. CASE AllThere(j)
  <2> DEFINE v == Stepped(j, "insert")
  <2>1. Step(j, "insert") /\ object' = Read(j)
    BY <1>2 DEF ImportCopy
  <2>2. imports' = [imports EXCEPT ![j] = v] /\ v \in ImportSet /\ v.pc = "insert"
        /\ v.hash = imports[j].hash
    BY <2>1, SteppedParts DEF Inv, ImportPc
  <2> HIDE DEF v
  <2>3. ~raced => /\ imports[j].hash = "whole" /\ object' = "whole"
                  /\ task.status # "completed" /\ task.file = 0
    BY <1>1, <2>1, ImportFacts, ReadWhole DEF Single, Kept
  <2> QED BY <1>1, <2>2, <2>3, ImportFacts, ImportMoves
<1>3. CASE ~AllThere(j)
  BY <1>1, <1>3, ImportFacts, FailKeeps DEF ImportCopy
<1> QED BY <1>2, <1>3

LEMMA InvImportInsert ==
  ASSUME Inv, NEW j \in ImportIds, ImportInsert(j)
  PROVE  Inv'
<1>1. imports[j].pc = "insert" /\ Active(j)
      /\ files' = [files EXCEPT ![j] = imports[j].hash]
      /\ UNCHANGED <<task, dir, object, store, seen, loop, raced, faults>>
  BY DEF ImportInsert, Active
<1> DEFINE v == [NoImport EXCEPT !.pc = "complete"]
<1>2. imports' = [imports EXCEPT ![j] = v]
  BY DEF ImportInsert
<1>3. v \in ImportSet /\ v.pc = "complete"
  BY IdleType DEF ImportSet, ImportPc
<1> HIDE DEF v
<1>4. files' \in [ImportIds -> Bytes] /\ files'[j] = imports[j].hash
  BY <1>1, ImportFacts DEF ImportSet
<1>5. ~raced => /\ imports[j].hash = "whole" /\ object = "whole"
                /\ task.status # "completed" /\ task.file = 0
  BY <1>1, ImportFacts DEF Single, Kept
<1> QED BY <1>1, <1>2, <1>3, <1>4, <1>5, ImportFacts, ImportMoves

LEMMA InvImportComplete ==
  ASSUME Inv, NEW j \in ImportIds, ImportComplete(j)
  PROVE  Inv'
<1>1. imports[j].pc = "complete" /\ Active(j) /\ Step(j, "clean")
      /\ task' = [task EXCEPT !.status = "completed", !.file = j]
      /\ UNCHANGED <<dir, object, files, store, seen, loop, raced, faults>>
  BY DEF ImportComplete, Active
<1> DEFINE v == Stepped(j, "clean")
<1>2. imports' = [imports EXCEPT ![j] = v] /\ v \in ImportSet /\ v.pc = "clean"
  BY <1>1, SteppedParts DEF Inv, ImportPc
<1> HIDE DEF v
<1>3. task' \in TaskSet /\ task'.status = "completed" /\ task'.chunks = task.chunks /\ task'.file = j
  BY <1>1, ImportFacts DEF TaskSet, TaskStatus
<1>4. j # 0
  BY DEF ImportIds
<1>5. ~raced => files[j] = "whole" /\ object = "whole"
  BY <1>1, ImportFacts DEF Single
<1> QED BY <1>1, <1>2, <1>3, <1>4, <1>5, ImportFacts, ImportMoves

LEMMA InvImportClean ==
  ASSUME Inv, NEW j \in ImportIds, ImportClean(j)
  PROVE  Inv'
<1>1. imports[j].pc = "clean" /\ Active(j) /\ Step(j, "done")
      /\ dir' = [i \in Chunk |-> "none"]
      /\ UNCHANGED <<task, object, files, store, seen, loop, raced, faults>>
  BY DEF ImportClean, Active
<1> DEFINE v == Stepped(j, "done")
<1>2. imports' = [imports EXCEPT ![j] = v] /\ v \in ImportSet /\ v.pc = "done"
  BY <1>1, SteppedParts DEF Inv, ImportPc
<1> HIDE DEF v
<1>3. dir' \in [Chunk -> Part] /\ task.file # 0
  BY <1>1 DEF Part, Inv, OnDisk
<1>4. ~raced => task.status = "completed" /\ files[task.file] = "whole" /\ object = "whole"
  BY <1>1, ImportFacts DEF Single, CompletedIsWhole
<1> QED BY <1>1, <1>2, <1>3, <1>4, ImportFacts, ImportMoves

LEMMA InvImportFail ==
  ASSUME Inv, NEW j \in ImportIds, ImportFail(j)
  PROVE  Inv'
<1>1. imports[j].pc = "fail" /\ Active(j) /\ Step(j, "done")
      /\ task' = [task EXCEPT !.status = "failed"]
      /\ UNCHANGED <<dir, object, files, store, seen, loop, raced, faults>>
  BY DEF ImportFail, Active
<1> DEFINE v == Stepped(j, "done")
<1>2. imports' = [imports EXCEPT ![j] = v] /\ v \in ImportSet /\ v.pc = "done"
  BY <1>1, SteppedParts DEF Inv, ImportPc
<1> HIDE DEF v
<1>3. task' \in TaskSet /\ task'.status = "failed" /\ task'.chunks = task.chunks /\ task'.file = task.file
  BY <1>1, ImportFacts DEF TaskSet, TaskStatus
<1>4. ~raced => task.file = 0
  BY <1>1, ImportFacts DEF Single, Kept
<1> QED BY <1>1, <1>2, <1>3, <1>4, ImportFacts, ImportMoves

LEMMA InvImportFault ==
  ASSUME Inv, NEW j \in ImportIds, ImportFault(j)
  PROVE  Inv'
<1>1. /\ imports[j].pc \in {"locate", "insert", "complete", "fail"} /\ Active(j)
      /\ faults' \in 0 .. MaxFaults /\ faults' # 0
      /\ UNCHANGED <<task, dir, object, files, store, seen, loop, raced>>
  BY FaultCounted DEF ImportFault, Active, Inv
<1>2. CASE imports[j].pc # "fail"
  BY <1>1, <1>2, ImportFacts, FailKeeps DEF ImportFault
<1>3. CASE imports[j].pc = "fail"
  <2> DEFINE v == Stepped(j, "done")
  <2>1. imports' = [imports EXCEPT ![j] = v] /\ v \in ImportSet /\ v.pc = "done"
    BY <1>3, SteppedParts DEF Inv, ImportPc, ImportFault
  <2> HIDE DEF v
  <2>2. ~raced => task.status # "completed" /\ task.file = 0
    BY <1>1, <1>3, ImportFacts DEF Single, Kept
  <2> QED BY <1>1, <2>1, <2>2, ImportFacts, ImportMoves
<1> QED BY <1>2, <1>3

-----------------------------------------------------------------------------
(* The backend dies *)

LEMMA InvCrash ==
  ASSUME Inv, Crash
  PROVE  Inv'
<1>1. /\ faults' \in 0 .. MaxFaults /\ faults' # 0
      /\ UNCHANGED <<task, dir, object, files, seen, raced>>
      /\ loop' = [l \in Loops |-> IF InFlight(l) THEN Idle ELSE loop[l]]
      /\ store' = IF \E l \in Loops : InFlight(l) /\ ~loop[l].button THEN "none" ELSE store
  BY FaultCounted DEF Crash, Inv
<1>2. /\ imports' \in [ImportIds -> ImportSet]
      /\ \A j \in ImportIds : imports'[j].pc \in {"none", "done"}
  BY IdleType DEF Crash
<1>3. loop' \in [Loops -> LoopSet]
      /\ \A l \in Loops : loop'[l] = Idle \/ (loop'[l] = loop[l] /\ loop[l].pc \in {"idle", "next"})
  BY <1>1, IdleType, TypeParts DEF Typed, Inv, InFlight, LoopSet, LoopPc
<1>4. TypeOK'
  <2>1. store' \in {"none", "active", "paused"}
    BY <1>1, TypeParts DEF Typed, Inv
  <2> QED BY <1>1, <1>2, <1>3, <2>1, TypeParts DEF Typed, Inv
<1>5. ASSUME NEW m \in Loops PROVE InOrder(m)'
  BY <1>3, IdleType DEF Inv, InOrder, Sending
<1>6. OnDisk'
  BY <1>1, <1>2, <1>3, IdleType DEF Inv, OnDisk, ListedOnDisk
<1>7. ASSUME ~raced' PROVE Calm'
  <2>1. Calm /\ ~raced
    BY <1>1, <1>7 DEF Inv
  <2>2. ASSUME NEW m \in Loops PROVE Alike(m)'
    BY <1>1, <1>3, <2>1, IdleType DEF Calm, Alike, Past
  <2>3. Kept' /\ CompletedIsWhole'
    BY <1>1, <2>1 DEF Calm, Kept, CompletedIsWhole, Full
  <2>4. ASSUME NEW j \in ImportIds PROVE Single(j)'
    BY <1>2 DEF Single, Active
  <2>5. Works'
    <3>1. SUFFICES ASSUME store' = "active"
                   PROVE  \E l \in Loops : loop'[l].pc # "idle" /\ ~loop'[l].button
      BY DEF Works
    <3>2. store = "active" /\ \A l \in Loops : ~loop[l].button => loop'[l] = loop[l]
      BY <1>1, <3>1
    <3> QED BY <2>1, <3>2 DEF Calm, Works
  <2>6. ImportingHasImport'
    BY <1>1 DEF ImportingHasImport
  <2> QED BY <2>2, <2>3, <2>4, <2>5, <2>6 DEF Calm
<1> QED BY <1>4, <1>5, <1>6, <1>7 DEF Inv

-----------------------------------------------------------------------------
(* The theorems *)

LEMMA InvNext == Inv /\ [Next]_vars => Inv'
<1> SUFFICES ASSUME Inv, [Next]_vars PROVE Inv'
  OBVIOUS
<1>1. CASE UNCHANGED vars
  BY <1>1, TaskUnchanged, FaultsKept, Unnoticed, TypeParts DEF vars, Typed, Inv
<1>2. CASE Pause \/ Crash
  BY <1>2, InvPause, InvCrash
<1>3. ASSUME NEW l \in Loops,
             CreateTask(l) \/ Resume(l) \/ ClickImport(l) \/ LoopStep(l) \/ CallFault(l)
      PROVE  Inv'
  BY <1>3, InvCreateTask, InvResume, InvClickImport, InvSendChunk, InvLeaveLoop, InvChunkRead,
     InvChunkTruncate, InvChunkWrite, InvChunkUpdate, InvCompleteFind, InvCompleteQueue, InvCompleteSpawn,
     InvCallFault
  DEF LoopStep
<1>4. ASSUME NEW j \in ImportIds, ImportStep(j) \/ ImportFault(j) PROVE Inv'
  BY <1>4, InvImportLocate, InvImportHash, InvImportPut, InvImportCopy, InvImportInsert,
     InvImportComplete, InvImportClean, InvImportFail, InvImportFault
  DEF ImportStep
<1> QED BY <1>1, <1>2, <1>3, <1>4 DEF Next

\* Every state that uploads, imports and crashes reach has values of its types.
THEOREM TypeCorrect == Spec => []TypeOK
<1>1. Inv => TypeOK
  BY DEF Inv
<1> QED BY <1>1, InvInit, InvNext, PTL DEF Spec

\* A listed chunk is on disk until an import has handed its file to the row, however the
\* calls and the imports of the task met.
THEOREM ChunksStay == Spec => []ListedOnDisk
<1>1. Inv => ListedOnDisk
  BY DEF Inv, OnDisk
<1> QED BY <1>1, InvInit, InvNext, PTL DEF Spec

\* A completed task whose calls never met names a whole file with the sha256 of the whole,
\* through every crash, failed import and retry.
THEOREM CompletesWhole == Spec => []CompletedIsWhole
<1>1. Inv => CompletedIsWhole
  BY DEF Inv, Calm, CompletedIsWhole
<1> QED BY <1>1, InvInit, InvNext, PTL DEF Spec

\* An upload the tab shows as running has a loop that works on it, unless calls met.
THEOREM NoDeadUpload == Spec => []RunningTabWorks
<1>1. Inv => RunningTabWorks
  BY DEF Inv, Calm, Works, RunningTabWorks
<1> QED BY <1>1, InvInit, InvNext, PTL DEF Spec

\* Without faults and calls that met, a task that says importing has an import under way or
\* about to start.
THEOREM NoDeadImport == Spec => []ImportingHasImport
<1>1. Inv => ImportingHasImport
  BY DEF Inv, Calm, ImportingHasImport
<1> QED BY <1>1, InvInit, InvNext, PTL DEF Spec
=============================================================================
