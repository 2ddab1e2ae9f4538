------------------------ MODULE CommandWorkflow_proofs ------------------------
(***************************************************************************)
(* What holds of workflow runs for any runs, templates, definitions and    *)
(* administrators, and any number of changes and faults: every command is  *)
(* only known by its contract.                                             *)
(***************************************************************************)
EXTENDS CommandWorkflow, TLAPS, FiniteSetTheorems

-----------------------------------------------------------------------------
(* The inductive invariant *)

\* A save under way has a definition, and is at a step of it.
SavesKnown ==
  /\ Len(plans) <= changes + 1
  /\ \A a \in Admins : saving[a].next > 0 =>
       /\ saving[a].save \in Saves
       /\ saving[a].next \in DOMAIN plans[saving[a].save + 1]

\* The script of a command runs only while its record says "running", and a command that
\* failed left no process.
ScriptRuns ==
  \A c \in CommandIds :
    /\ script[c] = "open" => status[c] = "running"
    /\ script[c] = "left" => status[c] \in {"running", "success", "cancelled"}

Before == {"idle", "mark", "load"}
AtStep == {"template", "submit", "link", "wait", "settle"}

\* The rows a run has still to make steps of.
Ahead(w) ==
  CASE task[w].pc = "create" -> task[w].todo
    [] task[w].pc \in AtStep -> Tail(task[w].todo)
    [] OTHER -> <<>>

\* A run that is at its end, or was brought to it without an error.
Over(w) == task[w].pc = "finish" \/ (task[w].pc = "done" /\ w \notin erred)

\* Where the task is says how many steps there are and what the record of the run shows.
Position(w) ==
  /\ task[w].pc \in Before => steps[w] = <<>> /\ task[w].verdict = "failed"
  /\ task[w].pc = "idle" => flow[w].status = "none"
  /\ flow[w].status = "none" => task[w].pc = "idle"
  /\ task[w].pc \in AtStep => steps[w] # <<>>
  /\ task[w].pc \in AtStep \cup {"create"} => task[w].todo # <<>>
  /\ Len(steps[w]) + Len(Ahead(w)) <= MaxSteps
  /\ flow[w].status \in Final => task[w].pc = "done"
  /\ task[w].pc = "done" /\ w \notin erred => flow[w].status = task[w].verdict
  /\ flow[w].status = "success" => w \notin erred
  /\ w \in erred => task[w].pc \in {"fail", "done", "dead"}
  /\ task[w].pc = "fail" => w \in erred

\* All steps before the last succeeded, none after it was started, and of the last one
\* the command and the verdict agree.
Last(w) == status[Command(w)]

CommandsDone(w) ==
  /\ \A i \in 1 .. MaxSteps :
       /\ i < Len(steps[w]) => status[<<w, i>>] = "success" /\ steps[w][i].status = "success"
       /\ i > Len(steps[w]) => status[<<w, i>>] = "none"
  /\ task[w].pc \in {"template", "submit"} => Last(w) = "none"
  /\ task[w].pc = "create" /\ steps[w] # <<>> =>
       Last(w) = "success" /\ steps[w][Current(w)].status = "success"
  /\ task[w].pc = "settle" \/ (Over(w) /\ steps[w] # <<>>) =>
       /\ Last(w) \notin {"queued", "running"}
       /\ Last(w) = "success" <=> task[w].verdict = "success"
  /\ Over(w) /\ steps[w] # <<>> => steps[w][Current(w)].status = task[w].verdict
  /\ Over(w) /\ steps[w] = <<>> => task[w].verdict = "failed"

\* Of a complete definition, the steps and the rows ahead are the whole.
Tracked(w) ==
  /\ whole[w] # <<>>
  /\ task[w].pc \in AtStep \cup {"create"} \/ (Over(w) /\ task[w].verdict = "success")

Whole(w) ==
  Tracked(w) =>
    /\ Len(whole[w]) = Len(steps[w]) + Len(Ahead(w))
    /\ \A i \in 1 .. Len(steps[w]) : steps[w][i].template = whole[w][i]
    /\ \A i \in 1 .. Len(Ahead(w)) : Ahead(w)[i].template = whole[w][Len(steps[w]) + i]

FlowInv(w) == Position(w) /\ CommandsDone(w) /\ Whole(w)

Inv == TypeOK /\ SavesKnown /\ ScriptRuns /\ \A w \in Flows : FlowInv(w)

-----------------------------------------------------------------------------
(* Sorting *)

\* A non-empty set of numbers has a least element.
LEMMA Least ==
  ASSUME NEW T, T \subseteq Nat, T # {}
  PROVE  \E x \in T : \A y \in T : x <= y
<1> DEFINE U == {1 .. x : x \in T}
           R == StrictSubsetOrdering(Nat)
<1>1. U \subseteq FiniteSubsetsOf(Nat) /\ U # {}
  <2>1. \A x \in T : 1 .. x \in SUBSET Nat /\ IsFiniteSet(1 .. x)
    BY FS_Interval
  <2> QED
    BY <2>1 DEF FiniteSubsetsOf
<1>2. \E I \in U : \A J \in U : <<J, I>> \notin R
  <2> HIDE DEF U, R
  <2>1. IsWellFoundedOn(R, FiniteSubsetsOf(Nat))
    BY FS_StrictSubsetOrderingWellFounded DEF R
  <2> QED
    BY <1>1, <2>1, WFMin
<1>3. PICK x \in T : \A y \in T : <<1 .. y, 1 .. x>> \notin R
  BY <1>2
<1>4. ASSUME NEW y \in T, y < x PROVE FALSE
  <2>1. 1 .. y \subseteq 1 .. x /\ x \in 1 .. x /\ x \notin 1 .. y
    BY <1>4
  <2>2. 1 .. y # 1 .. x /\ 1 .. y \in SUBSET Nat /\ 1 .. x \in SUBSET Nat
    BY <2>1
  <2>3. <<1 .. y, 1 .. x>> \in R
    BY <2>1, <2>2 DEF StrictSubsetOrdering
  <2> QED
    BY <1>3, <2>3
<1> QED
  BY <1>4

\* The numbers 1 to k in increasing order, each once: the identity.
SortsOnto(f, m, k) ==
  /\ \A i, j \in 1 .. m : i # j => f[i] # f[j]
  /\ \A i, j \in 1 .. m : i < j => f[i] <= f[j]
  /\ \A y \in 1 .. k : \E i \in 1 .. m : f[i] = y

LEMMA SortedIsIdentity ==
  ASSUME NEW m \in Nat, NEW k \in Nat, NEW f \in [1 .. m -> 1 .. k], SortsOnto(f, m, k)
  PROVE  m = k /\ \A i \in 1 .. m : f[i] = i
<1> USE DEF SortsOnto
<1> DEFINE Wrong == {i \in 1 .. m : f[i] # i}
<1>1. Wrong = {}
  <2> SUFFICES ASSUME Wrong # {} PROVE FALSE
    OBVIOUS
  <2>1. PICK i \in Wrong : \A j \in Wrong : i <= j
    <3>1. Wrong \subseteq Nat
      OBVIOUS
    <3> QED
      BY <3>1, Least
  <2>2. i \in 1 .. m /\ f[i] \in 1 .. k
    OBVIOUS
  <2>3. \A j \in 1 .. m : j < i => f[j] = j
    BY <2>1
  <2>4. f[i] > i
    <3>1. CASE f[i] < i
      <4>1. f[i] \in 1 .. m /\ f[f[i]] = f[i]
        BY <2>3, <3>1, <2>2
      <4> QED
        BY <4>1, <2>2, <3>1
    <3> QED
      BY <2>1, <3>1
  <2>5. PICK j \in 1 .. m : f[j] = i
    BY <2>4, <2>2
  <2>6. j # i /\ ~(j < i)
    BY <2>3, <2>4, <2>5
  <2>7. f[i] <= f[j]
    BY <2>6, <2>2
  <2> QED
    BY <2>4, <2>5, <2>7, <2>2
<1>2. \A i \in 1 .. m : f[i] = i
  BY <1>1
<1>3. m <= k
  <2>1. CASE m = 0
    BY <2>1
  <2>2. CASE m > 0
    BY <1>2, <2>2
  <2> QED
    BY <2>1, <2>2
<1>4. k <= m
  <2>1. CASE k = 0
    BY <2>1
  <2>2. CASE k > 0
    BY <1>2, <2>2
  <2> QED
    BY <2>1, <2>2
<1> QED
  BY <1>2, <1>3, <1>4

LEMMA SortedTyped ==
  ASSUME NEW S, NEW s \in Sorted(S)
  PROVE  s \in Seq(S) /\ Len(s) <= MaxSteps /\ (s = <<>> <=> S = {})
<1>1. PICK n \in 0 .. MaxSteps : s \in [1 .. n -> S] /\ \A r \in S : \E i \in DOMAIN s : s[i] = r
  BY DEF Sorted
<1>2. s \in Seq(S) /\ Len(s) = n /\ DOMAIN s = 1 .. n
  BY <1>1, BoundsAssumption
<1>3. s = <<>> => S = {}
  BY <1>1, <1>2
<1>4. S = {} => n = 0
  BY <1>1, BoundsAssumption
<1> QED
  BY <1>2, <1>3, <1>4, BoundsAssumption

\* The rows of one definition, sorted, are the definition in its order.
RowsFor(n, d) == {[save |-> n, order |-> i, template |-> d[i]] : i \in DOMAIN d}

LEMMA SortedDefinition ==
  ASSUME NEW n, NEW T, NEW d \in Seq(T), NEW s \in Sorted(RowsFor(n, d))
  PROVE  Len(s) = Len(d) /\ \A i \in 1 .. Len(s) : s[i].template = d[i]
<1> DEFINE k == Len(d)
           m == Len(s)
           R == {[save |-> n, order |-> i, template |-> d[i]] : i \in 1 .. k}
<1>1. k \in Nat /\ DOMAIN d = 1 .. k
  OBVIOUS
<1>2. s \in Seq(R) /\ m \in Nat /\ DOMAIN s = 1 .. m /\ s \in Sorted(R)
  <2>1. s \in Sorted(R)
    BY <1>1 DEF RowsFor
  <2> HIDE DEF R
  <2> QED
    BY <2>1, SortedTyped
<1>3. \A i \in 1 .. m : \E j \in 1 .. k : s[i] = [save |-> n, order |-> j, template |-> d[j]]
  BY <1>2
<1>4. \A i \in 1 .. m : s[i].order \in 1 .. k /\ s[i].template = d[s[i].order]
                        /\ s[i] = [save |-> n, order |-> s[i].order, template |-> d[s[i].order]]
  <2> TAKE i \in 1 .. m
  <2>1. PICK j \in 1 .. k : s[i] = [save |-> n, order |-> j, template |-> d[j]]
    BY <1>3
  <2> QED
    BY <2>1
<1>5. /\ \A r \in R : \E i \in 1 .. m : s[i] = r
      /\ \A i, j \in 1 .. m : i # j => s[i] # s[j]
      /\ \A i, j \in 1 .. m : i < j => s[i].order <= s[j].order
  BY <1>2 DEF Sorted
<1>6. PICK f \in [1 .. m -> 1 .. k] : \A i \in 1 .. m : f[i] = s[i].order
  <2>1. [i \in 1 .. m |-> s[i].order] \in [1 .. m -> 1 .. k]
    BY <1>4
  <2> QED
    BY <2>1
<1>7. \A i, j \in 1 .. m : i # j => f[i] # f[j]
  <2> SUFFICES ASSUME NEW i \in 1 .. m, NEW j \in 1 .. m, i # j, s[i].order = s[j].order
               PROVE  FALSE
    BY <1>6
  <2>1. s[i] = s[j]
    BY <1>4
  <2> QED
    BY <1>5, <2>1
<1>8. \A i, j \in 1 .. m : i < j => f[i] <= f[j]
  BY <1>5, <1>6
<1>9. \A y \in 1 .. k : \E i \in 1 .. m : f[i] = y
  <2> SUFFICES ASSUME NEW y \in 1 .. k PROVE \E i \in 1 .. m : s[i].order = y
    BY <1>6
  <2>1. [save |-> n, order |-> y, template |-> d[y]] \in R
    OBVIOUS
  <2>2. PICK i \in 1 .. m : s[i] = [save |-> n, order |-> y, template |-> d[y]]
    BY <2>1, <1>5
  <2> QED
    BY <2>2
<1>10. m = k /\ \A i \in 1 .. m : f[i] = i
  <2>1. SortsOnto(f, m, k)
    BY <1>7, <1>8, <1>9 DEF SortsOnto
  <2> HIDE DEF k, m
  <2> QED
    BY <1>1, <1>2, <1>6, <2>1, SortedIsIdentity
<1>11. \A i \in 1 .. m : s[i].order = i
  BY <1>6, <1>10
<1>12. ASSUME NEW i \in 1 .. m PROVE s[i].template = d[i]
  <2>1. s[i].template = d[s[i].order] /\ s[i].order = i
    BY <1>4, <1>11
  <2> QED
    BY <2>1, Zenon
<1> QED
  BY <1>10, <1>12

\* A definition is what administrators save.
LEMMA PlansTyped ==
  ASSUME TypeOK, NEW n \in Saves
  PROVE  /\ n \in Nat /\ n + 1 \in 1 .. Len(plans) /\ plans[n + 1] \in Definitions
         /\ plans[n + 1] \in Seq(Templates) /\ Len(plans[n + 1]) \in 1 .. MaxSteps
         /\ DOMAIN plans[n + 1] = 1 .. Len(plans[n + 1])
<1>1. n \in Nat /\ n + 1 \in 1 .. Len(plans) /\ plans[n + 1] \in Definitions
  BY BoundsAssumption DEF TypeOK, Saves
<1> QED
  BY <1>1, DefinitionsAssumption

-----------------------------------------------------------------------------
(* Types *)

LEMMA RestTyped == Rest \in Task
  BY DEF Rest, Task, TaskPc, Final

LEMMA InvInit == Init => Inv
<1> SUFFICES ASSUME Init PROVE Inv
  OBVIOUS
<1>1. PICK d \in Definitions : plans = <<d>>
  BY DEF Init
<1>2. d \in Seq(Templates) /\ Len(d) \in 1 .. MaxSteps /\ DOMAIN d = 1 .. Len(d)
  BY DefinitionsAssumption
<1>3. plans \in Seq(Definitions) /\ Len(plans) = 1 /\ plans[1] = d
  BY <1>1
<1>4. rows \subseteq Row
  <2>1. rows = {[save |-> 0, order |-> i, template |-> d[i]] : i \in 1 .. Len(d)}
    BY <1>2, <1>3 DEF Init, RowsOf
  <2>2. ASSUME NEW i \in 1 .. Len(d)
        PROVE  i \in 1 .. MaxSteps /\ d[i] \in Templates /\ 0 \in 0 .. MaxChanges
    BY <1>2, BoundsAssumption
  <2> QED
    BY <2>1, <2>2 DEF Row
<1>5. TypeOK
  <2>1. /\ saving \in [Admins -> [save : 0 .. MaxChanges, next : 0 .. MaxSteps + 1]]
        /\ changes \in 0 .. MaxChanges /\ faults \in 0 .. MaxFaults
    BY BoundsAssumption DEF Init
  <2>2. steps \in [Flows -> Seq(Step)] /\ \A w \in Flows : Len(steps[w]) <= MaxSteps
    BY BoundsAssumption DEF Init
  <2>3. task \in [Flows -> Task]
    BY RestTyped DEF Init
  <2>4. Len(plans) \in 1 .. MaxChanges + 1
    BY <1>3, BoundsAssumption
  <2>5. flow \in [Flows -> [status : {"none", "queued", "running"} \cup Final, linked : BOOLEAN]]
    BY DEF Init
  <2>6. /\ status \in [CommandIds -> {"none", "queued", "running", "success", "failed", "cancelled"}]
        /\ script \in [CommandIds -> {"idle", "open", "left"}]
        /\ starts \in [CommandIds -> 0 .. 1]
    BY DEF Init, Commands!Init
  <2> QED
    BY <1>3, <1>4, <2>1, <2>2, <2>3, <2>4, <2>5, <2>6 DEF Init, TypeOK
<1>6. SavesKnown
  BY <1>3 DEF Init, SavesKnown
<1>7. ScriptRuns
  BY DEF Init, Commands!Init, ScriptRuns
<1>8. ASSUME NEW w \in Flows PROVE FlowInv(w)
  <2>1. /\ steps[w] = <<>> /\ task[w].pc = "idle" /\ task[w].verdict = "failed"
        /\ flow[w].status = "none" /\ whole[w] = <<>> /\ erred = {}
    BY DEF Init, Rest
  <2>2. \A i \in 1 .. MaxSteps : status[<<w, i>>] = "none"
    BY DEF Init, Commands!Init, CommandIds
  <2>3. Ahead(w) = <<>>
    BY <2>1 DEF Ahead, AtStep
  <2>4. Position(w)
    BY <2>1, <2>3, BoundsAssumption DEF Position, Before, AtStep, Final
  <2>5. CommandsDone(w)
    BY <2>1, <2>2 DEF CommandsDone, Over
  <2> QED
    BY <2>1, <2>4, <2>5 DEF FlowInv, Whole, Tracked
<1> QED
  BY <1>5, <1>6, <1>7, <1>8 DEF Inv

\* A step of the command runner moves one command on: nothing that ended changes, and
\* scripts are as the records say.
Advances(c) ==
  status'[c] # status[c] => status[c] \in {"queued", "running"} /\ status'[c] # "none"

LEMMA CommandMoves ==
  ASSUME TypeOK, ScriptRuns, NEW c \in CommandIds, RunCommand(c) \/ CancelCommand(c)
  PROVE  /\ status' \in [CommandIds ->
                         {"none", "queued", "running", "success", "failed", "cancelled"}]
         /\ script' \in [CommandIds -> {"idle", "open", "left"}]
         /\ starts' \in [CommandIds -> 0 .. 1]
         /\ ScriptRuns' /\ \A d \in CommandIds : Advances(d)
<1> USE DEF TypeOK, ScriptRuns, Advances
<1>1. CASE Commands!Begin(c)
  BY <1>1 DEF Commands!Begin
<1>2. CASE Commands!Launch(c)
  <2>1. starts[c] = 0 /\ starts' = [starts EXCEPT ![c] = 1]
    <3>1. starts[c] \in 0 .. 1 /\ starts[c] < 1 /\ starts' = [starts EXCEPT ![c] = starts[c] + 1]
      BY <1>2 DEF Commands!Launch
    <3>2. starts[c] = 0
      BY <3>1
    <3> QED
      BY <3>1, <3>2
  <2> QED
    BY <1>2, <2>1 DEF Commands!Launch
<1>3. CASE Commands!Stop(c)
  BY <1>3 DEF Commands!Stop
<1>6. CASE Commands!Detach(c)
  BY <1>6 DEF Commands!Detach
<1>4. ASSUME NEW verdict \in Final, Commands!Conclude(c, verdict)
      PROVE  /\ status' \in [CommandIds ->
                             {"none", "queued", "running", "success", "failed", "cancelled"}]
             /\ script' \in [CommandIds -> {"idle", "open", "left"}]
             /\ starts' \in [CommandIds -> 0 .. 1]
             /\ ScriptRuns' /\ \A d \in CommandIds : Advances(d)
  BY <1>4 DEF Commands!Conclude, Final
<1>5. CASE Commands!Cancel(c)
  BY <1>5 DEF Commands!Cancel
<1> QED
  BY <1>1, <1>2, <1>3, <1>4, <1>5, <1>6 DEF RunCommand, CancelCommand

-----------------------------------------------------------------------------
(* What a step does to the task and the steps of its run *)

Moved(w, pc, todo, verdict) ==
  /\ task' \in [Flows -> Task]
  /\ task'[w].pc = pc /\ task'[w].todo = todo /\ task'[w].verdict = verdict
  /\ \A v \in Flows \ {w} : task'[v] = task[v]

LEMMA GotoMoves ==
  ASSUME TypeOK, NEW w \in Flows, NEW pc \in TaskPc, Goto(w, pc)
  PROVE  Moved(w, pc, task[w].todo, task[w].verdict)
<1>0. task \in [Flows -> Task]
  BY DEF TypeOK
<1>1. [task[w] EXCEPT !.pc = pc] \in Task
  BY <1>0 DEF Task
<1> QED
  BY <1>0, <1>1 DEF Goto, Moved, Task

LEMMA VerdictMoves ==
  ASSUME TypeOK, NEW w \in Flows, NEW pc \in TaskPc, NEW verdict \in Final,
         Verdict(w, verdict, pc)
  PROVE  Moved(w, pc, task[w].todo, verdict)
<1>1. [task[w] EXCEPT !.verdict = verdict, !.pc = pc] \in Task
  BY DEF TypeOK, Task
<1>2. task' = [task EXCEPT ![w] = [task[w] EXCEPT !.verdict = verdict, !.pc = pc]]
  BY DEF Verdict, TypeOK, Task
<1> QED
  BY <1>1, <1>2 DEF Moved, TypeOK, Task

\* The last step of run w gets status x.
Marked(w, x) ==
  /\ steps' \in [Flows -> Seq(Step)]
  /\ Len(steps'[w]) = Len(steps[w])
  /\ steps'[w][Current(w)].status = x
  /\ \A i \in 1 .. Len(steps[w]) : steps'[w][i].template = steps[w][i].template
  /\ \A i \in 1 .. Len(steps[w]) : i # Current(w) => steps'[w][i].status = steps[w][i].status
  /\ \A v \in Flows \ {w} : steps'[v] = steps[v]

LEMMA StepMarked ==
  ASSUME TypeOK, NEW w \in Flows, steps[w] # <<>>, NEW x, NEW s \in Step,
         s.status = x, s.template = steps[w][Current(w)].template,
         steps' = [steps EXCEPT ![w] = [steps[w] EXCEPT ![Current(w)] = s]]
  PROVE  Marked(w, x)
<1>1. steps[w] \in Seq(Step) /\ Current(w) \in 1 .. Len(steps[w]) /\ Len(steps[w]) \in Nat
  BY DEF TypeOK, Current
<1>2. [steps[w] EXCEPT ![Current(w)] = s] \in Seq(Step)
  BY <1>1
<1>3. steps'[w] = [steps[w] EXCEPT ![Current(w)] = s]
  BY DEF TypeOK
<1> QED
  BY <1>1, <1>2, <1>3 DEF Marked, TypeOK

LEMMA LinkMarks ==
  ASSUME TypeOK, NEW w \in Flows, steps[w] # <<>>,
         steps' = [steps EXCEPT ![w][Current(w)].status = "running",
                                ![w][Current(w)].linked = TRUE]
  PROVE  Marked(w, "running")
<1> DEFINE s == [steps[w][Current(w)] EXCEPT !.status = "running", !.linked = TRUE]
<1>1. steps[w] \in Seq(Step) /\ Current(w) \in 1 .. Len(steps[w]) /\ Len(steps[w]) \in Nat
  BY DEF TypeOK, Current
<1>2. steps[w][Current(w)] \in Step
  BY <1>1
<1>3. s \in Step /\ s.status = "running" /\ s.template = steps[w][Current(w)].template
  BY <1>2 DEF Step
<1>4. steps' = [steps EXCEPT ![w] = [steps[w] EXCEPT ![Current(w)] = s]]
  <2> DEFINE n == Current(w)
             r == [steps EXCEPT ![w] = [steps[w] EXCEPT ![n] = [steps[w][n] EXCEPT !.status = "running"]]]
  <2>1. r[w] = [steps[w] EXCEPT ![n] = [steps[w][n] EXCEPT !.status = "running"]]
    BY DEF TypeOK
  <2>2. r[w][n] = [steps[w][n] EXCEPT !.status = "running"]
    BY <1>1, <2>1
  <2>3. steps' = [r EXCEPT ![w] = [r[w] EXCEPT ![n] = [r[w][n] EXCEPT !.linked = TRUE]]]
    OBVIOUS
  <2>4. steps' = [r EXCEPT ![w] = [r[w] EXCEPT ![n] = s]]
    BY <2>2, <2>3
  <2>5. [r[w] EXCEPT ![n] = s] = [steps[w] EXCEPT ![n] = s]
    BY <1>1, <2>1
  <2>6. [r EXCEPT ![w] = [steps[w] EXCEPT ![n] = s]] = [steps EXCEPT ![w] = [steps[w] EXCEPT ![n] = s]]
    BY DEF TypeOK
  <2> QED
    BY <2>4, <2>5, <2>6
<1> QED
  BY <1>3, <1>4, StepMarked

LEMMA StatusMarks ==
  ASSUME TypeOK, NEW w \in Flows, steps[w] # <<>>, NEW x \in Final,
         steps' = [steps EXCEPT ![w][Current(w)].status = x]
  PROVE  Marked(w, x)
<1> DEFINE s == [steps[w][Current(w)] EXCEPT !.status = x]
<1>1. steps[w] \in Seq(Step) /\ Current(w) \in 1 .. Len(steps[w]) /\ Len(steps[w]) \in Nat
  BY DEF TypeOK, Current
<1>2. steps[w][Current(w)] \in Step
  BY <1>1
<1>3. s \in Step /\ s.status = x /\ s.template = steps[w][Current(w)].template
  BY <1>2 DEF Step
<1>4. steps' = [steps EXCEPT ![w] = [steps[w] EXCEPT ![Current(w)] = s]]
  BY <1>1, <1>2 DEF TypeOK, Step
<1> QED
  BY <1>3, <1>4, StepMarked

\* A loaded run has its rows in front of it, or nothing to do.
LEMMA LoadMoves ==
  ASSUME TypeOK, NEW w \in Flows, LoadSteps(w)
  PROVE  \E s \in Sorted(rows) :
           Moved(w, IF ~flow[w].linked THEN "fail" ELSE IF rows = {} THEN "finish" ELSE "create",
                 s, task[w].verdict)
<1> DEFINE pc == IF ~flow[w].linked THEN "fail" ELSE IF rows = {} THEN "finish" ELSE "create"
<1>1. PICK s \in Sorted(rows) : task' = [task EXCEPT ![w].todo = s, ![w].pc = pc]
  BY DEF LoadSteps
<1>2. s \in Seq(Row)
  <2>1. s \in Seq(rows) /\ rows \subseteq Row
    BY SortedTyped DEF TypeOK
  <2> QED
    BY <2>1
<1>3. pc \in TaskPc
  BY DEF TaskPc
<1> HIDE DEF pc
<1>4. [task[w] EXCEPT !.todo = s, !.pc = pc] \in Task
  BY <1>2, <1>3 DEF TypeOK, Task
<1>5. task' = [task EXCEPT ![w] = [task[w] EXCEPT !.todo = s, !.pc = pc]]
  BY <1>1 DEF TypeOK, Task
<1>6. Moved(w, pc, s, task[w].verdict)
  BY <1>4, <1>5 DEF Moved, TypeOK, Task
<1> QED
  BY <1>6 DEF pc

\* The step of a row is made behind the others.
Created(w) ==
  /\ steps' \in [Flows -> Seq(Step)]
  /\ steps'[w] = Append(steps[w], [template |-> Head(task[w].todo).template,
                                   status |-> "queued", linked |-> FALSE])
  /\ \A v \in Flows \ {w} : steps'[v] = steps[v]

LEMMA CreateMoves ==
  ASSUME TypeOK, NEW w \in Flows, task[w].todo # <<>>, CreateRunStep(w)
  PROVE  \/ Moved(w, "template", task[w].todo, task[w].verdict) /\ Created(w) /\ erred' = erred
         \/ Moved(w, "fail", task[w].todo, task[w].verdict) /\ steps' = steps /\ erred' = erred \cup {w}
<1> DEFINE row == Head(task[w].todo)
<1>1. "template" \in TaskPc /\ "fail" \in TaskPc
  BY DEF TaskPc
<1>2. row \in Row
  BY DEF TypeOK, Task
<1>3. CASE row \in rows
  <2>1. [template |-> row.template, status |-> "queued", linked |-> FALSE] \in Step
    BY <1>2 DEF Row, Step
  <2>2. steps' = [steps EXCEPT ![w] = Append(@, [template |-> row.template, status |-> "queued",
                                                linked |-> FALSE])]
        /\ Goto(w, "template") /\ erred' = erred
    BY <1>3 DEF CreateRunStep
  <2>3. Created(w)
    BY <2>1, <2>2 DEF Created, TypeOK
  <2> QED
    BY <1>1, <2>2, <2>3, GotoMoves
<1>4. CASE row \notin rows
  BY <1>1, <1>4, GotoMoves DEF CreateRunStep
<1> QED
  BY <1>3, <1>4

\* After the last step, or a failed one, the run is finished; else the next row is next.
LEMMA SettleMoves ==
  ASSUME TypeOK, NEW w \in Flows, task[w].todo # <<>>, MarkRunStepFinished(w)
  PROVE  Moved(w, IF task[w].verdict = "success" /\ Len(task[w].todo) > 1 THEN "create" ELSE "finish",
               Tail(task[w].todo), task[w].verdict)
<1> DEFINE pc == IF task[w].verdict = "success" /\ Len(task[w].todo) > 1 THEN "create" ELSE "finish"
           todo == Tail(task[w].todo)
<1>1. task' = [task EXCEPT ![w].todo = Tail(@), ![w].pc = pc]
  BY DEF MarkRunStepFinished
<1>2. todo \in Seq(Row) /\ pc \in TaskPc
  BY DEF TypeOK, Task, TaskPc
<1>3. task' = [task EXCEPT ![w] = [task[w] EXCEPT !.todo = Tail(task[w].todo), !.pc = pc]]
  <2> HIDE DEF pc
  <2> QED
    BY <1>1 DEF TypeOK, Task
<1> HIDE DEF pc, todo
<1>4. [task[w] EXCEPT !.todo = todo, !.pc = pc] \in Task
  <2>1. task[w] \in Task
    BY DEF TypeOK
  <2> QED
    BY <1>2, <2>1 DEF Task
<1>5. task' = [task EXCEPT ![w] = [task[w] EXCEPT !.todo = todo, !.pc = pc]]
  BY <1>3 DEF todo
<1>6. Moved(w, pc, todo, task[w].verdict)
  BY <1>4, <1>5 DEF Moved, TypeOK, Task
<1> QED
  BY <1>6 DEF pc, todo

-----------------------------------------------------------------------------
(* The invariant under each step *)

\* The task of another run, an administrator, or a command of it moves: nothing changes.
LEMMA FlowKept ==
  ASSUME TypeOK, NEW w \in Flows, FlowInv(w),
         steps'[w] = steps[w], task'[w] = task[w], whole'[w] = whole[w],
         flow'[w].status = flow[w].status, w \in erred' <=> w \in erred,
         \A i \in 1 .. MaxSteps : Advances(<<w, i>>)
  PROVE  FlowInv(w)'
<1>1. Ahead(w)' = Ahead(w) /\ Over(w)' = Over(w)
  BY DEF Ahead, Over
<1>2. Position(w)'
  BY <1>1 DEF FlowInv, Position
<1>3. Whole(w)'
  BY <1>1 DEF FlowInv, Whole, Tracked
<1>4. Len(steps[w]) \in Nat /\ Len(steps[w]) <= MaxSteps /\ (steps[w] # <<>> => Len(steps[w]) > 0)
  BY DEF TypeOK
<1>5. steps[w] # <<>> => Current(w) \in 1 .. MaxSteps
  BY <1>4, BoundsAssumption DEF Current
<1>6. Last(w) \notin {"queued", "running"} /\ steps[w] # <<>> => Last(w)' = Last(w)
  BY <1>5 DEF Last, Command, Current, Advances
<1>7. \A i \in 1 .. MaxSteps :
        status[<<w, i>>] \in {"none", "success"} => status'[<<w, i>>] = status[<<w, i>>]
  BY DEF Advances
<1>8. task[w].pc \in AtStep => steps[w] # <<>>
  BY DEF FlowInv, Position
<1>9. CommandsDone(w)'
  <2>1. \A i \in 1 .. MaxSteps :
          /\ i < Len(steps'[w]) => status'[<<w, i>>] = "success" /\ steps'[w][i].status = "success"
          /\ i > Len(steps'[w]) => status'[<<w, i>>] = "none"
    BY <1>7 DEF FlowInv, CommandsDone
  <2>2. task[w].pc \in {"template", "submit"} => Last(w)' = "none"
    BY <1>6, <1>8 DEF FlowInv, CommandsDone, AtStep
  <2>3. Current(w)' = Current(w)
    BY DEF Current
  <2>4. task[w].pc = "create" /\ steps[w] # <<>> => Last(w)' = "success"
    BY <1>6 DEF FlowInv, CommandsDone
  <2>5. task[w].pc = "settle" \/ (Over(w) /\ steps[w] # <<>>) => Last(w)' = Last(w)
    BY <1>6, <1>8 DEF FlowInv, CommandsDone, AtStep
  <2> QED
    BY <1>1, <2>1, <2>2, <2>3, <2>4, <2>5 DEF FlowInv, CommandsDone
<1> QED
  BY <1>2, <1>3, <1>9 DEF FlowInv

\* Administrators leave the runs alone, but for the link to the workflow.
LEMMA AdminKeeps ==
  ASSUME Inv, TypeOK', SavesKnown', UNCHANGED <<steps, task, whole, erred, commandVars>>,
         \A w \in Flows : flow'[w].status = flow[w].status
  PROVE  Inv'
<1>1. ScriptRuns'
  BY DEF Inv, ScriptRuns, commandVars
<1>2. ASSUME NEW w \in Flows PROVE FlowInv(w)'
  <2>1. \A i \in 1 .. MaxSteps : Advances(<<w, i>>)
    BY DEF Advances, commandVars
  <2> QED
    BY <2>1, FlowKept DEF Inv
<1> QED
  BY <1>1, <1>2 DEF Inv

\* A step of run w, which leaves the others and the administrators' work alone.
Alone(w) ==
  /\ UNCHANGED <<saving, plans, changes>>
  /\ \A v \in Flows \ {w} :
       /\ steps'[v] = steps[v] /\ task'[v] = task[v] /\ whole'[v] = whole[v]
       /\ flow'[v].status = flow[v].status /\ (v \in erred' <=> v \in erred)
       /\ \A i \in 1 .. MaxSteps : Advances(<<v, i>>)

LEMMA FlowSteps ==
  ASSUME Inv, TypeOK', ScriptRuns', NEW w \in Flows, Alone(w), FlowInv(w)'
  PROVE  Inv'
<1>1. SavesKnown'
  BY DEF Inv, SavesKnown, Saves, Alone
<1>2. ASSUME NEW v \in Flows PROVE FlowInv(v)'
  BY FlowKept DEF Inv, Alone
<1> QED
  BY <1>1, <1>2 DEF Inv

\* The definition a save under way writes.
LEMMA SaveHasPlan ==
  ASSUME TypeOK, SavesKnown, NEW a \in Admins, saving[a].next > 0
  PROVE  LET d == plans[saving[a].save + 1] IN
           /\ d \in Seq(Templates) /\ DOMAIN d = 1 .. Len(d) /\ Len(d) \in 1 .. MaxSteps
           /\ saving[a].next \in 1 .. Len(d)
<1>1. saving[a].save \in Saves /\ saving[a].next \in DOMAIN plans[saving[a].save + 1]
  BY DEF SavesKnown
<1> QED
  BY <1>1, PlansTyped

LEMMA SaveBegins == ASSUME Inv, NEW a \in Admins, SaveBegin(a) PROVE Inv'
<1>1. PICK d \in Definitions : plans' = Append(plans, d)
  BY DEF SaveBegin
<1>2. TypeOK /\ SavesKnown
  BY DEF Inv
<1>3. /\ plans \in Seq(Definitions) /\ Len(plans) \in 1 .. MaxChanges + 1 /\ changes \in Nat
      /\ changes' = changes + 1 /\ changes' \in 0 .. MaxChanges
  BY <1>2, BoundsAssumption DEF SaveBegin, Change, TypeOK
<1>4. /\ plans' \in Seq(Definitions) /\ Len(plans') = Len(plans) + 1
      /\ plans'[Len(plans) + 1] = d /\ \A i \in 1 .. Len(plans) : plans'[i] = plans[i]
  BY <1>1, <1>3
<1>5. Len(plans') <= changes' + 1 /\ Len(plans') \in 1 .. MaxChanges + 1 /\ Len(plans) \in 0 .. MaxChanges
  BY <1>2, <1>3, <1>4, BoundsAssumption DEF SavesKnown
<1>6. saving' = [saving EXCEPT ![a] = [save |-> Len(plans), next |-> 1]]
  BY DEF SaveBegin
<1>7. [save |-> Len(plans), next |-> 1] \in [save : 0 .. MaxChanges, next : 0 .. MaxSteps + 1]
  BY <1>5, BoundsAssumption
<1>8. TypeOK'
  BY <1>2, <1>3, <1>4, <1>5, <1>6, <1>7 DEF TypeOK, SaveBegin, flowVars, commandVars
<1>9. SavesKnown'
  <2> SUFFICES ASSUME NEW b \in Admins, saving'[b].next > 0
               PROVE  saving'[b].save \in Saves' /\ saving'[b].next \in DOMAIN plans'[saving'[b].save + 1]
    BY <1>5 DEF SavesKnown
  <2>1. CASE b = a
    <3>1. saving'[b].save = Len(plans) /\ saving'[b].next = 1
      BY <1>2, <1>6, <2>1 DEF TypeOK
    <3>2. 1 \in DOMAIN d
      BY DefinitionsAssumption
    <3>3. Len(plans) \in Saves'
      BY <1>3, <1>4, BoundsAssumption DEF Saves
    <3> QED
      BY <3>1, <3>2, <3>3, <1>4
  <2>2. CASE b # a
    <3>1. saving'[b] = saving[b]
      BY <1>2, <1>6, <2>2 DEF TypeOK
    <3>2. saving[b].save \in Saves /\ saving[b].next \in DOMAIN plans[saving[b].save + 1]
      BY <1>2, <3>1 DEF SavesKnown
    <3>3. saving[b].save \in Saves' /\ saving[b].save + 1 \in 1 .. Len(plans)
      BY <1>2, <1>3, <1>4, <3>2, BoundsAssumption DEF Saves
    <3> QED
      BY <3>1, <3>2, <3>3, <1>4
  <2> QED
    BY <2>1, <2>2
<1> QED
  BY <1>8, <1>9, AdminKeeps DEF SaveBegin, flowVars

LEMMA SaveRows == ASSUME Inv, NEW a \in Admins, SaveRow(a) PROVE Inv'
<1> DEFINE n == saving[a].save
           i == saving[a].next
           d == plans[n + 1]
<1>1. TypeOK /\ SavesKnown
  BY DEF Inv
<1>2. n \in 0 .. MaxChanges /\ i \in 1 .. MaxSteps + 1
  BY <1>1, BoundsAssumption DEF TypeOK, SaveRow
<1>3. /\ d \in Seq(Templates) /\ DOMAIN d = 1 .. Len(d) /\ Len(d) \in 1 .. MaxSteps /\ i \in 1 .. Len(d)
  BY <1>1, <1>2, SaveHasPlan, BoundsAssumption
<1>4. [save |-> n, order |-> i, template |-> d[i]] \in Row
  BY <1>2, <1>3, BoundsAssumption DEF Row
<1>5. PICK j \in {0, i + 1} : saving' = [saving EXCEPT ![a].next = j] /\ (j = 0 \/ i # Len(d))
  BY DEF SaveRow
<1>6. j \in 0 .. MaxSteps + 1 /\ (j > 0 => j \in 1 .. Len(d))
  BY <1>3, <1>5, BoundsAssumption
<1>7. saving' \in [Admins -> [save : 0 .. MaxChanges, next : 0 .. MaxSteps + 1]]
  BY <1>1, <1>5, <1>6 DEF TypeOK
<1>8. rows' \subseteq Row
  BY <1>1, <1>4 DEF TypeOK, SaveRow
<1>9. TypeOK'
  BY <1>1, <1>7, <1>8 DEF TypeOK, SaveRow, flowVars, commandVars
<1>10. SavesKnown'
  <2> SUFFICES ASSUME NEW b \in Admins, saving'[b].next > 0
               PROVE  saving'[b].save \in Saves /\ saving'[b].next \in DOMAIN plans[saving'[b].save + 1]
    BY <1>1 DEF SavesKnown, SaveRow, Saves
  <2>1. CASE b = a
    <3>1. saving'[b].save = n /\ saving'[b].next = j
      BY <1>1, <1>5, <2>1 DEF TypeOK
    <3>2. n \in Saves
      BY <1>1, <1>2, BoundsAssumption DEF SavesKnown
    <3> QED
      BY <3>1, <3>2, <1>3, <1>6
  <2>2. CASE b # a
    BY <1>1, <1>5, <2>2 DEF TypeOK, SavesKnown
  <2> QED
    BY <2>1, <2>2
<1> QED
  BY <1>9, <1>10, AdminKeeps DEF SaveRow, flowVars

LEMMA AdminNext ==
  ASSUME Inv,
         \/ DeleteWorkflow
         \/ \E a \in Admins : SaveBegin(a) \/ SaveRow(a) \/ SaveFails(a)
         \/ \E t \in Templates : SwitchTemplate(t) \/ DeleteTemplate(t)
  PROVE  Inv'
<1>1. TypeOK /\ SavesKnown
  BY DEF Inv
<1>2. CASE DeleteWorkflow
  <2>1. /\ flow' \in [Flows -> [status : {"none", "queued", "running"} \cup Final, linked : BOOLEAN]]
        /\ \A w \in Flows : flow'[w].status = flow[w].status
    BY <1>1, <1>2 DEF TypeOK, DeleteWorkflow
  <2>2. changes \in Nat /\ changes' = changes + 1 /\ changes' \in 0 .. MaxChanges
    BY <1>1, <1>2, BoundsAssumption DEF TypeOK, DeleteWorkflow, Change
  <2>3. TypeOK'
    BY <1>1, <1>2, <2>1, <2>2 DEF TypeOK, DeleteWorkflow, commandVars
  <2>4. SavesKnown'
    BY <1>1, <1>2, <2>2 DEF TypeOK, SavesKnown, Saves, DeleteWorkflow
  <2> QED
    BY <1>2, <2>1, <2>3, <2>4, AdminKeeps DEF DeleteWorkflow
<1>3. ASSUME NEW a \in Admins, SaveFails(a) PROVE Inv'
  <2>1. 0 \in 0 .. MaxSteps + 1 /\ faults' \in 0 .. MaxFaults
    BY <1>1, <1>3, BoundsAssumption DEF TypeOK, SaveFails, Fault
  <2>2. TypeOK'
    BY <1>1, <1>3, <2>1 DEF TypeOK, SaveFails, flowVars, commandVars
  <2>3. SavesKnown'
    BY <1>1, <1>3 DEF TypeOK, SavesKnown, Saves, SaveFails
  <2> QED
    BY <1>3, <2>2, <2>3, AdminKeeps DEF SaveFails, flowVars
<1>4. ASSUME NEW t \in Templates, SwitchTemplate(t) \/ DeleteTemplate(t) PROVE Inv'
  <2>1. changes \in Nat /\ changes' = changes + 1 /\ changes' \in 0 .. MaxChanges
    BY <1>1, <1>4, BoundsAssumption DEF TypeOK, SwitchTemplate, DeleteTemplate, Change
  <2>2. template' \in [Templates -> {"enabled", "disabled", "deleted"}]
    BY <1>1, <1>4 DEF TypeOK, SwitchTemplate, DeleteTemplate
  <2>3. rows' \subseteq Row
    BY <1>1, <1>4 DEF TypeOK, SwitchTemplate, DeleteTemplate
  <2>4. TypeOK'
    BY <1>1, <1>4, <2>1, <2>2, <2>3
       DEF TypeOK, SwitchTemplate, DeleteTemplate, flowVars, commandVars
  <2>5. SavesKnown'
    BY <1>1, <1>4, <2>1 DEF TypeOK, SavesKnown, Saves, SwitchTemplate, DeleteTemplate
  <2> QED
    BY <1>4, <2>4, <2>5, AdminKeeps DEF SwitchTemplate, DeleteTemplate, flowVars
<1> QED
  BY <1>2, <1>3, <1>4, SaveBegins, SaveRows

LEMMA Starts == ASSUME Inv, NEW w \in Flows, StartWorkflowRun(w) PROVE Inv'
<1>1. TypeOK /\ ScriptRuns /\ FlowInv(w) /\ Position(w) /\ CommandsDone(w)
  BY DEF Inv, FlowInv
<1>2. /\ task[w].pc = "idle" /\ steps[w] = <<>> /\ steps'[w] = <<>> /\ w \notin erred'
      /\ task[w].verdict = "failed" /\ \A v \in Flows \ {w} : flow'[v] = flow[v]
  BY <1>1 DEF StartWorkflowRun, Position, Before, TypeOK
<1>3. Moved(w, "mark", task[w].todo, task[w].verdict)
  BY <1>1, GotoMoves DEF StartWorkflowRun, TaskPc
<1>4. flow' \in [Flows -> [status : {"none", "queued", "running"} \cup Final, linked : BOOLEAN]]
      /\ flow'[w].status = "queued"
  BY <1>1 DEF StartWorkflowRun, TypeOK
<1>5. TypeOK'
  BY <1>1, <1>3, <1>4 DEF StartWorkflowRun, TypeOK, Moved, adminVars, commandVars
<1>6. Alone(w)
  BY <1>2, <1>3 DEF StartWorkflowRun, Alone, Moved, Advances, adminVars, commandVars
<1>7. Ahead(w)' = <<>> /\ ~Over(w)'
  BY <1>3 DEF Ahead, Moved, AtStep, Over
<1>8. Position(w)'
  BY <1>1, <1>2, <1>3, <1>4, <1>7, BoundsAssumption DEF Position, Moved, Before, AtStep, Final
<1>9. CommandsDone(w)'
  BY <1>1, <1>2, <1>3, <1>7 DEF CommandsDone, Moved, StartWorkflowRun, commandVars
<1>10. Whole(w)'
  BY <1>3, <1>7 DEF Whole, Tracked, Moved, AtStep
<1> QED
  BY <1>1, <1>5, <1>6, <1>8, <1>9, <1>10, FlowSteps
     DEF FlowInv, ScriptRuns, StartWorkflowRun, commandVars

\* The run is marked running: the task moves on and the record with it, nothing else.
LEMMA Marks == ASSUME Inv, NEW w \in Flows, MarkWorkflowRunning(w) PROVE Inv'
<1>1. TypeOK /\ ScriptRuns /\ FlowInv(w) /\ Position(w) /\ CommandsDone(w)
  BY DEF Inv, FlowInv
<1>2. /\ task[w].pc = "mark" /\ steps[w] = <<>> /\ steps'[w] = <<>> /\ w \notin erred'
      /\ task[w].verdict = "failed" /\ \A v \in Flows \ {w} : flow'[v] = flow[v]
  BY <1>1 DEF MarkWorkflowRunning, Position, Before, TypeOK
<1>3. Moved(w, "load", task[w].todo, task[w].verdict)
  BY <1>1, GotoMoves DEF MarkWorkflowRunning, TaskPc
<1>4. flow' \in [Flows -> [status : {"none", "queued", "running"} \cup Final, linked : BOOLEAN]]
      /\ flow'[w].status = "running"
  BY <1>1 DEF MarkWorkflowRunning, TypeOK
<1>5. TypeOK'
  BY <1>1, <1>3, <1>4 DEF MarkWorkflowRunning, TypeOK, Moved, adminVars, commandVars
<1>6. Alone(w)
  BY <1>2, <1>3 DEF MarkWorkflowRunning, Alone, Moved, Advances, adminVars, commandVars
<1>7. Ahead(w)' = <<>> /\ ~Over(w)'
  BY <1>3 DEF Ahead, Moved, AtStep, Over
<1>8. Position(w)'
  BY <1>1, <1>2, <1>3, <1>4, <1>7, BoundsAssumption DEF Position, Moved, Before, AtStep, Final
<1>9. CommandsDone(w)'
  BY <1>1, <1>2, <1>3, <1>7 DEF CommandsDone, Moved, MarkWorkflowRunning, commandVars
<1>10. Whole(w)'
  BY <1>3, <1>7 DEF Whole, Tracked, Moved, AtStep
<1> QED
  BY <1>1, <1>5, <1>6, <1>8, <1>9, <1>10, FlowSteps
     DEF FlowInv, ScriptRuns, MarkWorkflowRunning, commandVars

\* The definition recorded for a run is the one whose rows it loads.
LEMMA LoadsWhole ==
  ASSUME TypeOK, NEW w \in Flows, LoadSteps(w), NEW s \in Sorted(rows)
  PROVE  /\ whole' \in [Flows -> Definitions \cup {<<>>}]
         /\ \A v \in Flows \ {w} : whole'[v] = whole[v]
         /\ whole'[w] # <<>> =>
              Len(s) = Len(whole'[w]) /\ \A i \in 1 .. Len(s) : s[i].template = whole'[w][i]
<1> DEFINE Some == CHOOSE n \in Saves : rows = RowsOf(n)
<1>1. CASE \E n \in Saves : rows = RowsOf(n)
  <2>1. Some \in Saves /\ rows = RowsOf(Some)
    BY <1>1
  <2>2. whole' = [whole EXCEPT ![w] = plans[Some + 1]]
    BY <1>1 DEF LoadSteps
  <2> HIDE DEF Some
  <2>3. plans[Some + 1] \in Definitions /\ plans[Some + 1] \in Seq(Templates)
    BY <2>1, PlansTyped
  <2>4. Len(s) = Len(plans[Some + 1]) /\ \A i \in 1 .. Len(s) : s[i].template = plans[Some + 1][i]
    <3>1. RowsOf(Some) = RowsFor(Some, plans[Some + 1])
      BY DEF RowsOf, RowsFor
    <3> QED
      BY <2>1, <2>3, <3>1, SortedDefinition
  <2> QED
    BY <2>2, <2>3, <2>4 DEF TypeOK
<1>2. CASE ~\E n \in Saves : rows = RowsOf(n)
  <2>1. whole' = [whole EXCEPT ![w] = <<>>]
    BY <1>2 DEF LoadSteps
  <2> QED
    BY <2>1 DEF TypeOK
<1> QED
  BY <1>1, <1>2

LEMMA Loads == ASSUME Inv, NEW w \in Flows, LoadSteps(w) PROVE Inv'
<1>1. TypeOK /\ ScriptRuns /\ FlowInv(w) /\ Position(w) /\ CommandsDone(w)
  BY DEF Inv, FlowInv
<1>2. /\ task[w].pc = "load" /\ steps[w] = <<>> /\ steps'[w] = <<>> /\ w \notin erred
      /\ task[w].verdict = "failed" /\ flow' = flow /\ flow[w].status \notin Final \cup {"none"}
  BY <1>1 DEF LoadSteps, Position, Before, TypeOK
<1> DEFINE pc == IF ~flow[w].linked THEN "fail" ELSE IF rows = {} THEN "finish" ELSE "create"
<1>3. PICK s \in Sorted(rows) : Moved(w, pc, s, task[w].verdict)
  BY <1>1, LoadMoves
<1>4. s \in Seq(rows) /\ Len(s) \in Nat /\ Len(s) <= MaxSteps /\ (s = <<>> <=> rows = {})
  BY SortedTyped
<1>5. erred' = (IF pc = "fail" THEN erred \cup {w} ELSE erred)
  BY DEF LoadSteps
<1>6. TypeOK'
  <2>1. erred' \subseteq Flows
    BY <1>1, <1>5 DEF TypeOK
  <2>2. whole' \in [Flows -> Definitions \cup {<<>>}]
    BY <1>1, LoadsWhole
  <2> QED
    BY <1>1, <1>3, <2>1, <2>2 DEF LoadSteps, TypeOK, Moved, adminVars, commandVars
<1>7. Alone(w)
  <2>1. \A v \in Flows \ {w} : whole'[v] = whole[v] /\ (v \in erred' <=> v \in erred)
    BY <1>1, <1>5, LoadsWhole
  <2> QED
    BY <2>1, <1>3 DEF LoadSteps, Alone, Moved, Advances, adminVars, commandVars
<1>8. /\ task'[w].pc = pc /\ task'[w].todo = s /\ task'[w].verdict = "failed"
      /\ pc \in {"fail", "finish", "create"} /\ (pc = "create" => s # <<>>)
  BY <1>2, <1>3, <1>4 DEF Moved
<1> HIDE DEF pc
<1>9. Ahead(w)' = (IF pc = "create" THEN s ELSE <<>>) /\ (Over(w)' => pc = "finish")
  BY <1>8 DEF Ahead, AtStep, Over
<1>10. Position(w)'
  BY <1>1, <1>2, <1>4, <1>5, <1>8, <1>9, BoundsAssumption DEF Position, Before, AtStep, Final
<1>11. CommandsDone(w)'
  BY <1>1, <1>2, <1>8, <1>9 DEF CommandsDone, LoadSteps, commandVars
<1>12. Whole(w)'
  <2>1. ASSUME Tracked(w)' PROVE whole'[w] # <<>> /\ pc = "create"
    BY <1>8, <1>9, <2>1 DEF Tracked, AtStep
  <2>2. whole'[w] # <<>> =>
          Len(s) = Len(whole'[w]) /\ \A i \in 1 .. Len(s) : s[i].template = whole'[w][i]
    BY <1>1, LoadsWhole
  <2> QED
    BY <1>2, <1>4, <1>9, <2>1, <2>2 DEF Whole
<1> QED
  BY <1>1, <1>6, <1>7, <1>10, <1>11, <1>12, FlowSteps
     DEF FlowInv, ScriptRuns, LoadSteps, commandVars

\* An error takes the task to its end with what it has done so far.
LEMMA Errs ==
  ASSUME Inv, TypeOK', NEW w \in Flows, task[w].pc \notin Ended,
         NEW verdict, Moved(w, "fail", task[w].todo, verdict), erred' = erred \cup {w},
         UNCHANGED <<steps, flow, whole, status, script, saving, plans, changes>>
  PROVE  Inv'
<1>1. TypeOK /\ ScriptRuns /\ FlowInv(w) /\ Position(w) /\ CommandsDone(w)
  BY DEF Inv, FlowInv
<1>2. task'[w].pc = "fail" /\ ~Over(w)' /\ Ahead(w)' = <<>> /\ w \in erred'
  BY DEF Moved, Over, Ahead, AtStep
<1>3. flow[w].status \notin Final \cup {"none"} /\ Len(steps[w]) \in Nat /\ Len(steps[w]) <= MaxSteps
  BY <1>1 DEF Position, Ended, TypeOK
<1>4. Position(w)'
  BY <1>2, <1>3, BoundsAssumption DEF Position, Before, AtStep, Final
<1>5. CommandsDone(w)'
  BY <1>1, <1>2 DEF CommandsDone
<1>6. Whole(w)'
  BY <1>2 DEF Whole, Tracked, AtStep
<1>7. Alone(w)
  BY DEF Alone, Moved, Advances
<1> QED
  BY <1>1, <1>4, <1>5, <1>6, <1>7, FlowSteps DEF FlowInv, ScriptRuns

\* A sequence that is not empty, taken apart.
Parts(s, r, k) ==
  /\ r = Tail(s) /\ k = Len(r) /\ Len(s) = k + 1 /\ Head(s) = s[1]
  /\ \A j \in 1 .. k : r[j] = s[j + 1]

LEMMA TailParts ==
  ASSUME NEW T, NEW s \in Seq(T), s # <<>>
  PROVE  \E r \in Seq(T), k \in Nat : Parts(s, r, k)
<1>1. Tail(s) \in Seq(T)
  OBVIOUS
<1>2. Len(Tail(s)) \in Nat
  OBVIOUS
<1>3. Len(s) = Len(Tail(s)) + 1
  OBVIOUS
<1>4. \A j \in 1 .. Len(Tail(s)) : Tail(s)[j] = s[j + 1]
  OBVIOUS
<1>5. Head(s) = s[1]
  OBVIOUS
<1> QED
  BY <1>1, <1>2, <1>3, <1>4, <1>5 DEF Parts

LEMMA Creates == ASSUME Inv, NEW w \in Flows, CreateRunStep(w) PROVE Inv'
<1>1. TypeOK /\ ScriptRuns /\ FlowInv(w) /\ Position(w) /\ CommandsDone(w) /\ Whole(w)
  BY DEF Inv, FlowInv
<1>n. PICK n \in Nat : n = Len(steps[w])
  BY <1>1 DEF TypeOK
<1>t. PICK todo \in Seq(Row) : todo = task[w].todo
  BY <1>1 DEF TypeOK, Task
<1>2. /\ task[w].pc = "create" /\ todo # <<>> /\ w \notin erred
      /\ flow' = flow /\ flow[w].status \notin Final \cup {"none"}
  BY <1>1, <1>t DEF CreateRunStep, Position
<1>3. CASE Moved(w, "fail", todo, task[w].verdict) /\ steps' = steps /\ erred' = erred \cup {w}
  <2>1. TypeOK'
    BY <1>1, <1>3 DEF CreateRunStep, TypeOK, Moved, adminVars, commandVars
  <2> QED
    BY <1>1, <1>2, <1>3, <1>t, <2>1, Errs DEF CreateRunStep, adminVars, commandVars, Ended
<1>4. CASE Moved(w, "template", todo, task[w].verdict) /\ Created(w) /\ erred' = erred
  <2>1. steps[w] \in Seq(Step) /\ n <= MaxSteps /\ MaxSteps \in Nat /\ n \in Nat
    BY <1>1, <1>n, BoundsAssumption DEF TypeOK
  <2>p. PICK r \in Seq(Row), k \in Nat : Parts(todo, r, k)
    BY <1>2, <1>t, TailParts
  <2>2. /\ r = Tail(todo) /\ k = Len(r) /\ Len(todo) = k + 1 /\ Head(todo) = todo[1]
        /\ r \in Seq(Row) /\ k \in Nat /\ \A j \in 1 .. k : r[j] = todo[j + 1]
    BY <2>p DEF Parts
  <2>3. Ahead(w) = todo /\ n + (k + 1) <= MaxSteps
    BY <1>1, <1>2, <1>n, <1>t, <2>2 DEF Ahead, AtStep, Position
  <2>4. task'[w].pc = "template" /\ task'[w].todo = todo /\ task'[w].verdict = task[w].verdict
    BY <1>4 DEF Moved
  <2>5. Ahead(w)' = r /\ ~Over(w)'
    BY <2>2, <2>4 DEF Ahead, AtStep, Over
  <2>6. /\ Len(steps'[w]) = n + 1 /\ steps'[w] # <<>>
        /\ steps'[w][n + 1].template = todo[1].template
        /\ \A i \in 1 .. n : steps'[w][i] = steps[w][i]
    <3>1. PICK e : e = [template |-> Head(task[w].todo).template, status |-> "queued", linked |-> FALSE]
      OBVIOUS
    <3>2. steps'[w] = Append(steps[w], e) /\ steps' \in [Flows -> Seq(Step)]
      BY <1>4, <3>1 DEF Created
    <3>3. steps'[w] \in Seq(Step)
      BY <3>2
    <3>4. e.template = todo[1].template
      BY <1>t, <2>2, <3>1
    <3>5. /\ Len(steps'[w]) = n + 1 /\ steps'[w][n + 1] = e
          /\ \A i \in 1 .. n : steps'[w][i] = steps[w][i]
      BY <1>n, <2>1, <3>2, <3>3
    <3>6. steps'[w] # <<>>
      BY <2>1, <3>3, <3>5
    <3> QED
      BY <3>4, <3>5, <3>6
  <2>k. k \in Nat /\ n + (k + 1) <= MaxSteps
    BY <2>2, <2>3
  <2>7. n + 1 \in 1 .. MaxSteps /\ n + 1 + k <= MaxSteps
    BY <2>1, <2>k
  <2>8. TypeOK'
    <3>1. \A v \in Flows : Len(steps'[v]) <= MaxSteps
      <4>1. Len(steps'[w]) <= MaxSteps
        BY <2>6, <2>7, BoundsAssumption
      <4> QED
        BY <1>1, <1>4, <4>1 DEF TypeOK, Created
    <3> QED
      BY <1>1, <1>4, <3>1 DEF CreateRunStep, TypeOK, Moved, Created, adminVars, commandVars
  <2>9. Alone(w)
    BY <1>4 DEF CreateRunStep, Alone, Moved, Created, Advances, adminVars, commandVars
  <2>10. Position(w)'
    <3>1. Len(steps'[w]) + Len(Ahead(w)') <= MaxSteps
      BY <2>2, <2>5, <2>6, <2>7
    <3> QED
      BY <1>2, <1>4, <2>4, <2>5, <2>6, <3>1 DEF Position, Before, AtStep, Final
  <2>11. CommandsDone(w)'
    <3>1. status' = status
      BY DEF CreateRunStep, commandVars
    <3>2. ASSUME NEW i \in 1 .. MaxSteps
          PROVE  /\ i < n + 1 => status[<<w, i>>] = "success" /\ steps'[w][i].status = "success"
                 /\ i > n + 1 => status[<<w, i>>] = "none"
      <4>1. CASE i < n
        <5>1. status[<<w, i>>] = "success" /\ steps[w][i].status = "success"
          BY <1>1, <1>n, <4>1 DEF CommandsDone
        <5>2. i \in 1 .. n
          BY <2>1, <4>1
        <5> QED
          BY <2>1, <2>6, <4>1, <5>1, <5>2
      <4>2. CASE i = n
        <5>1. steps[w] # <<>>
          BY <1>n, <2>1, <4>2
        <5> QED
          BY <1>1, <1>2, <1>n, <2>1, <2>6, <4>2, <5>1 DEF CommandsDone, Last, Command, Current
      <4>3. CASE i > n
        BY <1>1, <1>n, <2>1, <4>3 DEF CommandsDone
      <4> QED
        BY <2>1, <4>1, <4>2, <4>3
    <3>3. status[<<w, n + 1>>] = "none"
      BY <1>1, <1>n, <2>1, <2>7 DEF CommandsDone
    <3>4. Last(w)' = "none"
      BY <2>6, <3>1, <3>3 DEF Last, Command, Current
    <3> QED
      BY <2>4, <2>5, <2>6, <3>1, <3>2, <3>4 DEF CommandsDone
  <2>12. Whole(w)'
    <3> SUFFICES ASSUME Tracked(w)'
                 PROVE  /\ Len(whole[w]) = n + 1 + k
                        /\ \A i \in 1 .. n + 1 : steps'[w][i].template = whole[w][i]
                        /\ \A j \in 1 .. k : r[j].template = whole[w][n + 1 + j]
      BY <2>2, <2>5, <2>6 DEF Whole, CreateRunStep
    <3>1. Tracked(w)
      BY <1>2 DEF Tracked, CreateRunStep
    <3>2. /\ Len(whole[w]) = n + (k + 1)
          /\ \A i \in 1 .. n : steps[w][i].template = whole[w][i]
          /\ \A j \in 1 .. k + 1 : todo[j].template = whole[w][n + j]
      BY <1>1, <1>n, <2>2, <2>3, <3>1 DEF Whole
    <3>3. Len(whole[w]) = n + 1 + k
      <4>1. Len(whole[w]) = n + (k + 1)
        BY <3>2
      <4> QED
        BY <2>1, <2>k, <4>1
    <3>4. \A i \in 1 .. n + 1 : steps'[w][i].template = whole[w][i]
      <4>1. todo[1].template = whole[w][n + 1]
        BY <2>k, <3>2
      <4>2. \A i \in 1 .. n + 1 : i \in 1 .. n \/ i = n + 1
        BY <2>1
      <4> QED
        BY <2>6, <3>2, <4>1, <4>2
    <3>5. ASSUME NEW j \in 1 .. k PROVE r[j].template = whole[w][n + 1 + j]
      <4>1. j + 1 \in 1 .. k + 1 /\ n + (j + 1) = n + 1 + j
        BY <2>1, <2>k
      <4> QED
        BY <2>2, <3>2, <4>1
    <3> QED
      BY <3>3, <3>4, <3>5
  <2> QED
    BY <1>1, <2>8, <2>9, <2>10, <2>11, <2>12, FlowSteps
       DEF FlowInv, ScriptRuns, CreateRunStep, commandVars
<1> QED
  BY <1>1, <1>2, <1>3, <1>4, <1>t, CreateMoves

\* From one place at a step to another: the rows ahead stay what they are.
LEMMA WithinStep ==
  ASSUME Inv, NEW w \in Flows, task[w].pc \in AtStep, NEW pc \in AtStep, NEW verdict,
         Moved(w, pc, task[w].todo, verdict), UNCHANGED <<flow, whole, erred>>,
         Len(steps'[w]) = Len(steps[w]), steps'[w] # <<>>,
         \A i \in 1 .. Len(steps[w]) : steps'[w][i].template = steps[w][i].template
  PROVE  Position(w)' /\ Whole(w)' /\ ~Over(w)' /\ task'[w].pc = pc /\ task'[w].verdict = verdict
<1>1. TypeOK /\ Position(w) /\ Whole(w)
  BY DEF Inv, FlowInv
<1>2. task'[w].pc = pc /\ task'[w].todo = task[w].todo /\ task'[w].verdict = verdict
  BY DEF Moved
<1>3. Ahead(w)' = Ahead(w) /\ ~Over(w)'
  BY <1>2 DEF Ahead, AtStep, Over
<1>4. Position(w)'
  BY <1>1, <1>2, <1>3 DEF Position, Before, AtStep, Final
<1>5. Whole(w)'
  <2>1. Tracked(w)' => Tracked(w)
    BY DEF Tracked
  <2> QED
    BY <1>1, <1>3, <2>1 DEF Whole
<1> QED
  BY <1>2, <1>3, <1>4, <1>5

LEMMA Finds == ASSUME Inv, NEW w \in Flows, FindTemplate(w) PROVE Inv'
<1>1. TypeOK /\ ScriptRuns /\ FlowInv(w) /\ Position(w) /\ CommandsDone(w)
  BY DEF Inv, FlowInv
<1>2. /\ task[w].pc = "template" /\ steps[w] # <<>> /\ steps' = steps /\ flow' = flow
      /\ w \notin erred /\ Last(w) = "none" /\ "failed" \in Final
  BY <1>1 DEF FindTemplate, Position, CommandsDone, AtStep, Final
<1> DEFINE t == template[steps[w][Current(w)].template]
<1>3. t \in {"enabled", "disabled", "deleted"}
  <2>1. steps[w][Current(w)] \in Step
    BY <1>1, <1>2 DEF TypeOK, Current
  <2> QED
    BY <1>1, <2>1 DEF TypeOK, Step
<1>4. CASE t = "deleted"
  <2>1. Verdict(w, "failed", "fail") /\ erred' = erred \cup {w}
    BY <1>4 DEF FindTemplate
  <2>2. Moved(w, "fail", task[w].todo, "failed")
    BY <1>1, <1>2, <2>1, VerdictMoves DEF TaskPc
  <2>3. TypeOK'
    BY <1>1, <2>1, <2>2 DEF FindTemplate, TypeOK, Moved, adminVars, commandVars
  <2> QED
    BY <1>2, <2>1, <2>2, <2>3, Errs DEF FindTemplate, adminVars, commandVars, Ended
<1>5. CASE t # "deleted"
  <2>1. PICK pc \in {"submit", "settle"} : Verdict(w, "failed", pc) /\ erred' = erred
    BY <1>3, <1>5 DEF FindTemplate
  <2>2. Moved(w, pc, task[w].todo, "failed") /\ pc \in AtStep
    BY <1>1, <1>2, <2>1, VerdictMoves DEF TaskPc, AtStep
  <2>3. TypeOK'
    BY <1>1, <2>1, <2>2 DEF FindTemplate, TypeOK, Moved, adminVars, commandVars
  <2>4. Alone(w)
    BY <2>1, <2>2 DEF FindTemplate, Alone, Moved, Advances, adminVars, commandVars
  <2>5. Position(w)' /\ Whole(w)' /\ ~Over(w)' /\ task'[w].pc = pc /\ task'[w].verdict = "failed"
    BY <1>2, <2>1, <2>2, WithinStep DEF FindTemplate, AtStep
  <2>6. Last(w)' = "none" /\ status' = status
    BY <1>2 DEF FindTemplate, commandVars, Last, Command, Current
  <2>7. CommandsDone(w)'
    BY <1>1, <1>2, <2>1, <2>5, <2>6 DEF CommandsDone
  <2> QED
    BY <1>1, <2>3, <2>4, <2>5, <2>7, FlowSteps DEF FlowInv, ScriptRuns, FindTemplate, commandVars
<1> QED
  BY <1>4, <1>5

LEMMA Submits == ASSUME Inv, NEW w \in Flows, SubmitCommand(w) PROVE Inv'
<1>1. TypeOK /\ ScriptRuns /\ FlowInv(w) /\ Position(w) /\ CommandsDone(w)
  BY DEF Inv, FlowInv
<1>n. PICK n \in 1 .. MaxSteps : n = Len(steps[w])
  BY <1>1, BoundsAssumption DEF SubmitCommand, Position, TypeOK, AtStep
<1>2. /\ task[w].pc = "submit" /\ steps[w] # <<>> /\ steps' = steps /\ flow' = flow
      /\ erred' = erred /\ Command(w) = <<w, n>> /\ <<w, n>> \in CommandIds
  BY <1>1, <1>n DEF SubmitCommand, Position, AtStep, Command, Current, CommandIds
<1>3. /\ status' = [status EXCEPT ![<<w, n>>] = "queued"] /\ status[<<w, n>>] = "none"
      /\ script' = script /\ starts' = starts
  BY <1>2 DEF SubmitCommand, Commands!Submit
<1>4. Moved(w, "link", task[w].todo, task[w].verdict)
  BY <1>1, GotoMoves DEF SubmitCommand, TaskPc
<1>5. TypeOK'
  BY <1>1, <1>2, <1>3, <1>4 DEF SubmitCommand, TypeOK, Moved, adminVars
<1>6. ScriptRuns'
  BY <1>1, <1>2, <1>3 DEF ScriptRuns, TypeOK
<1>7. Alone(w)
  <2>1. ASSUME NEW v \in Flows \ {w}, NEW i \in 1 .. MaxSteps PROVE Advances(<<v, i>>)
    <3>1. <<v, i>> # <<w, n>> /\ <<v, i>> \in CommandIds
      BY DEF CommandIds
    <3> QED
      BY <1>1, <1>3, <3>1 DEF Advances, TypeOK
  <2> QED
    BY <1>4, <2>1 DEF SubmitCommand, Alone, Moved, adminVars
<1>8. Position(w)' /\ Whole(w)' /\ ~Over(w)' /\ task'[w].pc = "link"
  BY <1>2, <1>4, WithinStep DEF SubmitCommand, AtStep
<1>9. CommandsDone(w)'
  <2>1. ASSUME NEW i \in 1 .. MaxSteps, i # n PROVE status'[<<w, i>>] = status[<<w, i>>]
    <3>1. <<w, i>> # <<w, n>> /\ <<w, i>> \in CommandIds
      BY <2>1 DEF CommandIds
    <3> QED
      BY <1>1, <1>3, <3>1 DEF TypeOK
  <2> QED
    BY <1>1, <1>n, <1>2, <1>8, <2>1 DEF CommandsDone
<1> QED
  BY <1>5, <1>6, <1>7, <1>8, <1>9, FlowSteps DEF FlowInv

LEMMA Links == ASSUME Inv, NEW w \in Flows, MarkRunStepStarted(w) PROVE Inv'
<1>1. TypeOK /\ ScriptRuns /\ FlowInv(w) /\ Position(w) /\ CommandsDone(w)
  BY DEF Inv, FlowInv
<1>2. task[w].pc = "link" /\ steps[w] # <<>> /\ flow' = flow /\ erred' = erred
  BY <1>1 DEF MarkRunStepStarted, Position, AtStep
<1>3. Marked(w, "running")
  BY <1>1, <1>2, LinkMarks DEF MarkRunStepStarted
<1>4. Moved(w, "wait", task[w].todo, task[w].verdict)
  BY <1>1, GotoMoves DEF MarkRunStepStarted, TaskPc
<1>5. \A v \in Flows : Len(steps'[v]) <= MaxSteps
  BY <1>1, <1>3 DEF TypeOK, Marked
<1>6. TypeOK'
  BY <1>1, <1>3, <1>4, <1>5 DEF MarkRunStepStarted, TypeOK, Moved, Marked, adminVars, commandVars
<1>7. Alone(w)
  BY <1>3, <1>4 DEF MarkRunStepStarted, Alone, Moved, Marked, Advances, adminVars, commandVars
<1>8. steps'[w] # <<>>
  BY <1>1, <1>2, <1>3 DEF Marked, TypeOK
<1>9. Position(w)' /\ Whole(w)' /\ ~Over(w)' /\ task'[w].pc = "wait"
  BY <1>2, <1>3, <1>4, <1>8, WithinStep DEF MarkRunStepStarted, AtStep, Marked
<1>10. CommandsDone(w)'
  <2>1. Len(steps[w]) \in Nat
    BY <1>1 DEF TypeOK
  <2>2. ASSUME NEW i \in 1 .. MaxSteps, i < Len(steps[w])
        PROVE  steps'[w][i].status = steps[w][i].status
    BY <1>3, <2>1, <2>2 DEF Marked, Current
  <2> QED
    BY <1>1, <1>3, <1>9, <2>2 DEF CommandsDone, MarkRunStepStarted, commandVars, Marked
<1> QED
  BY <1>1, <1>6, <1>7, <1>9, <1>10, FlowSteps DEF FlowInv, ScriptRuns, MarkRunStepStarted, commandVars

LEMMA Waits == ASSUME Inv, NEW w \in Flows, WaitForCommandRun(w) PROVE Inv'
<1>1. TypeOK /\ ScriptRuns /\ FlowInv(w) /\ Position(w) /\ CommandsDone(w)
  BY DEF Inv, FlowInv
<1>2. /\ task[w].pc = "wait" /\ steps[w] # <<>> /\ steps' = steps /\ flow' = flow
      /\ erred' = erred /\ status' = status
  BY <1>1 DEF WaitForCommandRun, Position, AtStep, commandVars
<1> DEFINE verdict == IF Last(w) = "success" THEN "success" ELSE "failed"
<1>3. Moved(w, "settle", task[w].todo, verdict)
  <2>1. Verdict(w, verdict, "settle") /\ verdict \in Final /\ "settle" \in TaskPc
    BY DEF WaitForCommandRun, Last, Final, TaskPc
  <2> HIDE DEF verdict
  <2> QED
    BY <1>1, <2>1, VerdictMoves
<1>4. TypeOK'
  BY <1>1, <1>2, <1>3 DEF WaitForCommandRun, TypeOK, Moved, adminVars, commandVars
<1>5. Alone(w)
  BY <1>2, <1>3 DEF WaitForCommandRun, Alone, Moved, Advances, adminVars
<1>6. Position(w)' /\ Whole(w)' /\ ~Over(w)' /\ task'[w].pc = "settle" /\ task'[w].verdict = verdict
  BY <1>2, <1>3, WithinStep DEF WaitForCommandRun, AtStep
<1>7. Last(w)' = Last(w) /\ Last(w) \notin {"queued", "running"}
  BY <1>2 DEF WaitForCommandRun, Last, Command, Current
<1>8. CommandsDone(w)'
  BY <1>1, <1>2, <1>6, <1>7 DEF CommandsDone
<1> QED
  BY <1>1, <1>4, <1>5, <1>6, <1>8, FlowSteps DEF FlowInv, ScriptRuns, WaitForCommandRun, commandVars

LEMMA Settles == ASSUME Inv, NEW w \in Flows, MarkRunStepFinished(w) PROVE Inv'
<1>1. TypeOK /\ ScriptRuns /\ FlowInv(w) /\ Position(w) /\ CommandsDone(w) /\ Whole(w)
  BY DEF Inv, FlowInv
<1>t. PICK todo \in Seq(Row) : todo = task[w].todo
  BY <1>1 DEF TypeOK, Task
<1>v. PICK verdict \in Final : verdict = task[w].verdict
  BY <1>1 DEF TypeOK, Task
<1>2. /\ task[w].pc = "settle" /\ steps[w] # <<>> /\ flow' = flow /\ erred' = erred
      /\ todo # <<>> /\ status' = status /\ w \notin erred /\ whole' = whole
      /\ flow[w].status \notin Final \cup {"none"}
  BY <1>1, <1>t DEF MarkRunStepFinished, Position, AtStep, commandVars
<1>p. PICK r \in Seq(Row), k \in Nat : Parts(todo, r, k)
  BY <1>2, <1>t, TailParts
<1>k. r = Tail(todo) /\ k = Len(r) /\ Len(todo) = k + 1 /\ k \in Nat
  BY <1>p DEF Parts
<1>3. Marked(w, verdict)
  BY <1>1, <1>2, <1>v, StatusMarks DEF MarkRunStepFinished
<1> DEFINE pc == IF verdict = "success" /\ k > 0 THEN "create" ELSE "finish"
<1>4. Moved(w, pc, r, verdict)
  <2>1. Len(todo) > 1 <=> k > 0
    BY <1>k
  <2> QED
    BY <1>1, <1>2, <1>t, <1>v, <1>k, <2>1, SettleMoves
<1>5. \A v \in Flows : Len(steps'[v]) <= MaxSteps
  BY <1>1, <1>3 DEF TypeOK, Marked
<1>6. TypeOK'
  BY <1>1, <1>3, <1>4, <1>5 DEF MarkRunStepFinished, TypeOK, Moved, Marked, adminVars, commandVars
<1>7. Alone(w)
  BY <1>3, <1>4 DEF MarkRunStepFinished, Alone, Moved, Marked, Advances, adminVars, commandVars
<1>8. task'[w].pc = pc /\ task'[w].todo = r /\ task'[w].verdict = verdict
  BY <1>4 DEF Moved
<1>9. \/ pc = "create" /\ verdict = "success" /\ r # <<>>
      \/ pc = "finish" /\ (verdict = "success" => k = 0)
  <2>1. k = Len(r) /\ k \in Nat
    BY <1>k
  <2>2. k > 0 => r # <<>>
    BY <2>1
  <2>3. verdict = "success" /\ ~(k > 0) => k = 0
    BY <2>1
  <2>4. CASE verdict = "success" /\ k > 0
    BY <2>2, <2>4
  <2>5. CASE ~(verdict = "success" /\ k > 0)
    BY <2>3, <2>5
  <2> QED
    BY <2>4, <2>5
<1> HIDE DEF pc
<1>10. Ahead(w) = r /\ Ahead(w)' = (IF pc = "create" THEN r ELSE <<>>) /\ (Over(w)' <=> pc = "finish")
  BY <1>2, <1>t, <1>k, <1>8, <1>9 DEF Ahead, AtStep, Over
<1>11. Len(steps[w]) \in Nat /\ Len(steps[w]) > 0 /\ Len(steps'[w]) = Len(steps[w]) /\ steps'[w] # <<>>
  BY <1>1, <1>2, <1>3 DEF TypeOK, Marked
<1>12. Position(w)'
  <2>1. Len(steps[w]) + k <= MaxSteps
    BY <1>1, <1>k, <1>10 DEF Position
  <2>2. Len(steps'[w]) + Len(Ahead(w)') <= MaxSteps
    <3>1. CASE pc = "create"
      BY <1>k, <1>10, <1>11, <2>1, <3>1
    <3>2. CASE pc # "create"
      BY <1>10, <1>11, <1>5, <3>2
    <3> QED
      BY <3>1, <3>2
  <2> QED
    BY <1>2, <1>8, <1>9, <1>11, <2>2 DEF Position, Before, AtStep, Final
<1>13. CommandsDone(w)'
  <2>1. Last(w)' = Last(w) /\ Current(w)' = Current(w) /\ Current(w) = Len(steps[w])
    BY <1>2, <1>11 DEF Last, Command, Current
  <2>2. Last(w) \notin {"queued", "running"} /\ (Last(w) = "success" <=> verdict = "success")
    BY <1>1, <1>2, <1>v DEF CommandsDone
  <2>3. ASSUME NEW i \in 1 .. MaxSteps, i < Len(steps[w])
        PROVE  steps'[w][i].status = steps[w][i].status
    BY <1>3, <1>11, <2>3 DEF Marked, Current
  <2>4. steps'[w][Current(w)].status = verdict
    BY <1>3 DEF Marked
  <2>5. \A i \in 1 .. MaxSteps :
          /\ i < Len(steps'[w]) => status'[<<w, i>>] = "success" /\ steps'[w][i].status = "success"
          /\ i > Len(steps'[w]) => status'[<<w, i>>] = "none"
    BY <1>1, <1>2, <1>11, <2>3 DEF CommandsDone
  <2>6. task'[w].pc = "create" => Last(w)' = "success" /\ steps'[w][Current(w)'].status = "success"
    BY <1>8, <1>9, <1>v, <2>1, <2>2, <2>4 DEF Final
  <2>7. task'[w].pc \in {"create", "finish"}
    BY <1>8, <1>9
  <2> QED
    BY <1>8, <1>10, <1>11, <2>1, <2>2, <2>4, <2>5, <2>6, <2>7 DEF CommandsDone
<1>14. Whole(w)'
  <2> SUFFICES ASSUME Tracked(w)' PROVE Whole(w)'
    BY DEF Whole
  <2>1. Tracked(w)
    BY <1>2 DEF Tracked, AtStep
  <2>2. /\ Len(whole[w]) = Len(steps[w]) + k
        /\ \A i \in 1 .. Len(steps[w]) : steps[w][i].template = whole[w][i]
        /\ \A i \in 1 .. k : r[i].template = whole[w][Len(steps[w]) + i]
    BY <1>1, <1>k, <1>10, <2>1 DEF Whole
  <2>3. \A i \in 1 .. Len(steps'[w]) : steps'[w][i].template = whole[w][i]
    BY <1>3, <1>11, <2>2 DEF Marked
  <2>4. CASE pc = "create"
    BY <1>2, <1>10, <1>11, <1>k, <2>2, <2>3, <2>4 DEF Whole
  <2>5. CASE pc = "finish"
    <3>1. verdict = "success"
      BY <1>8, <2>5 DEF Tracked, AtStep
    <3>2. k = 0
      BY <1>9, <2>5, <3>1
    <3>3. Ahead(w)' = <<>> /\ Len(whole[w]) = Len(steps[w])
      BY <1>10, <1>11, <2>2, <2>5, <3>2
    <3> QED
      BY <1>2, <1>11, <2>3, <3>3 DEF Whole
  <2> QED
    BY <1>9, <2>4, <2>5
<1> QED
  BY <1>1, <1>6, <1>7, <1>12, <1>13, <1>14, FlowSteps
     DEF FlowInv, ScriptRuns, MarkRunStepFinished, commandVars

\* The record of the run gets its verdict, or "failed" after an error; or not even that.
LEMMA Finishes ==
  ASSUME Inv, NEW w \in Flows, FinishWorkflowRun(w) \/ FailWorkflowRun(w) \/ FailIsLost(w)
  PROVE  Inv'
<1>1. TypeOK /\ ScriptRuns /\ FlowInv(w) /\ Position(w) /\ CommandsDone(w) /\ Whole(w)
  BY DEF Inv, FlowInv
<1>2. /\ steps' = steps /\ erred' = erred /\ status' = status /\ whole' = whole
      /\ script' = script /\ starts' = starts /\ flow[w].status \notin Final \cup {"none"}
      /\ Len(steps[w]) \in Nat /\ Len(steps[w]) <= MaxSteps
  BY <1>1 DEF FinishWorkflowRun, FailWorkflowRun, FailIsLost, commandVars, Position, TypeOK
<1>3. faults' \in 0 .. MaxFaults
  BY <1>1, BoundsAssumption DEF FinishWorkflowRun, FailWorkflowRun, FailIsLost, Fault, TypeOK
<1>4. ASSUME NEW pc \in {"done", "dead"}, Moved(w, pc, task[w].todo, task[w].verdict),
             NEW x \in Final \cup {flow[w].status}, flow' = [flow EXCEPT ![w].status = x],
             \/ pc = "done" /\ task[w].pc = "finish" /\ x = task[w].verdict
             \/ pc = "done" /\ task[w].pc = "fail" /\ x = "failed"
             \/ pc = "dead" /\ task[w].pc = "fail" /\ x = flow[w].status
      PROVE  Inv'
  <2>1. /\ flow' \in [Flows -> [status : {"none", "queued", "running"} \cup Final, linked : BOOLEAN]]
        /\ flow'[w].status = x /\ \A v \in Flows \ {w} : flow'[v] = flow[v]
    BY <1>1, <1>4 DEF TypeOK
  <2>2. TypeOK'
    BY <1>1, <1>2, <1>3, <1>4, <2>1
       DEF FinishWorkflowRun, FailWorkflowRun, FailIsLost, TypeOK, Moved, adminVars
  <2>3. Alone(w)
    BY <1>2, <1>4, <2>1
       DEF FinishWorkflowRun, FailWorkflowRun, FailIsLost, Alone, Moved, Advances, adminVars
  <2>4. task'[w].pc = pc /\ task'[w].todo = task[w].todo /\ task'[w].verdict = task[w].verdict
    BY <1>4 DEF Moved
  <2>5. Ahead(w)' = <<>> /\ (task[w].pc = "finish" => Ahead(w) = <<>>)
    BY <2>4 DEF Ahead, AtStep
  <2>6. Over(w)' => Over(w)
    BY <1>1, <1>2, <1>4, <2>4 DEF Over, Position
  <2>7. Position(w)'
    BY <1>1, <1>2, <1>4, <2>1, <2>4, <2>5 DEF Position, Before, AtStep, Final
  <2>8. CommandsDone(w)'
    <3>1. Last(w)' = Last(w) /\ Current(w)' = Current(w)
      BY <1>2 DEF Last, Command, Current
    <3> QED
      BY <1>1, <1>2, <1>4, <2>4, <2>6, <3>1 DEF CommandsDone
  <2>9. Whole(w)'
    <3> SUFFICES ASSUME Tracked(w)' PROVE Whole(w)'
      BY DEF Whole
    <3>1. Tracked(w) /\ Over(w)
      BY <1>2, <1>4, <2>4, <2>6 DEF Tracked, AtStep
    <3>2. Ahead(w) = <<>>
      BY <1>4, <3>1 DEF Ahead, AtStep, Over
    <3> QED
      BY <1>1, <1>2, <2>5, <3>1, <3>2 DEF Whole
  <2> QED
    BY <1>1, <1>2, <2>2, <2>3, <2>7, <2>8, <2>9, FlowSteps DEF FlowInv, ScriptRuns
<1>5. CASE FinishWorkflowRun(w)
  <2>1. Moved(w, "done", task[w].todo, task[w].verdict)
    BY <1>1, <1>5, GotoMoves DEF FinishWorkflowRun, TaskPc
  <2>2. task[w].verdict \in Final
    BY <1>1 DEF TypeOK, Task
  <2> QED
    BY <1>4, <1>5, <2>1, <2>2 DEF FinishWorkflowRun
<1>6. CASE FailWorkflowRun(w)
  <2>1. Moved(w, "done", task[w].todo, task[w].verdict)
    BY <1>1, <1>6, GotoMoves DEF FailWorkflowRun, TaskPc
  <2> QED
    BY <1>4, <1>6, <2>1 DEF FailWorkflowRun, Final
<1>7. CASE FailIsLost(w)
  <2>1. Moved(w, "dead", task[w].todo, task[w].verdict)
    BY <1>1, <1>7, GotoMoves DEF FailIsLost, TaskPc
  <2>2. flow' = [flow EXCEPT ![w].status = flow[w].status]
    BY <1>1, <1>7 DEF FailIsLost, TypeOK
  <2> QED
    BY <1>4, <1>7, <2>1, <2>2 DEF FailIsLost
<1> QED
  BY <1>5, <1>6, <1>7

LEMMA CallFailsKeeps == ASSUME Inv, NEW w \in Flows, CallFails(w) PROVE Inv'
<1>1. TypeOK
  BY DEF Inv
<1>2. Moved(w, "fail", task[w].todo, task[w].verdict)
  BY <1>1, GotoMoves DEF CallFails, TaskPc
<1>3. faults' \in 0 .. MaxFaults
  BY <1>1, BoundsAssumption DEF CallFails, Fault, TypeOK
<1>4. TypeOK'
  BY <1>1, <1>2, <1>3 DEF CallFails, TypeOK, Moved, adminVars, commandVars
<1> QED
  BY <1>2, <1>4, Errs DEF CallFails, adminVars, commandVars

\* After a restart the tasks that were under way are dead; what they did stands.
LEMMA RestartKeeps == ASSUME Inv, Restart PROVE Inv'
<1>1. TypeOK /\ SavesKnown /\ ScriptRuns
  BY DEF Inv
<1>2. /\ steps' = steps /\ erred' = erred /\ status' = status /\ whole' = whole
      /\ flow' = flow /\ script' = script /\ faults' \in 0 .. MaxFaults
  BY <1>1, BoundsAssumption DEF Restart, commandVars, Fault, TypeOK
<1>3. ASSUME NEW w \in Flows
      PROVE  /\ task'[w] \in Task
             /\ task'[w] = task[w] \/ (task'[w].pc = "dead" /\ task[w].pc \notin Ended)
  <2>1. task[w] \in Task
    BY <1>1 DEF TypeOK
  <2>2. [task[w] EXCEPT !.pc = "dead"] \in Task
    BY <2>1 DEF Task, TaskPc
  <2>3. CASE task[w].pc \in Ended
    BY <2>1, <2>3 DEF Restart
  <2>4. CASE task[w].pc \notin Ended
    <3>1. task'[w] = [task[w] EXCEPT !.pc = "dead"]
      BY <2>4 DEF Restart
    <3> QED
      BY <2>1, <2>2, <2>4, <3>1 DEF Task
  <2> QED
    BY <2>3, <2>4
<1>4. TypeOK'
  <2>1. task' \in [Flows -> Task]
    <3>1. task' = [w \in Flows |-> task'[w]]
      BY DEF Restart
    <3> QED
      BY <1>3, <3>1
  <2>2. saving' \in [Admins -> [save : 0 .. MaxChanges, next : 0 .. MaxSteps + 1]]
    <3>1. \A a \in Admins : [saving[a] EXCEPT !.next = 0] \in
                              [save : 0 .. MaxChanges, next : 0 .. MaxSteps + 1]
      <4>1. 0 \in 0 .. MaxSteps + 1
        BY BoundsAssumption
      <4>2. \A a \in Admins : saving[a] \in [save : 0 .. MaxChanges, next : 0 .. MaxSteps + 1]
        BY <1>1 DEF TypeOK
      <4> QED
        BY <4>1, <4>2
    <3> QED
      BY <3>1 DEF Restart
  <2> QED
    BY <1>1, <1>2, <2>1, <2>2 DEF TypeOK, Restart, commandVars
<1>5. SavesKnown'
  BY <1>1 DEF TypeOK, SavesKnown, Saves, Restart
<1>6. ASSUME NEW w \in Flows PROVE FlowInv(w)'
  <2>1. FlowInv(w) /\ Position(w) /\ CommandsDone(w)
    BY DEF Inv, FlowInv
  <2>2. CASE task'[w] = task[w]
    BY <1>1, <1>2, <2>1, <2>2, FlowKept DEF Advances
  <2>3. CASE task'[w].pc = "dead" /\ task[w].pc \notin Ended
    <3>1. Ahead(w)' = <<>> /\ ~Over(w)'
      BY <2>3 DEF Ahead, AtStep, Over
    <3>2. flow[w].status \notin Final \cup {"none"} /\ Len(steps[w]) \in Nat /\ Len(steps[w]) <= MaxSteps
      BY <1>1, <2>1, <2>3 DEF Position, Ended, TypeOK
    <3>3. Position(w)'
      BY <1>2, <2>1, <2>3, <3>1, <3>2 DEF Position, Before, AtStep, Final
    <3>4. CommandsDone(w)'
      BY <1>2, <2>1, <2>3, <3>1 DEF CommandsDone
    <3>5. Whole(w)'
      BY <2>3, <3>1 DEF Whole, Tracked, AtStep
    <3> QED
      BY <3>3, <3>4, <3>5 DEF FlowInv
  <2> QED
    BY <1>3, <2>2, <2>3
<1> QED
  BY <1>1, <1>2, <1>4, <1>5, <1>6 DEF Inv, ScriptRuns

LEMMA CommandKeeps ==
  ASSUME Inv, NEW c \in CommandIds, RunCommand(c) \/ CancelCommand(c)
  PROVE  Inv'
<1>1. TypeOK /\ SavesKnown /\ ScriptRuns
  BY DEF Inv
<1>2. /\ status' \in [CommandIds ->
                      {"none", "queued", "running", "success", "failed", "cancelled"}]
      /\ script' \in [CommandIds -> {"idle", "open", "left"}]
      /\ starts' \in [CommandIds -> 0 .. 1]
      /\ ScriptRuns' /\ \A d \in CommandIds : Advances(d)
  BY <1>1, CommandMoves
<1>3. UNCHANGED <<adminVars, flowVars, faults>>
  BY DEF RunCommand, CancelCommand
<1>4. TypeOK' /\ SavesKnown'
  BY <1>1, <1>2, <1>3 DEF TypeOK, SavesKnown, Saves, adminVars, flowVars
<1>5. ASSUME NEW w \in Flows PROVE FlowInv(w)'
  <2>1. \A i \in 1 .. MaxSteps : Advances(<<w, i>>)
    BY <1>2 DEF CommandIds
  <2> QED
    BY <1>1, <1>3, <2>1, FlowKept DEF flowVars, Inv
<1> QED
  BY <1>2, <1>4, <1>5 DEF Inv

LEMMA InvNext == ASSUME Inv, [Next]_vars PROVE Inv'
<1>1. CASE UNCHANGED vars
  BY <1>1, AdminKeeps
     DEF vars, adminVars, flowVars, commandVars, Inv, TypeOK, SavesKnown, Saves
<1>2. CASE Next
  BY <1>2, AdminNext, Starts, Marks, Loads, Creates, Finds, Submits, Links, Waits, Settles,
     Finishes, CallFailsKeeps, RestartKeeps, CommandKeeps DEF Next, TaskStep
<1> QED
  BY <1>1, <1>2

-----------------------------------------------------------------------------
(* What the project states *)

LEMMA InvAlways == Spec => []Inv
<1> QED
  BY InvInit, InvNext, PTL DEF Spec

\* The rows of the workflow, the runs with their steps and tasks, and the commands keep
\* their types: no run is ever at a step it does not have.
THEOREM TypeCorrect == Spec => []TypeOK
<1>1. Inv => TypeOK
  BY DEF Inv
<1> QED
  BY <1>1, InvAlways, PTL

\* A workflow run starts a command only after all before it succeeded and their scripts
\* are over, but for what these left in the background.
THEOREM RunsOneAtATime == Spec => []OneAtATime
<1>1. Inv => OneAtATime
  <2> SUFFICES ASSUME Inv, NEW w \in Flows, NEW i \in 1 .. MaxSteps, status[<<w, i>>] # "none",
                      NEW j \in 1 .. i - 1
               PROVE  status[<<w, j>>] = "success" /\ ~Active(<<w, j>>)
    BY DEF OneAtATime
  <2>1. Len(steps[w]) \in Nat /\ MaxSteps \in Nat
    BY BoundsAssumption DEF Inv, TypeOK
  <2>2. i <= Len(steps[w])
    BY <2>1 DEF Inv, FlowInv, CommandsDone
  <2>3. j \in 1 .. MaxSteps /\ j < Len(steps[w])
    BY <2>1, <2>2
  <2>4. status[<<w, j>>] = "success"
    BY <2>3 DEF Inv, FlowInv, CommandsDone
  <2>5. script[<<w, j>>] # "open"
    BY <2>3, <2>4 DEF Inv, ScriptRuns, TypeOK, CommandIds
  <2> QED
    BY <2>4, <2>5 DEF Active
<1> QED
  BY <1>1, InvAlways, PTL

\* What is left of a run that is over: every command but the last succeeded, and the last
\* one as the run did.
LEMMA OverIsDone ==
  ASSUME Inv, NEW w \in Flows, Over(w), NEW i \in DOMAIN steps[w]
  PROVE  /\ i \in 1 .. MaxSteps /\ i \in 1 .. Len(steps[w])
         /\ i < Len(steps[w]) => status[<<w, i>>] = "success" /\ steps[w][i].status = "success"
         /\ i = Len(steps[w]) =>
              /\ status[<<w, i>>] \notin {"queued", "running"}
              /\ status[<<w, i>>] = "success" <=> task[w].verdict = "success"
              /\ steps[w][i].status = task[w].verdict
<1>1. steps[w] \in Seq(Step) /\ Len(steps[w]) \in Nat /\ Len(steps[w]) <= MaxSteps /\ MaxSteps \in Nat
  BY BoundsAssumption DEF Inv, TypeOK
<1>2. i \in 1 .. MaxSteps /\ i \in 1 .. Len(steps[w]) /\ steps[w] # <<>>
  BY <1>1
<1>3. CommandsDone(w)
  BY DEF Inv, FlowInv
<1>4. i < Len(steps[w]) => status[<<w, i>>] = "success" /\ steps[w][i].status = "success"
  BY <1>2, <1>3 DEF CommandsDone
<1>5. i = Len(steps[w]) =>
        /\ status[<<w, i>>] \notin {"queued", "running"}
        /\ status[<<w, i>>] = "success" <=> task[w].verdict = "success"
        /\ steps[w][i].status = task[w].verdict
  BY <1>2, <1>3 DEF CommandsDone, Last, Command, Current
<1> QED
  BY <1>2, <1>4, <1>5

\* "success" is said only of a run whose commands all succeeded and which, if it loaded
\* the rows of one save, ran that definition in its order.
THEOREM SuccessMeansWhole == Spec => []SuccessIsWhole
<1>1. Inv => SuccessIsWhole
  <2> SUFFICES ASSUME Inv, NEW w \in Flows, flow[w].status = "success"
               PROVE  /\ \A i \in DOMAIN steps[w] : status[<<w, i>>] = "success"
                      /\ whole[w] # <<>> =>
                           [i \in DOMAIN steps[w] |-> steps[w][i].template] = whole[w]
    BY DEF SuccessIsWhole
  <2>1. task[w].pc = "done" /\ task[w].verdict = "success" /\ Over(w)
    BY DEF Inv, FlowInv, Position, Final, Over
  <2>2. ASSUME NEW i \in DOMAIN steps[w] PROVE status[<<w, i>>] = "success"
    <3>1. Len(steps[w]) \in Nat
      BY DEF Inv, TypeOK
    <3>2. i \in 1 .. Len(steps[w])
      BY <2>1, OverIsDone
    <3>3. i < Len(steps[w]) \/ i = Len(steps[w])
      BY <3>1, <3>2
    <3> QED
      BY <2>1, <3>3, OverIsDone
  <2>3. ASSUME whole[w] # <<>>
        PROVE  [i \in DOMAIN steps[w] |-> steps[w][i].template] = whole[w]
    <3>1. Ahead(w) = <<>> /\ Tracked(w)
      BY <2>1, <2>3 DEF Ahead, AtStep, Tracked
    <3>2. Len(whole[w]) = Len(steps[w]) + 0 /\ Len(steps[w]) \in Nat /\ steps[w] \in Seq(Step)
      BY <3>1 DEF Inv, TypeOK, FlowInv, Whole
    <3>3. whole[w] \in Seq(Templates)
      BY <2>3, DefinitionsAssumption DEF Inv, TypeOK
    <3>4. DOMAIN whole[w] = 1 .. Len(steps[w]) /\ DOMAIN steps[w] = 1 .. Len(steps[w])
      BY <3>2, <3>3
    <3>5. \A i \in 1 .. Len(steps[w]) : steps[w][i].template = whole[w][i]
      BY <3>1 DEF Inv, FlowInv, Whole
    <3>6. whole[w] = [i \in DOMAIN whole[w] |-> whole[w][i]]
      BY <3>3
    <3> QED
      BY <3>4, <3>5, <3>6
  <2> QED
    BY <2>2, <2>3
<1> QED
  BY <1>1, InvAlways, PTL

\* A run that ended without an error leaves no command at work and no step unsettled, and
\* no process at all of a command that failed.
THEOREM EndsCleanly == Spec => []EndsClean
<1>1. Inv => EndsClean
  <2> SUFFICES ASSUME Inv, NEW w \in Flows \ erred, flow[w].status \in Final,
                      NEW i \in DOMAIN steps[w]
               PROVE  /\ ~Active(<<w, i>>)
                      /\ status[<<w, i>>] = "failed" => script[<<w, i>>] = "idle"
                      /\ steps[w][i].status = IF status[<<w, i>>] = "success"
                                                 THEN "success" ELSE "failed"
                      /\ steps[w][i].status = "failed" =>
                           i = Len(steps[w]) /\ flow[w].status = "failed"
    BY DEF EndsClean
  <2>1. task[w].pc = "done" /\ Over(w) /\ flow[w].status = task[w].verdict
    BY DEF Inv, FlowInv, Position, Over
  <2>2. task[w].verdict \in {"success", "failed"} /\ Len(steps[w]) \in Nat
    BY DEF Inv, TypeOK, Task, Final
  <2>3. /\ i \in 1 .. MaxSteps /\ i \in 1 .. Len(steps[w])
        /\ i < Len(steps[w]) => status[<<w, i>>] = "success" /\ steps[w][i].status = "success"
        /\ i = Len(steps[w]) =>
             /\ status[<<w, i>>] \notin {"queued", "running"}
             /\ status[<<w, i>>] = "success" <=> task[w].verdict = "success"
             /\ steps[w][i].status = task[w].verdict
    BY <2>1, OverIsDone
  <2>4. i < Len(steps[w]) \/ i = Len(steps[w])
    BY <2>2, <2>3
  <2>5. status[<<w, i>>] \notin {"queued", "running"}
    BY <2>3, <2>4
  <2>6. /\ script[<<w, i>>] # "open"
        /\ status[<<w, i>>] = "failed" => script[<<w, i>>] = "idle"
    BY <2>3, <2>5 DEF Inv, ScriptRuns, TypeOK, CommandIds
  <2>7. ~Active(<<w, i>>)
    BY <2>5, <2>6 DEF Active
  <2> QED
    BY <2>1, <2>2, <2>3, <2>4, <2>6, <2>7
<1> QED
  BY <1>1, InvAlways, PTL
=============================================================================
