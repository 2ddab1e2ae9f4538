--------------------------- MODULE CommandWorkflow ---------------------------
(***************************************************************************)
(* Workflow runs (src/services/command_workflow_runner.rs) over command    *)
(* runs, of which only the contract is assumed: CommandContract, which the *)
(* runs of CommandRunner implement.  Administrators edit the workflow and  *)
(* its templates meanwhile (src/controllers/admin/commands.rs).            *)
(*                                                                         *)
(* There is one workflow.  A step of a task is one database call of        *)
(* run_workflow_steps; names, arguments and times are left out, and so are *)
(* disabled steps, which a run never loads.                                *)
(***************************************************************************)
EXTENDS Naturals, Sequences

CONSTANTS
  Flows,        \* workflow runs
  Templates,    \* command templates
  Definitions,  \* what administrators save: sequences of the steps' templates
  Admins,       \* administrators, one save under way each
  MaxSteps,     \* bound: the steps one run can load
  MaxChanges,   \* bound: saves and changes of templates
  MaxFaults     \* bound: failed database calls and restarts

ASSUME BoundsAssumption == MaxSteps \in Nat /\ MaxChanges \in Nat /\ MaxFaults \in Nat
ASSUME DefinitionsAssumption ==
  \A d \in Definitions : d \in Seq(Templates) /\ Len(d) \in 1 .. MaxSteps

VARIABLES
  rows,         \* command_workflow_steps; a row is known by its save and its sort order
  saving,       \* each administrator's save: its number and the next order to insert
  plans,        \* history: the definition of each save
  exists,       \* is the workflow still there?
  template,     \* each template: enabled, disabled or deleted
  flow,         \* command_workflow_runs: status and workflow_id
  steps,        \* command_workflow_run_steps of each run
  task,         \* run_workflow_task of each run
  whole,        \* history: the definition the run loaded, <<>> if the rows were not one
  erred,        \* history: runs whose task ended with an error
  changes, faults,        \* history: how many there were
  status, script, starts   \* command runs, as CommandContract has them

adminVars == <<rows, saving, plans, exists, template, changes>>
flowVars == <<flow, steps, task, whole, erred>>
commandVars == <<status, script, starts>>
vars == <<adminVars, flowVars, commandVars, faults>>

-----------------------------------------------------------------------------
(* Values *)

CommandIds == Flows \X (1 .. MaxSteps)

\* RetryPolicy::default() does not retry, so a command is started once.
Commands == INSTANCE CommandContract WITH Runs <- CommandIds, Limit <- 1

Row == [save : 0 .. MaxChanges, order : 1 .. MaxSteps, template : Templates]
Final == {"success", "failed"}
TaskPc == {"idle", "mark", "load", "create", "template", "submit", "link", "wait",
           "settle", "finish", "fail", "done", "dead"}
Ended == {"idle", "done", "dead"}
Task == [pc : TaskPc, todo : Seq(Row), verdict : Final]
Step == [template : Templates, status : {"queued", "running"} \cup Final, linked : BOOLEAN]

TypeOK ==
  /\ rows \subseteq Row
  /\ saving \in [Admins -> [save : 0 .. MaxChanges, next : 0 .. MaxSteps + 1]]
  /\ plans \in Seq(Definitions) /\ Len(plans) \in 1 .. MaxChanges + 1
  /\ exists \in BOOLEAN
  /\ template \in [Templates -> {"enabled", "disabled", "deleted"}]
  /\ flow \in [Flows -> [status : {"none", "queued", "running"} \cup Final, linked : BOOLEAN]]
  /\ steps \in [Flows -> Seq(Step)]
  /\ \A w \in Flows : Len(steps[w]) <= MaxSteps
  /\ task \in [Flows -> Task]
  /\ whole \in [Flows -> Definitions \cup {<<>>}]
  /\ erred \subseteq Flows
  /\ changes \in 0 .. MaxChanges /\ faults \in 0 .. MaxFaults
  /\ status \in [CommandIds -> {"none", "queued", "running", "success", "failed", "cancelled"}]
  /\ script \in [CommandIds -> {"idle", "open", "left"}]
  /\ starts \in [CommandIds -> 0 .. 1]

\* The rows of a complete save.
RowsOf(n) == {[save |-> n, order |-> i, template |-> plans[n + 1][i]] : i \in DOMAIN plans[n + 1]}
Saves == 0 .. Len(plans) - 1

\* order_by_asc(SortOrder): rows of equal order come in any order.  More than MaxSteps
\* are not loaded.
Sorted(S) ==
  {s \in UNION {[1 .. n -> S] : n \in 0 .. MaxSteps} :
     /\ \A r \in S : \E i \in DOMAIN s : s[i] = r
     /\ \A i, j \in DOMAIN s : i # j => s[i] # s[j]
     /\ \A i, j \in DOMAIN s : i < j => s[i].order <= s[j].order}

Rest == [pc |-> "idle", todo |-> <<>>, verdict |-> "failed"]
Goto(w, pc) == task' = [task EXCEPT ![w].pc = pc]
Verdict(w, verdict, pc) == task' = [task EXCEPT ![w].verdict = verdict, ![w].pc = pc]

Init ==
  /\ \E d \in Definitions : plans = <<d>>
  /\ rows = RowsOf(0)
  /\ saving = [a \in Admins |-> [save |-> 0, next |-> 0]]
  /\ exists = TRUE
  /\ template = [t \in Templates |-> "enabled"]
  /\ flow = [w \in Flows |-> [status |-> "none", linked |-> FALSE]]
  /\ steps = [w \in Flows |-> <<>>]
  /\ task = [w \in Flows |-> Rest]
  /\ whole = [w \in Flows |-> <<>>]
  /\ erred = {}
  /\ changes = 0 /\ faults = 0
  /\ Commands!Init

Change == changes < MaxChanges /\ changes' = changes + 1
Fault == faults < MaxFaults /\ faults' = faults + 1

-----------------------------------------------------------------------------
(* Administrators *)

\* update_workflow: the old rows are deleted, then the new ones inserted one by one.
SaveBegin(a) ==
  /\ exists /\ saving[a].next = 0 /\ Change
  /\ \E d \in Definitions :
       /\ \A i \in DOMAIN d : template[d[i]] # "deleted"
       /\ plans' = Append(plans, d)
  /\ rows' = {}
  /\ saving' = [saving EXCEPT ![a] = [save |-> Len(plans), next |-> 1]]
  /\ UNCHANGED <<exists, template, flowVars, commandVars, faults>>

\* save_workflow_steps; a template or a workflow deleted meanwhile refuses the row.
SaveRow(a) ==
  LET n == saving[a].save
      i == saving[a].next
      d == plans[n + 1]
  IN  /\ i > 0
      /\ IF exists /\ template[d[i]] # "deleted"
           THEN /\ rows' = rows \cup {[save |-> n, order |-> i, template |-> d[i]]}
                /\ saving' = [saving EXCEPT ![a].next = IF i = Len(d) THEN 0 ELSE i + 1]
           ELSE saving' = [saving EXCEPT ![a].next = 0] /\ UNCHANGED rows
      /\ UNCHANGED <<plans, exists, template, changes, flowVars, commandVars, faults>>

SaveFails(a) ==
  /\ saving[a].next > 0 /\ Fault
  /\ saving' = [saving EXCEPT ![a].next = 0]
  /\ UNCHANGED <<rows, plans, exists, template, changes, flowVars, commandVars>>

\* delete_workflow: the foreign keys delete its rows and detach its runs.
DeleteWorkflow ==
  /\ exists /\ Change
  /\ exists' = FALSE
  /\ rows' = {}
  /\ flow' = [w \in Flows |-> [flow[w] EXCEPT !.linked = FALSE]]
  /\ UNCHANGED <<saving, plans, template, steps, task, whole, erred, commandVars, faults>>

\* update: a template is disabled or enabled.
SwitchTemplate(t) ==
  /\ template[t] # "deleted" /\ Change
  /\ template' = [template EXCEPT ![t] = IF @ = "enabled" THEN "disabled" ELSE "enabled"]
  /\ UNCHANGED <<rows, saving, plans, exists, flowVars, commandVars, faults>>

\* delete: the foreign key deletes the steps that use the template from the workflow.
DeleteTemplate(t) ==
  /\ template[t] # "deleted" /\ Change
  /\ template' = [template EXCEPT ![t] = "deleted"]
  /\ rows' = {r \in rows : r.template # t}
  /\ UNCHANGED <<saving, plans, exists, flowVars, commandVars, faults>>

-----------------------------------------------------------------------------
(* The task of a workflow run *)

StartWorkflowRun(w) ==
  /\ flow[w].status = "none" /\ exists
  /\ flow' = [flow EXCEPT ![w] = [status |-> "queued", linked |-> TRUE]]
  /\ Goto(w, "mark")
  /\ UNCHANGED <<adminVars, steps, whole, erred, commandVars, faults>>

MarkWorkflowRunning(w) ==
  /\ task[w].pc = "mark"
  /\ flow' = [flow EXCEPT ![w].status = "running"]
  /\ Goto(w, "load")
  /\ UNCHANGED <<adminVars, steps, whole, erred, commandVars, faults>>

\* A run whose workflow is gone fails with an error, one without steps without.
LoadSteps(w) ==
  /\ task[w].pc = "load"
  /\ whole' = [whole EXCEPT ![w] = IF \E n \in Saves : rows = RowsOf(n)
                 THEN plans[(CHOOSE n \in Saves : rows = RowsOf(n)) + 1] ELSE <<>>]
  /\ \E s \in Sorted(rows) :
       task' = [task EXCEPT ![w].todo = s,
                            ![w].pc = IF ~flow[w].linked THEN "fail"
                                      ELSE IF rows = {} THEN "finish" ELSE "create"]
  /\ erred' = IF flow[w].linked THEN erred ELSE erred \cup {w}
  /\ UNCHANGED <<adminVars, flow, steps, commandVars, faults>>

\* create_run_step: the foreign key refuses a step whose row was replaced meanwhile.
CreateRunStep(w) ==
  LET row == Head(task[w].todo)
  IN  /\ task[w].pc = "create"
      /\ IF row \in rows
           THEN /\ steps' = [steps EXCEPT ![w] = Append(@,
                     [template |-> row.template, status |-> "queued", linked |-> FALSE])]
                /\ Goto(w, "template") /\ UNCHANGED erred
           ELSE Goto(w, "fail") /\ erred' = erred \cup {w} /\ UNCHANGED steps
      /\ UNCHANGED <<adminVars, flow, whole, commandVars, faults>>

Current(w) == Len(steps[w])
Command(w) == <<w, Current(w)>>

\* A deleted template is an error, a disabled one fails step and run.
FindTemplate(w) ==
  LET t == template[steps[w][Current(w)].template]
  IN  /\ task[w].pc = "template"
      /\ Verdict(w, "failed", CASE t = "enabled"  -> "submit"
                                [] t = "disabled" -> "settle"
                                [] t = "deleted"  -> "fail")
      /\ erred' = IF t = "deleted" THEN erred \cup {w} ELSE erred
      /\ UNCHANGED <<adminVars, flow, steps, whole, commandVars, faults>>

\* start_command_run
SubmitCommand(w) ==
  /\ task[w].pc = "submit"
  /\ Commands!Submit(Command(w))
  /\ Goto(w, "link")
  /\ UNCHANGED <<adminVars, flow, steps, whole, erred, faults>>

MarkRunStepStarted(w) ==
  /\ task[w].pc = "link"
  /\ steps' = [steps EXCEPT ![w][Current(w)].status = "running",
                            ![w][Current(w)].linked = TRUE]
  /\ Goto(w, "wait")
  /\ UNCHANGED <<adminVars, flow, whole, erred, commandVars, faults>>

\* Mutant: a command that has begun is taken for finished.
WaitForQueuedOnly(w) ==
  /\ task[w].pc = "wait" /\ status[Command(w)] # "queued"
  /\ Verdict(w, IF status[Command(w)] \in {"success", "running"} THEN "success" ELSE "failed",
             "settle")
  /\ UNCHANGED <<adminVars, flow, steps, whole, erred, commandVars, faults>>

\* Mutant: everything but "failed" counts as success, a cancelled command too.
WaitTakesCancelled(w) ==
  /\ task[w].pc = "wait" /\ status[Command(w)] \notin {"queued", "running"}
  /\ Verdict(w, IF status[Command(w)] # "failed" THEN "success" ELSE "failed", "settle")
  /\ UNCHANGED <<adminVars, flow, steps, whole, erred, commandVars, faults>>

WaitForCommandRun(w) ==
  /\ task[w].pc = "wait" /\ status[Command(w)] \notin {"queued", "running"}
  /\ Verdict(w, IF status[Command(w)] = "success" THEN "success" ELSE "failed", "settle")
  /\ UNCHANGED <<adminVars, flow, steps, whole, erred, commandVars, faults>>

\* Mutant: a failed step does not end the run.
SettleGoesOn(w) ==
  /\ task[w].pc = "settle"
  /\ steps' = [steps EXCEPT ![w][Current(w)].status = task[w].verdict]
  /\ task' = [task EXCEPT ![w].todo = Tail(@),
                          ![w].pc = IF Len(task[w].todo) > 1 THEN "create" ELSE "finish"]
  /\ UNCHANGED <<adminVars, flow, whole, erred, commandVars, faults>>

\* Mutant: the step takes the status of its command as it is.
SettleCopiesStatus(w) ==
  /\ task[w].pc = "settle"
  /\ steps' = [steps EXCEPT ![w][Current(w)].status = status[Command(w)]]
  /\ task' = [task EXCEPT ![w].todo = Tail(@),
                          ![w].pc = IF task[w].verdict = "success" /\ Len(task[w].todo) > 1
                                      THEN "create" ELSE "finish"]
  /\ UNCHANGED <<adminVars, flow, whole, erred, commandVars, faults>>

\* mark_run_step_finished, and what follows it in the loop.
MarkRunStepFinished(w) ==
  /\ task[w].pc = "settle"
  /\ steps' = [steps EXCEPT ![w][Current(w)].status = task[w].verdict]
  /\ task' = [task EXCEPT ![w].todo = Tail(@),
                          ![w].pc = IF task[w].verdict = "success" /\ Len(task[w].todo) > 1
                                      THEN "create" ELSE "finish"]
  /\ UNCHANGED <<adminVars, flow, whole, erred, commandVars, faults>>

FinishWorkflowRun(w) ==
  /\ task[w].pc = "finish"
  /\ flow' = [flow EXCEPT ![w].status = task[w].verdict]
  /\ Goto(w, "done")
  /\ UNCHANGED <<adminVars, steps, whole, erred, commandVars, faults>>

\* Mutant: the error is logged only.
LogError(w) ==
  /\ task[w].pc = "fail"
  /\ Goto(w, "done")
  /\ UNCHANGED <<adminVars, flow, steps, whole, erred, commandVars, faults>>

\* run_workflow_task, when run_workflow_steps returned an error.
FailWorkflowRun(w) ==
  /\ task[w].pc = "fail"
  /\ flow' = [flow EXCEPT ![w].status = "failed"]
  /\ Goto(w, "done")
  /\ UNCHANGED <<adminVars, steps, whole, erred, commandVars, faults>>

\* A database call fails; while waiting, MAX_COMMAND_RUN_POLL_DB_ERRORS of them in a row.
CallFails(w) ==
  /\ task[w].pc \notin Ended \cup {"fail"} /\ Fault
  /\ Goto(w, "fail")
  /\ erred' = erred \cup {w}
  /\ UNCHANGED <<adminVars, flow, steps, whole, commandVars>>

\* The error of the last update is ignored.
FailIsLost(w) ==
  /\ task[w].pc = "fail" /\ Fault
  /\ Goto(w, "dead")
  /\ UNCHANGED <<adminVars, flow, steps, whole, erred, commandVars>>

\* Tasks and half-done saves are gone, and nothing takes the workflow runs up again.
Restart ==
  /\ Fault
  /\ task' = [w \in Flows |-> IF task[w].pc \in Ended THEN task[w]
                              ELSE [task[w] EXCEPT !.pc = "dead"]]
  /\ saving' = [a \in Admins |-> [saving[a] EXCEPT !.next = 0]]
  /\ UNCHANGED <<rows, plans, exists, template, changes, flow, steps, whole, erred, commandVars>>

-----------------------------------------------------------------------------
(* The command runner *)

RunCommand(c) ==
  /\ \/ Commands!Begin(c) \/ Commands!Launch(c) \/ Commands!Stop(c)
     \/ Commands!Detach(c)
     \/ \E verdict \in Final : Commands!Conclude(c, verdict)
  /\ UNCHANGED <<adminVars, flowVars, faults>>

CancelCommand(c) ==
  /\ Commands!Cancel(c)
  /\ UNCHANGED <<adminVars, flowVars, faults>>

-----------------------------------------------------------------------------

TaskStep(w) ==
  \/ MarkWorkflowRunning(w) \/ LoadSteps(w) \/ CreateRunStep(w) \/ FindTemplate(w)
  \/ SubmitCommand(w) \/ MarkRunStepStarted(w) \/ WaitForCommandRun(w)
  \/ MarkRunStepFinished(w) \/ FinishWorkflowRun(w) \/ FailWorkflowRun(w)

Next ==
  \/ DeleteWorkflow \/ Restart
  \/ \E a \in Admins : SaveBegin(a) \/ SaveRow(a) \/ SaveFails(a)
  \/ \E t \in Templates : SwitchTemplate(t) \/ DeleteTemplate(t)
  \/ \E w \in Flows : StartWorkflowRun(w) \/ TaskStep(w) \/ CallFails(w) \/ FailIsLost(w)
  \/ \E c \in CommandIds : RunCommand(c) \/ CancelCommand(c)

Spec == Init /\ [][Next]_vars

\* Tasks are scheduled, and commands end: the runner settles every command that is
\* cancelled, fails, times out or whose script ends.
FairSpec ==
  /\ Spec
  /\ \A w \in Flows : WF_vars(TaskStep(w))
  /\ \A c \in CommandIds : WF_vars(RunCommand(c))

-----------------------------------------------------------------------------
(* Properties *)

\* What a command that succeeded left in the background does not count: the runner lets it be.
Active(c) == status[c] \in {"queued", "running"} \/ script[c] = "open"

\* A workflow run never has two commands at work at once, and starts one only after all
\* before it succeeded and their scripts are over, whatever fails, is edited or is
\* cancelled.  Processes that a successful script left in the background may live on.
OneAtATime ==
  \A w \in Flows : \A i \in 1 .. MaxSteps :
    status[<<w, i>>] # "none" =>
      \A j \in 1 .. i - 1 : status[<<w, j>>] = "success" /\ ~Active(<<w, j>>)

\* A workflow run is "success" only if every command of the definition it loaded was
\* run, in its order, with success: a cancelled command or a disabled template never
\* passes for success, and no step is skipped.
SuccessIsWhole ==
  \A w \in Flows : flow[w].status = "success" =>
    /\ \A i \in DOMAIN steps[w] : status[<<w, i>>] = "success"
    /\ whole[w] # <<>> => [i \in DOMAIN steps[w] |-> steps[w][i].template] = whole[w]

\* A run that ended without an error is settled: no command of it is queued or running
\* and no script of it is under way, all its steps are settled as their commands were, only
\* the last can have failed, and a command that failed left no process at all.
EndsClean ==
  \A w \in Flows \ erred : flow[w].status \in Final =>
    \A i \in DOMAIN steps[w] :
      /\ ~Active(<<w, i>>)
      /\ status[<<w, i>>] = "failed" => script[<<w, i>>] = "idle"
      /\ steps[w][i].status = IF status[<<w, i>>] = "success" THEN "success" ELSE "failed"
      /\ steps[w][i].status = "failed" => i = Len(steps[w]) /\ flow[w].status = "failed"

\* A workflow run that was started comes to an end, unless the backend restarts under
\* it or the database refuses its last update too.
FlowEnds ==
  \A w \in Flows :
    flow[w].status = "queued" ~> flow[w].status \in Final \/ task[w].pc = "dead"
=============================================================================
