--------------------------- MODULE CommandContract ---------------------------
(***************************************************************************)
(* What a command run promises its caller, without tasks, channels or      *)
(* registries: the record moves from queued to running to a final status   *)
(* it never leaves, the script runs only while the record is running and   *)
(* at most Limit times, and a record becomes final only when the script is *)
(* over.  Failed means that no process of the run is left.  Success does   *)
(* not: a shell that exits with 0 may leave processes in the background,   *)
(* which outlive the record, and so may a cancel that comes after it.      *)
(***************************************************************************)
EXTENDS Naturals

CONSTANTS Runs, Limit

VARIABLES
  status,  \* of the record
  script,  \* idle: no process; open: it runs or prints; left: only background processes
  starts   \* how often the script was started

contractVars == <<status, script, starts>>

Init ==
  /\ status = [r \in Runs |-> "none"]
  /\ script = [r \in Runs |-> "idle"]
  /\ starts = [r \in Runs |-> 0]

Submit(r) ==
  /\ status[r] = "none"
  /\ status' = [status EXCEPT ![r] = "queued"]
  /\ UNCHANGED <<script, starts>>

Begin(r) ==
  /\ status[r] = "queued"
  /\ status' = [status EXCEPT ![r] = "running"]
  /\ UNCHANGED <<script, starts>>

Launch(r) ==
  /\ status[r] = "running" /\ script[r] = "idle" /\ starts[r] < Limit
  /\ script' = [script EXCEPT ![r] = "open"]
  /\ starts' = [starts EXCEPT ![r] = @ + 1]
  /\ UNCHANGED status

Stop(r) ==
  /\ script[r] # "idle"
  /\ script' = [script EXCEPT ![r] = "idle"]
  /\ UNCHANGED <<status, starts>>

\* The shell succeeded and its output is over, but processes are left.
Detach(r) ==
  /\ script[r] = "open"
  /\ script' = [script EXCEPT ![r] = "left"]
  /\ UNCHANGED <<status, starts>>

Cancel(r) ==
  /\ status[r] \in {"queued", "running"} /\ script[r] # "open"
  /\ status' = [status EXCEPT ![r] = "cancelled"]
  /\ UNCHANGED <<script, starts>>

\* Only a run that began can succeed or fail, and only one that was launched can succeed.
Conclude(r, verdict) ==
  /\ status[r] = "running" /\ script[r] # "open"
  /\ verdict = "success" => starts[r] > 0
  /\ verdict = "failed" => script[r] = "idle"
  /\ status' = [status EXCEPT ![r] = verdict]
  /\ UNCHANGED <<script, starts>>

Next == \E r \in Runs :
  \/ Submit(r) \/ Begin(r) \/ Launch(r) \/ Stop(r) \/ Detach(r) \/ Cancel(r)
  \/ \E verdict \in {"success", "failed"} : Conclude(r, verdict)

Spec == Init /\ [][Next]_contractVars
=============================================================================
