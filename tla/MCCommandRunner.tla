--------------------------- MODULE MCCommandRunner ---------------------------
(***************************************************************************)
(* The refinement of the contract, and the instances TLC checks.           *)
(***************************************************************************)
EXTENDS CommandRunner

\* What is left of a group counts as background only if its shell succeeded: after any other
\* exit the runner kills it.
Script(r) == CASE ~GroupAlive(r) -> "idle"
               [] proc[r].state = "background" /\ proc[r].exit = "zero" -> "left"
               [] OTHER -> "open"

Contract == INSTANCE CommandContract WITH
  Limit  <- MaxRetries + 1,
  status <- [r \in Runs |-> row[r].status],
  script <- [r \in Runs |-> Script(r)],
  starts <- [r \in Runs |-> proc[r].spawned]

\* As long as no sweep runs and kills succeed, every step of tasks and cancel calls is a
\* step of the contract or leaves it alone: final statuses stay, no record becomes final
\* before the script is over, and none becomes failed before its processes are gone.
KeepsContract == Contract!Spec
=============================================================================
