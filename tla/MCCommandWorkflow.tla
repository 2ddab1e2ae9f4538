-------------------------- MODULE MCCommandWorkflow --------------------------
(***************************************************************************)
(* Instances of CommandWorkflow for TLC.                                   *)
(***************************************************************************)
EXTENDS CommandWorkflow

CONSTANTS t1, t2

\* A definition of two steps and one that keeps only the second of them.
SomeDefinitions == {<<t1, t2>>, <<t2>>}
=============================================================================
