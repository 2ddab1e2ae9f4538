--------------------------- MODULE MCUploadTasks ---------------------------
(***************************************************************************)
(* Model values for TLC.  The calls of the tab are interchangeable: no     *)
(* definition of UploadTasks tells one from another.                       *)
(***************************************************************************)
EXTENDS UploadTasks, TLC

LoopSymmetry == Permutations(Loops)
=============================================================================
