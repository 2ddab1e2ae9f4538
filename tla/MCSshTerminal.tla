--------------------------- MODULE MCSshTerminal ---------------------------
(***************************************************************************)
(* Model values for TLC.  A connect has no order among the connects: each  *)
(* takes any place that is free.                                           *)
(***************************************************************************)
EXTENDS SshTerminal, TLC

ConnectSymmetry == Permutations(Connects)
=============================================================================
