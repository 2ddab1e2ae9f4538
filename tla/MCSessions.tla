----------------------------- MODULE MCSessions ------------------------------
(***************************************************************************)
(* Instances of Sessions for TLC: two requests at once in the first tab,   *)
(* one at a time in the second.                                            *)
(***************************************************************************)
EXTENDS Sessions

CONSTANTS b1, b2

SomeRequests == {<<b1, 1>>, <<b1, 2>>, <<b2, 1>>}
=============================================================================
