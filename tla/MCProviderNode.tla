---------------------------- MODULE MCProviderNode ----------------------------
(***************************************************************************)
(* A provider with two inferences and two model switches under way at most, in *)
(* a desktop application with one more process beside it.                  *)
(***************************************************************************)
EXTENDS Desktop

CONSTANTS i1, i2, w1, w2, p1, p2
=============================================================================
