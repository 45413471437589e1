---------------------------- MODULE MCCdsEnclave ----------------------------
(* Model-checking instance of CdsEnclave: one client, the dispatching       *)
(* thread and one other thread, a two-phone directory.                      *)
EXTENDS CdsEnclave, TLC

CONSTANTS p1, p2, u1, u0

MCDirectory == (p1 :> u1) @@ (p2 :> u0)
=============================================================================
