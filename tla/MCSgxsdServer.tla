---------------------------- MODULE MCSgxsdServer ----------------------------
EXTENDS SgxsdServer, TLC

CONSTANTS p1, p2, u1, u0

\* The host's directory: p1 is registered as u1, p2 is not.
MCDirectory == (p1 :> u1) @@ (p2 :> u0)
=============================================================================
