------------------------------- MODULE MCPipe -------------------------------
(* Pipe for TLC: FairSpec has liveness properties, so there is no symmetry.*)
EXTENDS Pipe

CONSTANTS p1, p2
=============================================================================
