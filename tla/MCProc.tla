------------------------------- MODULE MCProc -------------------------------
(* Proc for TLC: two harts and a table of three processes.                 *)
EXTENDS Proc, TLC

CONSTANTS c1, c2

Harts == Permutations({c1, c2})
=============================================================================
