---------------------------- MODULE MCUserMutex -----------------------------
(* UserMutex for TLC.                                                      *)
EXTENDS UserMutex

CONSTANTS t1, t2
=============================================================================
