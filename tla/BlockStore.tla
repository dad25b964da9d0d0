----------------------------- MODULE BlockStore -----------------------------
(***************************************************************************)
(* What bio.c promises its callers: blocks with one current content each,  *)
(* one process at a time using a block, and no change lost that its user   *)
(* has written or handed to the log.                                       *)
(***************************************************************************)
CONSTANTS Procs, Blocks, Vals, None

VARIABLES content, user,
          loose            \* the blocks with a change that nobody kept yet

Init ==
  /\ content \in [Blocks -> Vals]
  /\ user = [k \in Blocks |-> None]
  /\ loose = {}

\* bread() returns: the caller has the block to itself.
Take(p, k) ==
  /\ user[k] = None
  /\ user' = [user EXCEPT ![k] = p]
  /\ UNCHANGED <<content, loose>>

\* The caller changes the block it has ...
Put(p, k, v) ==
  /\ user[k] = p
  /\ content' = [content EXCEPT ![k] = v]
  /\ loose' = loose \cup {k}
  /\ UNCHANGED user

\* ... and bwrite() or log_write() keeps the change.
Keep(p, k) ==
  /\ user[k] = p
  /\ loose' = loose \ {k}
  /\ UNCHANGED <<content, user>>

\* brelse(): the block keeps its content.
Give(p, k) ==
  /\ user[k] = p
  /\ user' = [user EXCEPT ![k] = None]
  /\ UNCHANGED <<content, loose>>

\* Only a change that its user gave back without keeping it may go.
Forget(k, v) ==
  /\ user[k] = None /\ k \in loose
  /\ content' = [content EXCEPT ![k] = v]
  /\ loose' = loose \ {k}
  /\ UNCHANGED user

Next == \E k \in Blocks :
          \/ \E p \in Procs : \/ Take(p, k) \/ Keep(p, k) \/ Give(p, k)
                             \/ \E v \in Vals : Put(p, k, v)
          \/ \E v \in Vals : Forget(k, v)

Spec == Init /\ [][Next]_<<content, user, loose>>
=============================================================================
