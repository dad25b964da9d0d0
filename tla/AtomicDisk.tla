----------------------------- MODULE AtomicDisk -----------------------------
(***************************************************************************)
(* What the logging layer promises the file system: a disk on which a      *)
(* group of operations takes effect all at once.  Running operations see   *)
(* and change the current contents.  The durable contents, the ones that   *)
(* survive a power failure, move from one state in which no operation is   *)
(* half done to another such state, in a single step.                      *)
(***************************************************************************)
CONSTANTS Procs, Blocks, Vals

VARIABLES current,   \* contents of the blocks as the running kernel sees them
          durable,   \* contents a power failure falls back to
          active     \* the processes that are inside an operation

vars == <<current, durable, active>>

Init == /\ current \in [Blocks -> Vals]
        /\ durable = current
        /\ active = {}

Begin(p) == /\ p \notin active
            /\ active' = active \cup {p}
            /\ UNCHANGED <<current, durable>>

Write(p, b, v) == /\ p \in active
                  /\ current' = [current EXCEPT ![b] = v]
                  /\ UNCHANGED <<durable, active>>

End(p) == /\ p \in active
          /\ active' = active \ {p}
          /\ UNCHANGED <<current, durable>>

Commit == /\ active = {}
          /\ durable' = current
          /\ UNCHANGED <<current, active>>

PowerFailure == /\ current' = durable
                /\ active' = {}
                /\ UNCHANGED durable

Next == \/ \E p \in Procs : \/ Begin(p)
                            \/ End(p)
                            \/ \E b \in Blocks, v \in Vals : Write(p, b, v)
        \/ Commit
        \/ PowerFailure

Spec == Init /\ [][Next]_vars
=============================================================================
