----------------------------- MODULE UserMutex ------------------------------
(***************************************************************************)
(* thread_create, mutex_lock and mutex_unlock of sysproc_custom.c under the *)
(* program they are shown with, Demo 4 of user/syscall_demo.c: the main    *)
(* thread starts workers, each worker adds to a counter under a mutex, and *)
(* main, which waits for each before it starts the next, prints it.        *)
(***************************************************************************)
EXTENDS Naturals, FiniteSets

CONSTANTS Main, Workers,
          Rounds          \* turns of the loop of lock_worker()

Threads == Workers \cup {Main}

VARIABLES pagetable,      \* the address space each thread runs in
          global_lock, global_value,    \* their contents, per address space
          pc, val,        \* each thread's place and local variable
          turn            \* its loop counter j
vars == <<pagetable, global_lock, global_value, pc, val, turn>>

Init ==
  /\ pagetable = [t \in Threads |-> Main]
  /\ global_lock = [m \in Threads |-> 0]
  /\ global_value = [m \in Threads |-> 0]
  /\ pc = [t \in Threads |-> IF t = Main THEN "main" ELSE "none"]
  /\ val = [t \in Threads |-> 0]
  /\ turn = [t \in Threads |-> 0]

\* sys_thread_create(): uvmcopy() gives the thread a copy of the memory.
thread_create(t) ==
  /\ pc[Main] = "main" /\ pc[t] = "none"
  /\ \A u \in Workers : pc[u] \in {"none", "exit"}
  /\ pagetable' = [pagetable EXCEPT ![t] = t]
  /\ global_lock' = [global_lock EXCEPT ![t] = global_lock[pagetable[Main]]]
  /\ global_value' = [global_value EXCEPT ![t] = global_value[pagetable[Main]]]
  /\ pc' = [pc EXCEPT ![t] = "lock"]
  /\ UNCHANGED <<val, turn>>

\* sys_mutex_lock(): copyin() the word; yield() and try again if it is not 0.
mutex_lock(t) ==
  /\ pc[t] = "lock"
  /\ pc' = [pc EXCEPT ![t] = IF global_lock[pagetable[t]] = 0 THEN "set" ELSE "lock"]
  /\ UNCHANGED <<pagetable, global_lock, global_value, val, turn>>

\* The copyout() of 1 that follows, in a step of its own.
mutex_set(t) ==
  /\ pc[t] = "set"
  /\ global_lock' = [global_lock EXCEPT ![pagetable[t]] = 1]
  /\ pc' = [pc EXCEPT ![t] = "load"]
  /\ UNCHANGED <<pagetable, global_value, val, turn>>

\* global_value++ is a load and a store.
load(t) ==
  /\ pc[t] = "load"
  /\ val' = [val EXCEPT ![t] = global_value[pagetable[t]]]
  /\ pc' = [pc EXCEPT ![t] = "store"]
  /\ UNCHANGED <<pagetable, global_lock, global_value, turn>>

store(t) ==
  /\ pc[t] = "store"
  /\ global_value' = [global_value EXCEPT ![pagetable[t]] = val[t] + 1]
  /\ pc' = [pc EXCEPT ![t] = "unlock"]
  /\ UNCHANGED <<pagetable, global_lock, val, turn>>

\* sys_mutex_unlock(), and the end of the loop body.
mutex_unlock(t) ==
  /\ pc[t] = "unlock"
  /\ global_lock' = [global_lock EXCEPT ![pagetable[t]] = 0]
  /\ turn' = [turn EXCEPT ![t] = @ + 1]
  /\ pc' = [pc EXCEPT ![t] = IF turn[t] + 1 < Rounds THEN "lock" ELSE "exit"]
  /\ UNCHANGED <<pagetable, global_value, val>>

\* wait(0) has returned for every worker.
wait ==
  /\ pc[Main] = "main"
  /\ \A t \in Workers : pc[t] = "exit"
  /\ pc' = [pc EXCEPT ![Main] = "printed"]
  /\ UNCHANGED <<pagetable, global_lock, global_value, val, turn>>

Next ==
  \/ \E t \in Workers : \/ thread_create(t) \/ mutex_lock(t) \/ mutex_set(t)
                        \/ load(t) \/ store(t) \/ mutex_unlock(t)
  \/ wait

Spec == Init /\ [][Next]_vars

-----------------------------------------------------------------------------
\* README.md shows Demo 4 end with "Final shared_counter = 10 (expected 10)",
\* for two workers of five rounds: when main prints the counter it has seen
\* every increment of every worker.
FinalCounter ==
  pc[Main] = "printed" => global_value[pagetable[Main]] = Cardinality(Workers) * Rounds
=============================================================================
