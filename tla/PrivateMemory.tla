--------------------------- MODULE PrivateMemory ---------------------------
(* What fork(), exec(), sbrk(), page faults and copyout() promise together: *)
(* every process has a memory of its own, a row of pages that only its own  *)
(* steps change, that starts as a copy of its parent's and whose new pages  *)
(* are zero.                                                               *)
EXTENDS Naturals, Sequences

CONSTANTS Procs,
          Stored,   \* what stores and copyout() put into a page
          zero,     \* a page that was never stored to
          image     \* what exec() leaves

VARIABLE mem     \* mem[p]: the pages of p, <<>> if there is no such process

\* One store, or a copyout() over several pages.
Store(old, new)  == /\ Len(new) = Len(old)
                    /\ \A i \in DOMAIN new : new[i] \in {old[i]} \cup Stored
\* sbrk(): what is in both sizes is kept, what is new is zero.
Resize(old, new) == \A i \in DOMAIN new : new[i] = IF i <= Len(old) THEN old[i] ELSE zero

Init == mem = [p \in Procs |-> <<>>]

Next ==
  LET m == mem
      n == mem'
  IN  \E p \in Procs :
        /\ \A q \in Procs \ {p} : n[q] = m[q]
        /\ \/ Store(m[p], n[p])
           \/ Resize(m[p], n[p])
           \/ n[p] = image                                       \* exec()
           \/ n[p] = <<>>                                        \* exit()
           \/ m[p] = <<>> /\ \E q \in Procs : n[p] = m[q]       \* fork()

Spec == Init /\ [][Next]_mem
=============================================================================
