----------------------------- MODULE ProcProofs -----------------------------
(***************************************************************************)
(* Proofs about the process table (module Proc), for any number of slots   *)
(* and harts and any pids.  What needs it assumes, as the run of Proc      *)
(* does, that SIGSTOP is not sent to a process that is running.            *)
(***************************************************************************)
EXTENDS Proc, FiniteSetTheorems, WellFoundedInduction, TLAPS

\* A set of natural numbers has a least element: the scan of kwait() finds the
\* first zombie (proc.c:378).
LEMMA Least ==
  ASSUME NEW T, T \subseteq Nat, T # {}
  PROVE  \E x \in T : \A y \in T : x <= y
<1>. DEFINE R == {ss \in Nat \X Nat : ss[1] < ss[2]}
<1>1. IsWellFoundedOn(R, Nat)
  BY NatLessThanWellFounded DEF OpToRel
<1>2. \A x, y \in Nat : x < y => <<x, y>> \in R
  OBVIOUS
<1>. HIDE DEF R
<1>3. PICK x \in T : \A y \in T : ~ (<<y, x>> \in R)
  BY ZenonT(40), <1>1, WFMin
<1>4. \A y \in T : x <= y
  <2>. TAKE y \in T
  <2>1. ~ (y < x)
    BY <1>2, <1>3, Zenon
  <2>. QED BY <2>1
<1>. QED BY <1>4

\* The null pointer is no slot, and the first process has one.
LEMMA SlotFacts == None \notin Slots /\ initproc \in Slots /\ Slots \subseteq Nat
  BY ProcAssumption DEF None, Slots, initproc

\* A channel is a slot, &ticks or null; 0 and the pids given out are pids.
LEMMA ChanFacts ==
  /\ Slots \subseteq 0..TICKS /\ None \in 0..TICKS /\ TICKS \in 0..TICKS
  /\ 0 \in 0..MaxPid
  /\ \A n \in 1..(MaxPid + 1) : n <= MaxPid => n \in 0..MaxPid /\ n + 1 \in 1..(MaxPid + 1)
  BY ProcAssumption DEF None, Slots, TICKS

-----------------------------------------------------------------------------
(* The three outcomes of a pass of kwait().                                *)

Reap(c, q) ==
  /\ Takes(c, "wait") /\ wait_lock = None
  /\ parent[q] = cpu[c] /\ state[q] = "ZOMBIE"
  /\ freeproc(q)
  /\ at' = [at EXCEPT ![cpu[c]] = "user", ![q] = "none"]
  /\ UNCHANGED <<wait_lock, cpu, nextpid, child>>

GiveUp(c) ==
  /\ Takes(c, "wait") /\ wait_lock = None
  /\ at' = [at EXCEPT ![cpu[c]] = "user"]
  /\ UNCHANGED <<state, pid, parent, killed, chan, wait_lock, stopped, cpu, nextpid, child>>

Decide(c) ==
  /\ Takes(c, "wait") /\ wait_lock = None
  /\ \A q \in Slots : parent[q] = cpu[c] => state[q] # "ZOMBIE"
  /\ at' = [at EXCEPT ![cpu[c]] = "tosleep"]
  /\ wait_lock' = cpu[c]
  /\ UNCHANGED <<state, pid, parent, killed, chan, stopped, cpu, nextpid, child>>

\* kwait() reaps a zombie child, gives up, or decides to sleep having seen none.
LEMMA ScanCases ==
  ASSUME NEW c \in CPUs, WaitScan(c)
  PROVE  (\E q \in Slots : Reap(c, q)) \/ GiveUp(c) \/ Decide(c)
<1>. DEFINE zombies == {q \in Children(cpu[c]) : state[q] = "ZOMBIE"}
            first == CHOOSE q \in zombies : \A r \in zombies : q <= r
<1>1. zombies # {} => first \in zombies
  <2>1. zombies \subseteq Nat
    BY ZenonT(40), SlotFacts DEF Children
  <2>. HIDE DEF zombies
  <2>2. zombies # {} => \E x \in zombies : \A r \in zombies : x <= r
    BY ZenonT(40), <2>1, Least
  <2>. QED BY <2>2
<1>2. CASE zombies # {} /\ freeproc(first)
           /\ at' = [at EXCEPT ![cpu[c]] = "user", ![first] = "none"] /\ UNCHANGED wait_lock
  <2>. HIDE DEF first
  <2>1. first \in Slots /\ parent[first] = cpu[c] /\ state[first] = "ZOMBIE"
    BY <1>1, <1>2 DEF Children
  <2>2. Reap(c, first)
    BY <1>2, <2>1 DEF Reap, WaitScan
  <2>. QED BY <2>1, <2>2
<1>3. CASE /\ at' = [at EXCEPT ![cpu[c]] = "user"]
           /\ UNCHANGED <<state, pid, parent, killed, chan, wait_lock, stopped>>
  BY <1>3 DEF WaitScan, GiveUp
<1>4. CASE /\ zombies = {} /\ at' = [at EXCEPT ![cpu[c]] = "tosleep"] /\ wait_lock' = cpu[c]
           /\ UNCHANGED <<state, pid, parent, killed, chan, stopped>>
  BY <1>4 DEF WaitScan, Decide, Children
<1>. QED BY <1>2, <1>3, <1>4 DEF WaitScan

\* userinit() leaves a well-typed process table (proc.c:218).
LEMMA TypeInit == Init => TypeOK
<1>. SUFFICES ASSUME Init PROVE TypeOK
  OBVIOUS
<1>1. /\ state \in [Slots -> States] /\ at \in [Slots -> Places]
  BY DEF Init, States, Places
<1>2. /\ pid \in [Slots -> 0..MaxPid] /\ parent \in [Slots -> Slots \cup {None}]
      /\ child \in [Slots -> Slots \cup {None}] /\ cpu \in [CPUs -> Slots \cup {None}]
      /\ wait_lock \in Slots \cup {None} /\ nextpid \in 1..(MaxPid + 1)
      /\ spinning \subseteq Slots /\ stopped \subseteq Slots
  BY ProcAssumption DEF Init
<1>3. chan \in [Slots -> 0..TICKS]
  BY ProcAssumption DEF Init, TICKS, None
<1>4. killed \in [Slots -> BOOLEAN]
  BY Zenon DEF Init
<1>. QED BY <1>1, <1>2, <1>3, <1>4 DEF TypeOK


\* Every step of every process and hart keeps the table well typed.
LEMMA TypeNext == TypeOK /\ [Next]_vars => TypeOK'
<1>. SUFFICES ASSUME TypeOK, [Next]_vars PROVE TypeOK'
  OBVIOUS
<1>. USE SlotFacts, ChanFacts DEF TypeOK, States, Places
<1>1. ASSUME ClockTick PROVE TypeOK'
  BY <1>1 DEF ClockTick, wakeup
<1>2. ASSUME NEW c \in CPUs, yield(c) PROVE TypeOK'
  BY <1>2 DEF yield
<1>3. ASSUME NEW c \in CPUs, acquire(c) PROVE TypeOK'
  BY ZenonT(40), <1>3 DEF acquire
<1>4. ASSUME NEW c \in CPUs, ForkSetParent(c) PROVE TypeOK'
  BY ZenonT(40), <1>4 DEF ForkSetParent, Takes
<1>5. ASSUME NEW c \in CPUs, ForkSetRunnable(c) PROVE TypeOK'
  BY ZenonT(40), <1>5 DEF ForkSetRunnable
<1>6. ASSUME NEW c \in CPUs, ExitBegin(c) PROVE TypeOK'
  BY <1>6 DEF ExitBegin, wakeup, Children
<1>7. ASSUME NEW c \in CPUs, ExitEnd(c) PROVE TypeOK'
  BY <1>7 DEF ExitEnd
<1>8. ASSUME NEW c \in CPUs, WaitCall(c) PROVE TypeOK'
  BY <1>8 DEF WaitCall, InUser
<1>9. ASSUME NEW c \in CPUs, NEW q \in Slots, Reap(c, q) PROVE TypeOK'
  <2>1. killed' \in [Slots -> BOOLEAN]
    BY <1>9, Zenon DEF Reap, Takes, freeproc
  <2>. QED BY ZenonT(40), <1>9, <2>1 DEF Reap, Takes, freeproc
<1>10. ASSUME NEW c \in CPUs, GiveUp(c) PROVE TypeOK'
  BY ZenonT(40), <1>10 DEF GiveUp, Takes
<1>11. ASSUME NEW c \in CPUs, Decide(c) PROVE TypeOK'
  BY ZenonT(40), <1>11 DEF Decide, Takes
<1>12. ASSUME NEW c \in CPUs, WaitSleep(c) PROVE TypeOK'
  BY ZenonT(40), <1>12 DEF WaitSleep, sleep
<1>13. ASSUME NEW c \in CPUs, PauseCall(c) PROVE TypeOK'
  BY <1>13 DEF PauseCall, InUser
<1>14. ASSUME NEW c \in CPUs, Pause(c) PROVE TypeOK'
  <2>1. at' \in [Slots -> Places]
    BY <1>14 DEF Pause, Takes
  <2>. QED BY ZenonT(40), <1>14, <2>1 DEF Pause, Takes
<1>15. ASSUME NEW c \in CPUs, PauseSleep(c) PROVE TypeOK'
  BY <1>15 DEF PauseSleep, sleep
<1>16. ASSUME NEW c \in CPUs, NEW s \in Slots, Schedule(c, s) PROVE TypeOK'
  BY <1>16 DEF Schedule
<1>17. ASSUME NEW c \in CPUs, NEW np \in Slots, Fork(c, np) PROVE TypeOK'
  BY <1>17 DEF Fork, InUser, allocproc
<1>18. ASSUME NEW c \in CPUs, NEW np \in Slots, ForkFails(c, np) PROVE TypeOK'
  <2>1. killed' \in [Slots -> BOOLEAN]
    BY <1>18, Zenon DEF ForkFails, InUser, allocproc
  <2>. QED BY <1>18, <2>1 DEF ForkFails, InUser, allocproc
<1>19. ASSUME NEW c \in CPUs, NEW np \in Slots, ThreadCreate(c, np) PROVE TypeOK'
  BY <1>19 DEF ThreadCreate, InUser, allocproc
<1>20. ASSUME NEW c \in CPUs, NEW n \in KillPids, Kill(c, n) PROVE TypeOK'
  <2>1. killed' \in [Slots -> BOOLEAN]
    BY <1>20, Zenon DEF Kill, InUser, Wake
  <2>. QED BY <1>20, <2>1 DEF Kill, InUser, Wake
<1>21. ASSUME NEW c \in CPUs, NEW q \in Slots, NEW sig \in Signals, SendSig(c, q, sig) PROVE TypeOK'
  <2>1. killed' \in [Slots -> BOOLEAN]
    BY <1>21, Zenon DEF SendSig
  <2>2. state' \in [Slots -> States]
    BY <1>21 DEF SendSig, Wake
  <2>3. stopped' \subseteq Slots
    BY ZenonT(40), <1>21 DEF SendSig
  <2>. QED BY <1>21, <2>1, <2>2, <2>3 DEF SendSig
<1>22. CASE UNCHANGED vars
  BY <1>22 DEF vars
<1>. HIDE DEF TypeOK, States, Places
<1>23. ASSUME NEW c \in CPUs, WaitScan(c) PROVE TypeOK'
  BY <1>23, ScanCases, <1>9, <1>10, <1>11
<1>. QED BY <1>1, <1>2, <1>3, <1>4, <1>5, <1>6, <1>7, <1>8, <1>9, <1>10, <1>11, <1>12,
            <1>13, <1>14, <1>15, <1>16, <1>17, <1>18, <1>19, <1>20, <1>21, <1>22, <1>23 DEF Next

\* The process table and the harts are always well typed; pids stay in range.
THEOREM TypeCorrect == Spec => []TypeOK
  BY TypeInit, TypeNext, PTL DEF Spec

-----------------------------------------------------------------------------
(* The inductive invariant.                                                *)

\* A process is RUNNING exactly while one hart runs it.
Harts ==
  /\ \A c \in CPUs : cpu[c] # None => state[cpu[c]] = "RUNNING"
  /\ \A c, d \in CPUs : cpu[c] = cpu[d] /\ cpu[c] # None => c = d
  /\ \A s \in Slots : state[s] = "RUNNING" => \E c \in CPUs : cpu[c] = s

\* What a slot's state says of its kernel thread; init
\* never exits; a fork owns the slot it has allocated until it is RUNNABLE.
Threads ==
  /\ at[initproc] \notin {"none", "exit"}
  /\ \A s \in Slots :
       /\ state[s] \in {"UNUSED", "USED"} <=> at[s] = "none"
       /\ state[s] = "ZOMBIE" => at[s] = "exit"
       /\ at[s] \in {"fork", "forked"} =>
            /\ child[s] \in Slots /\ state[child[s]] = "USED"
            /\ \A t \in Slots : at[t] \in {"fork", "forked"} /\ child[t] = child[s] => t = s
       /\ at[s] = "forked" => parent[child[s]] = s

\* Pids are unique, and 0 belongs to the free slots.
Pids ==
  \A s \in Slots :
    /\ state[s] = "UNUSED" <=> pid[s] = 0
    /\ pid[s] < nextpid
    /\ \A q \in Slots : pid[q] = pid[s] /\ pid[s] # 0 => q = s

\* wait_lock is held from the first step of an exit to its last, and from the
\* scan of kwait() to its sleep.
Locks ==
  \A s \in Slots :
    /\ at[s] = "exit" /\ state[s] # "ZOMBIE" => wait_lock = s
    /\ at[s] = "tosleep" => wait_lock = s

\* A process has a parent that is alive, and none once it exits.
Family ==
  \A s \in Slots :
    /\ state[s] \notin {"UNUSED", "USED"} /\ s # initproc =>
         parent[s] \in Slots /\ state[parent[s]] \notin {"UNUSED", "USED", "ZOMBIE"}
    /\ at[s] = "exit" => \A q \in Slots : parent[q] # s

\* Whoever sleeps in kwait(), or has decided to, has no exiting child.
Waits ==
  \A s \in Slots :
    /\ state[s] = "SLEEPING" /\ at[s] = "wait" /\ s \notin stopped =>
         chan[s] = s /\ \A q \in Slots : parent[q] = s => at[q] # "exit"
    /\ at[s] = "tosleep" => \A q \in Slots : parent[q] = s => at[q] # "exit"

IInv == TypeOK /\ Harts /\ Threads /\ Pids /\ Locks /\ Family /\ Waits

\* userinit() establishes the invariant: one process, in user code.
LEMMA InvInit == Init => IInv
<1>. SUFFICES ASSUME Init PROVE IInv
  OBVIOUS
<1>. USE SlotFacts DEF Init
<1>1. TypeOK
  BY TypeInit
<1>2. Harts /\ Threads
  BY DEF Harts, Threads
<1>3. Pids
  BY DEF Pids
<1>4. Locks /\ Family /\ Waits
  BY DEF Locks, Family, Waits
<1>. QED BY <1>1, <1>2, <1>3, <1>4 DEF IInv

\* The process on a hart has a slot and is RUNNING.
LEMMA OnCpu ==
  ASSUME TypeOK, Harts, NEW c \in CPUs, cpu[c] # None
  PROVE  cpu[c] \in Slots /\ state[cpu[c]] = "RUNNING"
  BY DEF TypeOK, Harts

\* A process inside kfork() runs, and owns a USED slot other than its own.
LEMMA ForkOwns ==
  ASSUME TypeOK, Harts, Threads, NEW c \in CPUs, cpu[c] \in Slots, at[cpu[c]] \in {"fork", "forked"}
  PROVE  /\ state[cpu[c]] = "RUNNING" /\ child[cpu[c]] \in Slots
         /\ state[child[cpu[c]]] = "USED" /\ child[cpu[c]] # cpu[c] /\ at[child[cpu[c]]] = "none"
         /\ at[cpu[c]] = "forked" => parent[child[cpu[c]]] = cpu[c]
<1>1. state[cpu[c]] = "RUNNING"
  BY SlotFacts DEF Harts
<1>. DEFINE p == cpu[c]
<1>2. p \in Slots /\ at[p] \in {"fork", "forked"} /\ state[p] = "RUNNING"
  BY <1>1
<1>. HIDE DEF p
<1>3. child[p] \in Slots /\ state[child[p]] = "USED" /\ (at[p] = "forked" => parent[child[p]] = p)
  BY <1>2 DEF Threads
<1>4. at[child[p]] = "none" /\ child[p] # p
  BY <1>2, <1>3 DEF Threads
<1>. QED BY <1>1, <1>3, <1>4 DEF p

\* A signal moves one process between SLEEPING and RUNNABLE at most.
LEMMA SigEffect ==
  ASSUME TypeOK, ~StopRunning, NEW c \in CPUs, NEW q \in Slots, NEW sig, SendSig(c, q, sig)
  PROVE  /\ \A s \in Slots : (state'[s] = state[s]) \/ ({state'[s], state[s]} \subseteq {"SLEEPING", "RUNNABLE"})
         /\ UNCHANGED <<pid, parent, chan, cpu, wait_lock, nextpid, at, child, spinning>>
<1>1. CASE state' = Wake(q)
  BY <1>1 DEF SendSig, Wake, TypeOK
<1>2. CASE /\ state[q] = "RUNNING" => StopRunning
           /\ state' = [state EXCEPT ![q] = IF @ \in {"RUNNABLE", "RUNNING"} THEN "SLEEPING" ELSE @]
  <2>1. state[q] # "RUNNING"
    BY <1>2
  <2>. QED BY <1>2, <2>1 DEF SendSig, TypeOK
<1>. QED BY <1>1, <1>2 DEF SendSig

\* No step that only wakes or stops processes disturbs the harts ...
LEMMA HartsCalm ==
  ASSUME TypeOK, Harts, cpu' = cpu, \A s \in Slots : state'[s] = "RUNNING" <=> state[s] = "RUNNING"
  PROVE  Harts'
  BY ZenonT(40), SlotFacts DEF TypeOK, Harts

\* ... the threads ...
LEMMA ThreadsCalm ==
  ASSUME TypeOK, Threads, at' = at, child' = child, parent' = parent,
         \A s \in Slots : state'[s] = "ZOMBIE" <=> state[s] = "ZOMBIE",
         \A s \in Slots : (state'[s] = "UNUSED" <=> state[s] = "UNUSED") /\ (state'[s] = "USED" <=> state[s] = "USED")
  PROVE  Threads'
<1>. USE DEF Threads
<1>1. at'[initproc] \notin {"none", "exit"}
  OBVIOUS
<1>2. \A s \in Slots : /\ state'[s] \in {"UNUSED", "USED"} <=> at'[s] = "none"
                     /\ state'[s] = "ZOMBIE" => at'[s] = "exit"
  OBVIOUS
<1>3. \A s \in Slots : at'[s] \in {"fork", "forked"} => child'[s] \in Slots /\ state'[child'[s]] = "USED"
  OBVIOUS
<1>4. \A s, t \in Slots : at'[s] \in {"fork", "forked"} /\ at'[t] \in {"fork", "forked"}
                          /\ child'[t] = child'[s] => t = s
  OBVIOUS
<1>5. \A s \in Slots : at'[s] = "forked" => parent'[child'[s]] = s
  OBVIOUS
<1>. QED BY <1>1, <1>2, <1>3, <1>4, <1>5

\* ... or the families.
LEMMA FamilyCalm ==
  ASSUME TypeOK, Family, at' = at, parent' = parent,
         \A s \in Slots : state'[s] = "ZOMBIE" <=> state[s] = "ZOMBIE",
         \A s \in Slots : (state'[s] = "UNUSED" <=> state[s] = "UNUSED") /\ (state'[s] = "USED" <=> state[s] = "USED")
  PROVE  Family'
  BY ZenonT(40), SlotFacts DEF TypeOK, Family

\* The second step of kfork(): the parent p makes its USED slot k RUNNABLE.
LEMMA Hatches ==
  ASSUME TypeOK, Harts, Threads, NEW c \in CPUs, ForkSetRunnable(c)
  PROVE  \E p, k \in Slots :
           /\ p # k /\ state[p] = "RUNNING" /\ state[k] = "USED" /\ at[p] = "forked"
           /\ at[k] = "none" /\ parent[k] = p /\ child[p] = k
           /\ state' = [state EXCEPT ![k] = "RUNNABLE"]
           /\ at' = [at EXCEPT ![p] = "user", ![k] = "user"]
           /\ child' = [child EXCEPT ![p] = None]
           /\ UNCHANGED <<pid, parent, killed, chan, cpu, wait_lock, nextpid, spinning, stopped>>
<1>1. cpu[c] \in Slots /\ at[cpu[c]] = "forked"
  BY OnCpu DEF ForkSetRunnable
<1>2. child[cpu[c]] \in Slots
  BY <1>1, ForkOwns
<1>. USE <1>1, <1>2
<1>. WITNESS cpu[c] \in Slots
<1>. WITNESS child[cpu[c]] \in Slots
<1>. QED BY <1>1, ForkOwns DEF ForkSetRunnable

\* A process changes state and hart in one step.
LEMMA HartsNext == ~StopRunning /\ TypeOK /\ Harts /\ Threads /\ [Next]_vars => Harts'
<1>. SUFFICES ASSUME ~StopRunning, TypeOK, Harts, Threads, [Next]_vars PROVE Harts'
  OBVIOUS
<1>. USE SlotFacts DEF TypeOK, Harts, Threads
<1>1. ASSUME ClockTick PROVE Harts'
  BY <1>1 DEF ClockTick, wakeup
<1>2. ASSUME NEW c \in CPUs, yield(c) PROVE Harts'
  BY <1>2 DEF yield
<1>3. ASSUME NEW c \in CPUs, acquire(c) PROVE Harts'
  BY <1>3 DEF acquire
<1>4. ASSUME NEW c \in CPUs, ForkSetParent(c) PROVE Harts'
  BY <1>4 DEF ForkSetParent, Takes
<1>5. ASSUME NEW c \in CPUs, ForkSetRunnable(c) PROVE Harts'
  <2>1. PICK p, k \in Slots :
           /\ p # k /\ state[p] = "RUNNING" /\ state[k] = "USED" /\ at[p] = "forked"
           /\ at[k] = "none" /\ parent[k] = p /\ child[p] = k
           /\ state' = [state EXCEPT ![k] = "RUNNABLE"]
           /\ at' = [at EXCEPT ![p] = "user", ![k] = "user"]
           /\ child' = [child EXCEPT ![p] = None]
           /\ UNCHANGED <<pid, parent, killed, chan, cpu, wait_lock, nextpid, spinning, stopped>>
    BY <1>5, Hatches
  <2>. QED BY <2>1
<1>6. ASSUME NEW c \in CPUs, ExitBegin(c) PROVE Harts'
  BY <1>6 DEF ExitBegin, wakeup, Children
<1>7. ASSUME NEW c \in CPUs, ExitEnd(c) PROVE Harts'
  BY <1>7 DEF ExitEnd
<1>8. ASSUME NEW c \in CPUs, WaitCall(c) PROVE Harts'
  BY <1>8 DEF WaitCall, InUser
<1>9. ASSUME NEW c \in CPUs, NEW q \in Slots, Reap(c, q) PROVE Harts'
  BY <1>9 DEF Reap, Takes, freeproc
<1>10. ASSUME NEW c \in CPUs, GiveUp(c) PROVE Harts'
  BY <1>10 DEF GiveUp, Takes
<1>11. ASSUME NEW c \in CPUs, Decide(c) PROVE Harts'
  BY <1>11 DEF Decide, Takes
<1>12. ASSUME NEW c \in CPUs, WaitSleep(c) PROVE Harts'
  BY <1>12 DEF WaitSleep, sleep
<1>13. ASSUME NEW c \in CPUs, PauseCall(c) PROVE Harts'
  BY <1>13 DEF PauseCall, InUser
<1>14. ASSUME NEW c \in CPUs, Pause(c) PROVE Harts'
  BY <1>14 DEF Pause, Takes
<1>15. ASSUME NEW c \in CPUs, PauseSleep(c) PROVE Harts'
  BY <1>15 DEF PauseSleep, sleep
<1>16. ASSUME NEW c \in CPUs, NEW s \in Slots, Schedule(c, s) PROVE Harts'
  BY <1>16 DEF Schedule
<1>17. ASSUME NEW c \in CPUs, NEW np \in Slots, Fork(c, np) PROVE Harts'
  BY <1>17 DEF Fork, InUser, allocproc
<1>18. ASSUME NEW c \in CPUs, NEW np \in Slots, ForkFails(c, np) PROVE Harts'
  BY <1>18 DEF ForkFails, InUser, allocproc
<1>19. ASSUME NEW c \in CPUs, NEW np \in Slots, ThreadCreate(c, np) PROVE Harts'
  BY <1>19 DEF ThreadCreate, InUser, allocproc
<1>20. ASSUME NEW c \in CPUs, NEW n \in KillPids, Kill(c, n) PROVE Harts'
  BY <1>20 DEF Kill, InUser, Wake
<1>21. ASSUME NEW c \in CPUs, NEW q \in Slots, NEW sig \in Signals, SendSig(c, q, sig) PROVE Harts'
  <2>1. \A s \in Slots : (state'[s] = state[s]) \/ ({state'[s], state[s]} \subseteq {"SLEEPING", "RUNNABLE"})
    BY <1>21, SigEffect
  <2>2. \A s \in Slots : (state'[s] = "RUNNING" <=> state[s] = "RUNNING") /\ (state'[s] = "ZOMBIE" <=> state[s] = "ZOMBIE")
    BY <2>1
  <2>3. \A s \in Slots : (state'[s] = "UNUSED" <=> state[s] = "UNUSED") /\ (state'[s] = "USED" <=> state[s] = "USED")
    BY <2>1
  <2>4. cpu' = cpu /\ at' = at /\ child' = child /\ parent' = parent
    BY <1>21, SigEffect
  <2>. HIDE DEF TypeOK, Harts, Threads, Family
  <2>. QED BY <2>2, <2>3, <2>4, HartsCalm
<1>22. CASE UNCHANGED vars
  BY <1>22 DEF vars
<1>. HIDE DEF TypeOK, Harts, Threads
<1>23. ASSUME NEW c \in CPUs, WaitScan(c) PROVE Harts'
  BY <1>23, ScanCases, <1>9, <1>10, <1>11
<1>. QED BY <1>1, <1>2, <1>3, <1>4, <1>5, <1>6, <1>7, <1>8, <1>9, <1>10, <1>11, <1>12,
            <1>13, <1>14, <1>15, <1>16, <1>17, <1>18, <1>19, <1>20, <1>21, <1>22, <1>23 DEF Next

\* No step takes a slot that a fork owns, or frees one whose thread runs.
LEMMA ThreadsNext == ~StopRunning /\ TypeOK /\ Harts /\ Threads /\ [Next]_vars => Threads'
<1>. SUFFICES ASSUME ~StopRunning, TypeOK, Harts, Threads, [Next]_vars PROVE Threads'
  OBVIOUS
<1>. USE SlotFacts DEF TypeOK, Harts, Threads
<1>1. ASSUME ClockTick PROVE Threads'
  BY <1>1 DEF ClockTick, wakeup
<1>2. ASSUME NEW c \in CPUs, yield(c) PROVE Threads'
  BY <1>2 DEF yield
<1>3. ASSUME NEW c \in CPUs, acquire(c) PROVE Threads'
  BY <1>3 DEF acquire
<1>4. ASSUME NEW c \in CPUs, ForkSetParent(c) PROVE Threads'
  <2>. DEFINE p == cpu[c]
              k == child[cpu[c]]
  <2>1. p \in Slots /\ k \in Slots /\ k = child[p] /\ state[p] = "RUNNING" /\ state[k] = "USED" /\ k # p
        /\ at[k] = "none" /\ at[p] \in {"fork", "forked"}
    BY <1>4, ForkOwns DEF ForkSetParent, Takes
  <2>2. /\ parent' = [parent EXCEPT ![k] = p] /\ at' = [at EXCEPT ![p] = "forked"]
        /\ UNCHANGED <<state, child>>
    BY <1>4 DEF ForkSetParent, Takes
  <2>. HIDE DEF p, k
  <2>3. \A t \in Slots \ {p} : at[t] \in {"fork", "forked"} => child[t] # k
    BY <2>1
  <2>4. at'[initproc] \notin {"none", "exit"}
    BY <2>1, <2>2
  <2>5. \A s \in Slots : (state'[s] \in {"UNUSED", "USED"} <=> at'[s] = "none") /\ (state'[s] = "ZOMBIE" => at'[s] = "exit")
    BY <2>1, <2>2
  <2>6. \A s \in Slots : at'[s] \in {"fork", "forked"} => child'[s] \in Slots /\ state'[child'[s]] = "USED"
    BY <2>1, <2>2, <2>3
  <2>7. \A s, t \in Slots : at'[s] \in {"fork", "forked"} /\ at'[t] \in {"fork", "forked"} /\ child'[t] = child'[s] => t = s
    BY <2>1, <2>2, <2>3
  <2>8. \A s \in Slots : at'[s] = "forked" => parent'[child'[s]] = s
    BY SMTT(30), <2>1, <2>2, <2>3
  <2>. QED BY <2>4, <2>5, <2>6, <2>7, <2>8
<1>5. ASSUME NEW c \in CPUs, ForkSetRunnable(c) PROVE Threads'
  <2>. DEFINE p == cpu[c]
              k == child[cpu[c]]
  <2>1. p \in Slots /\ k \in Slots /\ k = child[p] /\ state[p] = "RUNNING" /\ state[k] = "USED" /\ k # p
        /\ at[k] = "none" /\ at[p] \in {"fork", "forked"}
    BY <1>5, ForkOwns DEF ForkSetRunnable
  <2>2. /\ state' = [state EXCEPT ![k] = "RUNNABLE"] /\ at' = [at EXCEPT ![p] = "user", ![k] = "user"]
        /\ child' = [child EXCEPT ![p] = None] /\ UNCHANGED parent
    BY <1>5 DEF ForkSetRunnable
  <2>. HIDE DEF p, k
  <2>3. \A t \in Slots \ {p} : at[t] \in {"fork", "forked"} => child[t] # k
    BY <2>1
  <2>4. at'[initproc] \notin {"none", "exit"}
    BY <2>1, <2>2
  <2>5. \A s \in Slots : (state'[s] \in {"UNUSED", "USED"} <=> at'[s] = "none") /\ (state'[s] = "ZOMBIE" => at'[s] = "exit")
    BY <2>1, <2>2
  <2>6. \A s \in Slots : at'[s] \in {"fork", "forked"} => child'[s] \in Slots /\ state'[child'[s]] = "USED"
    BY <2>1, <2>2, <2>3
  <2>7. \A s, t \in Slots : at'[s] \in {"fork", "forked"} /\ at'[t] \in {"fork", "forked"} /\ child'[t] = child'[s] => t = s
    BY <2>1, <2>2, <2>3
  <2>8. \A s \in Slots : at'[s] = "forked" => parent'[child'[s]] = s
    BY <2>1, <2>2, <2>3
  <2>. QED BY <2>4, <2>5, <2>6, <2>7, <2>8
<1>6. ASSUME NEW c \in CPUs, ExitBegin(c) PROVE Threads'
  BY <1>6 DEF ExitBegin, wakeup, Children
<1>7. ASSUME NEW c \in CPUs, ExitEnd(c) PROVE Threads'
  BY <1>7 DEF ExitEnd
<1>8. ASSUME NEW c \in CPUs, WaitCall(c) PROVE Threads'
  BY <1>8 DEF WaitCall, InUser
<1>9. ASSUME NEW c \in CPUs, NEW q \in Slots, Reap(c, q) PROVE Threads'
  BY <1>9 DEF Reap, Takes, freeproc
<1>10. ASSUME NEW c \in CPUs, GiveUp(c) PROVE Threads'
  BY <1>10 DEF GiveUp, Takes
<1>11. ASSUME NEW c \in CPUs, Decide(c) PROVE Threads'
  BY <1>11 DEF Decide, Takes
<1>12. ASSUME NEW c \in CPUs, WaitSleep(c) PROVE Threads'
  BY <1>12 DEF WaitSleep, sleep
<1>13. ASSUME NEW c \in CPUs, PauseCall(c) PROVE Threads'
  BY <1>13 DEF PauseCall, InUser
<1>14. ASSUME NEW c \in CPUs, Pause(c) PROVE Threads'
  BY <1>14 DEF Pause, Takes
<1>15. ASSUME NEW c \in CPUs, PauseSleep(c) PROVE Threads'
  BY <1>15 DEF PauseSleep, sleep
<1>16. ASSUME NEW c \in CPUs, NEW s \in Slots, Schedule(c, s) PROVE Threads'
  BY <1>16 DEF Schedule
<1>17. ASSUME NEW c \in CPUs, NEW np \in Slots, Fork(c, np) PROVE Threads'
  BY <1>17 DEF Fork, InUser, allocproc
<1>18. ASSUME NEW c \in CPUs, NEW np \in Slots, ForkFails(c, np) PROVE Threads'
  BY <1>18 DEF ForkFails, InUser, allocproc
<1>19. ASSUME NEW c \in CPUs, NEW np \in Slots, ThreadCreate(c, np) PROVE Threads'
  BY <1>19 DEF ThreadCreate, InUser, allocproc
<1>20. ASSUME NEW c \in CPUs, NEW n \in KillPids, Kill(c, n) PROVE Threads'
  BY <1>20 DEF Kill, InUser, Wake
<1>21. ASSUME NEW c \in CPUs, NEW q \in Slots, NEW sig \in Signals, SendSig(c, q, sig) PROVE Threads'
  <2>1. \A s \in Slots : (state'[s] = state[s]) \/ ({state'[s], state[s]} \subseteq {"SLEEPING", "RUNNABLE"})
    BY <1>21, SigEffect
  <2>2. \A s \in Slots : (state'[s] = "RUNNING" <=> state[s] = "RUNNING") /\ (state'[s] = "ZOMBIE" <=> state[s] = "ZOMBIE")
    BY <2>1
  <2>3. \A s \in Slots : (state'[s] = "UNUSED" <=> state[s] = "UNUSED") /\ (state'[s] = "USED" <=> state[s] = "USED")
    BY <2>1
  <2>4. cpu' = cpu /\ at' = at /\ child' = child /\ parent' = parent
    BY <1>21, SigEffect
  <2>. HIDE DEF TypeOK, Harts, Threads, Family
  <2>. QED BY <2>2, <2>3, <2>4, ThreadsCalm
<1>22. CASE UNCHANGED vars
  BY <1>22 DEF vars
<1>. HIDE DEF TypeOK, Harts, Threads
<1>23. ASSUME NEW c \in CPUs, WaitScan(c) PROVE Threads'
  BY <1>23, ScanCases, <1>9, <1>10, <1>11
<1>. QED BY SMTT(30), <1>1, <1>2, <1>3, <1>4, <1>5, <1>6, <1>7, <1>8, <1>9, <1>10, <1>11, <1>12,
            <1>13, <1>14, <1>15, <1>16, <1>17, <1>18, <1>19, <1>20, <1>21, <1>22, <1>23 DEF Next

\* allocproc() gives out each pid once.
LEMMA PidsNext == ~StopRunning /\ TypeOK /\ Harts /\ Threads /\ Pids /\ [Next]_vars => Pids'
<1>. SUFFICES ASSUME ~StopRunning, TypeOK, Harts, Threads, Pids, [Next]_vars PROVE Pids'
  OBVIOUS
<1>. USE SlotFacts DEF TypeOK, Harts, Threads, Pids
<1>1. ASSUME ClockTick PROVE Pids'
  BY <1>1 DEF ClockTick, wakeup
<1>2. ASSUME NEW c \in CPUs, yield(c) PROVE Pids'
  BY <1>2 DEF yield
<1>3. ASSUME NEW c \in CPUs, acquire(c) PROVE Pids'
  BY <1>3 DEF acquire
<1>4. ASSUME NEW c \in CPUs, ForkSetParent(c) PROVE Pids'
  BY <1>4 DEF ForkSetParent, Takes
<1>5. ASSUME NEW c \in CPUs, ForkSetRunnable(c) PROVE Pids'
  <2>1. PICK p, k \in Slots :
           /\ p # k /\ state[p] = "RUNNING" /\ state[k] = "USED" /\ at[p] = "forked"
           /\ at[k] = "none" /\ parent[k] = p /\ child[p] = k
           /\ state' = [state EXCEPT ![k] = "RUNNABLE"]
           /\ at' = [at EXCEPT ![p] = "user", ![k] = "user"]
           /\ child' = [child EXCEPT ![p] = None]
           /\ UNCHANGED <<pid, parent, killed, chan, cpu, wait_lock, nextpid, spinning, stopped>>
    BY <1>5, Hatches
  <2>. QED BY <2>1
<1>6. ASSUME NEW c \in CPUs, ExitBegin(c) PROVE Pids'
  BY <1>6 DEF ExitBegin, wakeup, Children
<1>7. ASSUME NEW c \in CPUs, ExitEnd(c) PROVE Pids'
  BY <1>7 DEF ExitEnd
<1>8. ASSUME NEW c \in CPUs, WaitCall(c) PROVE Pids'
  BY <1>8 DEF WaitCall, InUser
<1>9. ASSUME NEW c \in CPUs, NEW q \in Slots, Reap(c, q) PROVE Pids'
  BY <1>9 DEF Reap, Takes, freeproc
<1>10. ASSUME NEW c \in CPUs, GiveUp(c) PROVE Pids'
  BY <1>10 DEF GiveUp, Takes
<1>11. ASSUME NEW c \in CPUs, Decide(c) PROVE Pids'
  BY <1>11 DEF Decide, Takes
<1>12. ASSUME NEW c \in CPUs, WaitSleep(c) PROVE Pids'
  BY <1>12 DEF WaitSleep, sleep
<1>13. ASSUME NEW c \in CPUs, PauseCall(c) PROVE Pids'
  BY <1>13 DEF PauseCall, InUser
<1>14. ASSUME NEW c \in CPUs, Pause(c) PROVE Pids'
  BY <1>14 DEF Pause, Takes
<1>15. ASSUME NEW c \in CPUs, PauseSleep(c) PROVE Pids'
  BY <1>15 DEF PauseSleep, sleep
<1>16. ASSUME NEW c \in CPUs, NEW s \in Slots, Schedule(c, s) PROVE Pids'
  BY <1>16 DEF Schedule
<1>17. ASSUME NEW c \in CPUs, NEW np \in Slots, Fork(c, np) PROVE Pids'
  BY <1>17 DEF Fork, InUser, allocproc
<1>18. ASSUME NEW c \in CPUs, NEW np \in Slots, ForkFails(c, np) PROVE Pids'
  BY <1>18 DEF ForkFails, InUser, allocproc
<1>19. ASSUME NEW c \in CPUs, NEW np \in Slots, ThreadCreate(c, np) PROVE Pids'
  BY <1>19 DEF ThreadCreate, InUser, allocproc
<1>20. ASSUME NEW c \in CPUs, NEW n \in KillPids, Kill(c, n) PROVE Pids'
  BY <1>20 DEF Kill, InUser, Wake
<1>21. ASSUME NEW c \in CPUs, NEW q \in Slots, NEW sig \in Signals, SendSig(c, q, sig) PROVE Pids'
  BY <1>21 DEF SendSig, InUser, Wake
<1>22. CASE UNCHANGED vars
  BY <1>22 DEF vars
<1>. HIDE DEF TypeOK, Harts, Threads, Pids
<1>23. ASSUME NEW c \in CPUs, WaitScan(c) PROVE Pids'
  BY SMTT(30), <1>23, ScanCases, <1>9, <1>10, <1>11
<1>. QED BY SMTT(30), <1>1, <1>2, <1>3, <1>4, <1>5, <1>6, <1>7, <1>8, <1>9, <1>10, <1>11, <1>12,
            <1>13, <1>14, <1>15, <1>16, <1>17, <1>18, <1>19, <1>20, <1>21, <1>22, <1>23 DEF Next

\* wait_lock stays with the process that exits or goes to sleep.
LEMMA LocksNext == ~StopRunning /\ TypeOK /\ Harts /\ Threads /\ Locks /\ [Next]_vars => Locks'
<1>. SUFFICES ASSUME ~StopRunning, TypeOK, Harts, Threads, Locks, [Next]_vars PROVE Locks'
  OBVIOUS
<1>. USE SlotFacts DEF TypeOK, Harts, Threads, Locks
<1>1. ASSUME ClockTick PROVE Locks'
  BY <1>1 DEF ClockTick, wakeup
<1>2. ASSUME NEW c \in CPUs, yield(c) PROVE Locks'
  BY <1>2 DEF yield
<1>3. ASSUME NEW c \in CPUs, acquire(c) PROVE Locks'
  BY <1>3 DEF acquire
<1>4. ASSUME NEW c \in CPUs, ForkSetParent(c) PROVE Locks'
  BY <1>4 DEF ForkSetParent, Takes
<1>5. ASSUME NEW c \in CPUs, ForkSetRunnable(c) PROVE Locks'
  BY <1>5 DEF ForkSetRunnable
<1>6. ASSUME NEW c \in CPUs, ExitBegin(c) PROVE Locks'
  BY <1>6 DEF ExitBegin, wakeup, Children
<1>7. ASSUME NEW c \in CPUs, ExitEnd(c) PROVE Locks'
  <2>0. cpu[c] \in Slots /\ state[cpu[c]] = "RUNNING"
    BY <1>7, OnCpu DEF ExitEnd
  <2>1. cpu[c] \in Slots /\ wait_lock = cpu[c]
    BY ZenonT(40), <1>7, <2>0 DEF ExitEnd
  <2>2. \A s \in Slots \ {cpu[c]} : at[s] # "tosleep" /\ (at[s] = "exit" => state[s] = "ZOMBIE")
    BY <2>1
  <2>. QED BY <1>7, <2>1, <2>2 DEF ExitEnd
<1>8. ASSUME NEW c \in CPUs, WaitCall(c) PROVE Locks'
  BY <1>8 DEF WaitCall, InUser
<1>9. ASSUME NEW c \in CPUs, NEW q \in Slots, Reap(c, q) PROVE Locks'
  BY <1>9 DEF Reap, Takes, freeproc
<1>10. ASSUME NEW c \in CPUs, GiveUp(c) PROVE Locks'
  BY <1>10 DEF GiveUp, Takes
<1>11. ASSUME NEW c \in CPUs, Decide(c) PROVE Locks'
  BY <1>11 DEF Decide, Takes
<1>12. ASSUME NEW c \in CPUs, WaitSleep(c) PROVE Locks'
  <2>0. cpu[c] \in Slots /\ state[cpu[c]] = "RUNNING"
    BY <1>12, OnCpu DEF WaitSleep, sleep
  <2>1. cpu[c] \in Slots /\ wait_lock = cpu[c]
    BY ZenonT(40), <1>12, <2>0 DEF WaitSleep, sleep
  <2>2. \A s \in Slots \ {cpu[c]} : at[s] # "tosleep" /\ (at[s] = "exit" => state[s] = "ZOMBIE")
    BY <2>1
  <2>. QED BY <1>12, <2>1, <2>2 DEF WaitSleep, sleep
<1>13. ASSUME NEW c \in CPUs, PauseCall(c) PROVE Locks'
  BY <1>13 DEF PauseCall, InUser
<1>14. ASSUME NEW c \in CPUs, Pause(c) PROVE Locks'
  BY <1>14 DEF Pause, Takes
<1>15. ASSUME NEW c \in CPUs, PauseSleep(c) PROVE Locks'
  BY <1>15 DEF PauseSleep, sleep
<1>16. ASSUME NEW c \in CPUs, NEW s \in Slots, Schedule(c, s) PROVE Locks'
  BY <1>16 DEF Schedule
<1>17. ASSUME NEW c \in CPUs, NEW np \in Slots, Fork(c, np) PROVE Locks'
  BY <1>17 DEF Fork, InUser, allocproc
<1>18. ASSUME NEW c \in CPUs, NEW np \in Slots, ForkFails(c, np) PROVE Locks'
  BY <1>18 DEF ForkFails, InUser, allocproc
<1>19. ASSUME NEW c \in CPUs, NEW np \in Slots, ThreadCreate(c, np) PROVE Locks'
  BY <1>19 DEF ThreadCreate, InUser, allocproc
<1>20. ASSUME NEW c \in CPUs, NEW n \in KillPids, Kill(c, n) PROVE Locks'
  BY <1>20 DEF Kill, InUser, Wake
<1>21. ASSUME NEW c \in CPUs, NEW q \in Slots, NEW sig \in Signals, SendSig(c, q, sig) PROVE Locks'
  BY <1>21 DEF SendSig, InUser, Wake
<1>22. CASE UNCHANGED vars
  BY <1>22 DEF vars
<1>. HIDE DEF TypeOK, Harts, Threads, Locks
<1>23. ASSUME NEW c \in CPUs, WaitScan(c) PROVE Locks'
  BY <1>23, ScanCases, <1>9, <1>10, <1>11
<1>. QED BY <1>1, <1>2, <1>3, <1>4, <1>5, <1>6, <1>7, <1>8, <1>9, <1>10, <1>11, <1>12,
            <1>13, <1>14, <1>15, <1>16, <1>17, <1>18, <1>19, <1>20, <1>21, <1>22, <1>23 DEF Next

\* reparent() leaves an exiting process no child, and nobody gets one later.
LEMMA FamilyNext == ~StopRunning /\ TypeOK /\ Harts /\ Threads /\ Locks /\ Family /\ [Next]_vars => Family'
<1>. SUFFICES ASSUME ~StopRunning, TypeOK, Harts, Threads, Locks, Family, [Next]_vars PROVE Family'
  OBVIOUS
<1>. USE SlotFacts DEF TypeOK, Harts, Threads, Locks, Family
<1>1. ASSUME ClockTick PROVE Family'
  BY <1>1 DEF ClockTick, wakeup
<1>2. ASSUME NEW c \in CPUs, yield(c) PROVE Family'
  BY <1>2 DEF yield
<1>3. ASSUME NEW c \in CPUs, acquire(c) PROVE Family'
  BY <1>3 DEF acquire
<1>4. ASSUME NEW c \in CPUs, ForkSetParent(c) PROVE Family'
  BY <1>4 DEF ForkSetParent, Takes
<1>5. ASSUME NEW c \in CPUs, ForkSetRunnable(c) PROVE Family'
  <2>1. PICK p, k \in Slots :
           /\ p # k /\ state[p] = "RUNNING" /\ state[k] = "USED" /\ at[p] = "forked"
           /\ at[k] = "none" /\ parent[k] = p /\ child[p] = k
           /\ state' = [state EXCEPT ![k] = "RUNNABLE"]
           /\ at' = [at EXCEPT ![p] = "user", ![k] = "user"]
           /\ child' = [child EXCEPT ![p] = None]
           /\ UNCHANGED <<pid, parent, killed, chan, cpu, wait_lock, nextpid, spinning, stopped>>
    BY <1>5, Hatches
  <2>. QED BY <2>1
<1>6. ASSUME NEW c \in CPUs, ExitBegin(c) PROVE Family'
  BY <1>6 DEF ExitBegin, wakeup, Children
<1>7. ASSUME NEW c \in CPUs, ExitEnd(c) PROVE Family'
  <2>0. cpu[c] \in Slots
    BY <1>7, OnCpu DEF ExitEnd
  <2>1. cpu[c] \in Slots /\ \A q \in Slots : parent[q] # cpu[c]
    BY ZenonT(40), <1>7, <2>0 DEF ExitEnd
  <2>. QED BY <1>7, <2>1 DEF ExitEnd
<1>8. ASSUME NEW c \in CPUs, WaitCall(c) PROVE Family'
  BY <1>8 DEF WaitCall, InUser
<1>9. ASSUME NEW c \in CPUs, NEW q \in Slots, Reap(c, q) PROVE Family'
  BY <1>9 DEF Reap, Takes, freeproc
<1>10. ASSUME NEW c \in CPUs, GiveUp(c) PROVE Family'
  BY <1>10 DEF GiveUp, Takes
<1>11. ASSUME NEW c \in CPUs, Decide(c) PROVE Family'
  BY <1>11 DEF Decide, Takes
<1>12. ASSUME NEW c \in CPUs, WaitSleep(c) PROVE Family'
  BY <1>12 DEF WaitSleep, sleep
<1>13. ASSUME NEW c \in CPUs, PauseCall(c) PROVE Family'
  BY <1>13 DEF PauseCall, InUser
<1>14. ASSUME NEW c \in CPUs, Pause(c) PROVE Family'
  BY <1>14 DEF Pause, Takes
<1>15. ASSUME NEW c \in CPUs, PauseSleep(c) PROVE Family'
  BY <1>15 DEF PauseSleep, sleep
<1>16. ASSUME NEW c \in CPUs, NEW s \in Slots, Schedule(c, s) PROVE Family'
  BY <1>16 DEF Schedule
<1>17. ASSUME NEW c \in CPUs, NEW np \in Slots, Fork(c, np) PROVE Family'
  BY <1>17 DEF Fork, InUser, allocproc
<1>18. ASSUME NEW c \in CPUs, NEW np \in Slots, ForkFails(c, np) PROVE Family'
  BY <1>18 DEF ForkFails, InUser, allocproc
<1>19. ASSUME NEW c \in CPUs, NEW np \in Slots, ThreadCreate(c, np) PROVE Family'
  BY <1>19 DEF ThreadCreate, InUser, allocproc
<1>20. ASSUME NEW c \in CPUs, NEW n \in KillPids, Kill(c, n) PROVE Family'
  BY <1>20 DEF Kill, InUser, Wake
<1>21. ASSUME NEW c \in CPUs, NEW q \in Slots, NEW sig \in Signals, SendSig(c, q, sig) PROVE Family'
  <2>1. \A s \in Slots : (state'[s] = state[s]) \/ ({state'[s], state[s]} \subseteq {"SLEEPING", "RUNNABLE"})
    BY <1>21, SigEffect
  <2>2. \A s \in Slots : (state'[s] = "RUNNING" <=> state[s] = "RUNNING") /\ (state'[s] = "ZOMBIE" <=> state[s] = "ZOMBIE")
    BY <2>1
  <2>3. \A s \in Slots : (state'[s] = "UNUSED" <=> state[s] = "UNUSED") /\ (state'[s] = "USED" <=> state[s] = "USED")
    BY <2>1
  <2>4. cpu' = cpu /\ at' = at /\ child' = child /\ parent' = parent
    BY <1>21, SigEffect
  <2>. HIDE DEF TypeOK, Harts, Threads, Family
  <2>. QED BY <2>2, <2>3, <2>4, FamilyCalm
<1>22. CASE UNCHANGED vars
  BY <1>22 DEF vars
<1>. HIDE DEF TypeOK, Harts, Threads, Locks, Family
<1>23. ASSUME NEW c \in CPUs, WaitScan(c) PROVE Family'
  BY SMTT(30), <1>23, ScanCases, <1>9, <1>10, <1>11
<1>. QED BY SMTT(30), <1>1, <1>2, <1>3, <1>4, <1>5, <1>6, <1>7, <1>8, <1>9, <1>10, <1>11, <1>12,
            <1>13, <1>14, <1>15, <1>16, <1>17, <1>18, <1>19, <1>20, <1>21, <1>22, <1>23 DEF Next

\* An exit wakes the parent, and none begins between a scan and its sleep.
LEMMA WaitsNext == ~StopRunning /\ TypeOK /\ Harts /\ Threads /\ Locks /\ Waits /\ [Next]_vars => Waits'
<1>. SUFFICES ASSUME ~StopRunning, TypeOK, Harts, Threads, Locks, Waits, [Next]_vars PROVE Waits'
  OBVIOUS
<1>. USE SlotFacts DEF TypeOK, Harts, Threads, Locks, Waits
<1>1. ASSUME ClockTick PROVE Waits'
  BY <1>1 DEF ClockTick, wakeup
<1>2. ASSUME NEW c \in CPUs, yield(c) PROVE Waits'
  BY <1>2 DEF yield
<1>3. ASSUME NEW c \in CPUs, acquire(c) PROVE Waits'
  BY <1>3 DEF acquire
<1>4. ASSUME NEW c \in CPUs, ForkSetParent(c) PROVE Waits'
  BY <1>4 DEF ForkSetParent, Takes
<1>5. ASSUME NEW c \in CPUs, ForkSetRunnable(c) PROVE Waits'
  BY <1>5 DEF ForkSetRunnable
<1>6. ASSUME NEW c \in CPUs, ExitBegin(c) PROVE Waits'
  BY <1>6 DEF ExitBegin, wakeup, Children
<1>7. ASSUME NEW c \in CPUs, ExitEnd(c) PROVE Waits'
  BY <1>7 DEF ExitEnd
<1>8. ASSUME NEW c \in CPUs, WaitCall(c) PROVE Waits'
  BY <1>8 DEF WaitCall, InUser
<1>9. ASSUME NEW c \in CPUs, NEW q \in Slots, Reap(c, q) PROVE Waits'
  BY <1>9 DEF Reap, Takes, freeproc
<1>10. ASSUME NEW c \in CPUs, GiveUp(c) PROVE Waits'
  BY <1>10 DEF GiveUp, Takes
<1>11. ASSUME NEW c \in CPUs, Decide(c) PROVE Waits'
  BY <1>11 DEF Decide, Takes
<1>12. ASSUME NEW c \in CPUs, WaitSleep(c) PROVE Waits'
  BY <1>12 DEF WaitSleep, sleep
<1>13. ASSUME NEW c \in CPUs, PauseCall(c) PROVE Waits'
  BY <1>13 DEF PauseCall, InUser
<1>14. ASSUME NEW c \in CPUs, Pause(c) PROVE Waits'
  BY <1>14 DEF Pause, Takes
<1>15. ASSUME NEW c \in CPUs, PauseSleep(c) PROVE Waits'
  BY <1>15 DEF PauseSleep, sleep
<1>16. ASSUME NEW c \in CPUs, NEW s \in Slots, Schedule(c, s) PROVE Waits'
  BY <1>16 DEF Schedule
<1>17. ASSUME NEW c \in CPUs, NEW np \in Slots, Fork(c, np) PROVE Waits'
  BY <1>17 DEF Fork, InUser, allocproc
<1>18. ASSUME NEW c \in CPUs, NEW np \in Slots, ForkFails(c, np) PROVE Waits'
  BY <1>18 DEF ForkFails, InUser, allocproc
<1>19. ASSUME NEW c \in CPUs, NEW np \in Slots, ThreadCreate(c, np) PROVE Waits'
  BY <1>19 DEF ThreadCreate, InUser, allocproc
<1>20. ASSUME NEW c \in CPUs, NEW n \in KillPids, Kill(c, n) PROVE Waits'
  BY <1>20 DEF Kill, InUser, Wake
<1>21. ASSUME NEW c \in CPUs, NEW q \in Slots, NEW sig \in Signals, SendSig(c, q, sig) PROVE Waits'
  BY <1>21 DEF SendSig, InUser, Wake
<1>22. CASE UNCHANGED vars
  BY <1>22 DEF vars
<1>. HIDE DEF TypeOK, Harts, Threads, Locks, Waits
<1>23. ASSUME NEW c \in CPUs, WaitScan(c) PROVE Waits'
  BY <1>23, ScanCases, <1>9, <1>10, <1>11
<1>. QED BY <1>1, <1>2, <1>3, <1>4, <1>5, <1>6, <1>7, <1>8, <1>9, <1>10, <1>11, <1>12,
            <1>13, <1>14, <1>15, <1>16, <1>17, <1>18, <1>19, <1>20, <1>21, <1>22, <1>23 DEF Next

-----------------------------------------------------------------------------
(* What follows.                                                           *)

\* Harts, threads, pids, wait_lock and families fit together in every state,
\* for any number of slots and harts, as long as SIGSTOP spares a running process.
THEOREM Invariance == ASSUME ~StopRunning PROVE Spec => []IInv
<1>1. IInv /\ [Next]_vars => IInv'
  BY TypeNext, HartsNext, ThreadsNext, PidsNext, LocksNext, FamilyNext, WaitsNext DEF IInv
<1>. QED BY <1>1, InvInit, PTL DEF Spec

\* No two harts run one process, and RUNNING says that one does: scheduler(),
\* yield(), sleep() and kexit() keep p->state and c->proc together.
THEOREM OneCpu == ASSUME ~StopRunning PROVE Spec => []RunsOnOneCpu
<1>1. IInv => RunsOnOneCpu
  <2>. SUFFICES ASSUME TypeOK, Harts, NEW s \in Slots
                PROVE  Cardinality(On(s)) = IF state[s] = "RUNNING" THEN 1 ELSE 0
    BY DEF IInv, RunsOnOneCpu
  <2>1. CASE state[s] = "RUNNING"
    <3>1. PICK c \in CPUs : cpu[c] = s
      BY <2>1 DEF Harts
    <3>2. On(s) = {c}
      BY <3>1, SlotFacts DEF Harts, On
    <3>. QED BY ZenonT(40), <2>1, <3>2, FS_Singleton
  <2>2. CASE state[s] # "RUNNING"
    <3>1. On(s) = {}
      BY <2>2, SlotFacts DEF Harts, On
    <3>. QED BY <2>2, <3>1, FS_EmptySet
  <2>. QED BY <2>1, <2>2
<1>. QED BY <1>1, Invariance, PTL

\* Every process has a live parent and a pid of its own, whatever the order of
\* the forks, thread_creates, exits and waits.
THEOREM ParentsLive == ASSUME ~StopRunning PROVE Spec => []NoOrphans
<1>1. IInv => NoOrphans
  BY SlotFacts DEF IInv, TypeOK, Family, Pids, NoOrphans
<1>. QED BY <1>1, Invariance, PTL

\* No exit falls between the scan and the sleep of kwait(): a parent asleep
\* there has no zombie to reap.
THEOREM NoMissedExit == ASSUME ~StopRunning PROVE Spec => []WaitMissesNoExit
<1>1. IInv => WaitMissesNoExit
  BY DEF IInv, Threads, Waits, WaitMissesNoExit, Children
<1>. QED BY <1>1, Invariance, PTL

\* A free slot is not marked killed.
Clean == \A s \in Slots : state[s] = "UNUSED" => killed[s] = FALSE

\* freeproc() clears p->killed, and without kill(0) nobody sets it on a free slot.
LEMMA CleanNext == ~StopRunning /\ 0 \notin KillPids /\ TypeOK /\ Harts /\ Threads /\ Pids /\ Clean /\ [Next]_vars => Clean'
<1>. SUFFICES ASSUME ~StopRunning, 0 \notin KillPids, TypeOK, Harts, Threads, Pids, Clean, [Next]_vars PROVE Clean'
  OBVIOUS
<1>. USE SlotFacts DEF TypeOK, Harts, Threads, Pids, Clean
<1>1. ASSUME ClockTick PROVE Clean'
  BY <1>1 DEF ClockTick, wakeup
<1>2. ASSUME NEW c \in CPUs, yield(c) PROVE Clean'
  BY <1>2 DEF yield
<1>3. ASSUME NEW c \in CPUs, acquire(c) PROVE Clean'
  BY <1>3 DEF acquire
<1>4. ASSUME NEW c \in CPUs, ForkSetParent(c) PROVE Clean'
  BY <1>4 DEF ForkSetParent, Takes
<1>5. ASSUME NEW c \in CPUs, ForkSetRunnable(c) PROVE Clean'
  <2>1. PICK p, k \in Slots :
           /\ p # k /\ state[p] = "RUNNING" /\ state[k] = "USED" /\ at[p] = "forked"
           /\ at[k] = "none" /\ parent[k] = p /\ child[p] = k
           /\ state' = [state EXCEPT ![k] = "RUNNABLE"]
           /\ at' = [at EXCEPT ![p] = "user", ![k] = "user"]
           /\ child' = [child EXCEPT ![p] = None]
           /\ UNCHANGED <<pid, parent, killed, chan, cpu, wait_lock, nextpid, spinning, stopped>>
    BY <1>5, Hatches
  <2>. QED BY <2>1
<1>6. ASSUME NEW c \in CPUs, ExitBegin(c) PROVE Clean'
  BY <1>6 DEF ExitBegin, wakeup, Children
<1>7. ASSUME NEW c \in CPUs, ExitEnd(c) PROVE Clean'
  BY <1>7 DEF ExitEnd
<1>8. ASSUME NEW c \in CPUs, WaitCall(c) PROVE Clean'
  BY <1>8 DEF WaitCall, InUser
<1>9. ASSUME NEW c \in CPUs, NEW q \in Slots, Reap(c, q) PROVE Clean'
  BY <1>9 DEF Reap, Takes, freeproc
<1>10. ASSUME NEW c \in CPUs, GiveUp(c) PROVE Clean'
  BY <1>10 DEF GiveUp, Takes
<1>11. ASSUME NEW c \in CPUs, Decide(c) PROVE Clean'
  BY <1>11 DEF Decide, Takes
<1>12. ASSUME NEW c \in CPUs, WaitSleep(c) PROVE Clean'
  BY <1>12 DEF WaitSleep, sleep
<1>13. ASSUME NEW c \in CPUs, PauseCall(c) PROVE Clean'
  BY <1>13 DEF PauseCall, InUser
<1>14. ASSUME NEW c \in CPUs, Pause(c) PROVE Clean'
  BY <1>14 DEF Pause, Takes
<1>15. ASSUME NEW c \in CPUs, PauseSleep(c) PROVE Clean'
  BY <1>15 DEF PauseSleep, sleep
<1>16. ASSUME NEW c \in CPUs, NEW s \in Slots, Schedule(c, s) PROVE Clean'
  BY <1>16 DEF Schedule
<1>17. ASSUME NEW c \in CPUs, NEW np \in Slots, Fork(c, np) PROVE Clean'
  BY <1>17 DEF Fork, InUser, allocproc
<1>18. ASSUME NEW c \in CPUs, NEW np \in Slots, ForkFails(c, np) PROVE Clean'
  BY <1>18 DEF ForkFails, InUser, allocproc
<1>19. ASSUME NEW c \in CPUs, NEW np \in Slots, ThreadCreate(c, np) PROVE Clean'
  BY <1>19 DEF ThreadCreate, InUser, allocproc
<1>20. ASSUME NEW c \in CPUs, NEW n \in KillPids, Kill(c, n) PROVE Clean'
  BY <1>20 DEF Kill, InUser, Wake
<1>21. ASSUME NEW c \in CPUs, NEW q \in Slots, NEW sig \in Signals, SendSig(c, q, sig) PROVE Clean'
  BY <1>21 DEF SendSig, InUser, Wake
<1>22. CASE UNCHANGED vars
  BY <1>22 DEF vars
<1>. HIDE DEF TypeOK, Harts, Threads, Pids, Clean
<1>23. ASSUME NEW c \in CPUs, WaitScan(c) PROVE Clean'
  BY <1>23, ScanCases, <1>9, <1>10, <1>11
<1>. QED BY SMTT(30), <1>1, <1>2, <1>3, <1>4, <1>5, <1>6, <1>7, <1>8, <1>9, <1>10, <1>11, <1>12,
            <1>13, <1>14, <1>15, <1>16, <1>17, <1>18, <1>19, <1>20, <1>21, <1>22, <1>23 DEF Next

\* A step that takes a free slot gives it to a process that is not killed.
Fresh == \A s \in Slots : state[s] = "UNUSED" /\ state'[s] # "UNUSED" => ~killed'[s]

\* Only allocproc() takes a free slot, and it finds p->killed clear.
LEMMA FreshNext == ~StopRunning /\ TypeOK /\ Harts /\ Threads /\ Clean /\ [Next]_vars => Fresh
<1>. SUFFICES ASSUME ~StopRunning, TypeOK, Harts, Threads, Clean, [Next]_vars PROVE Fresh
  OBVIOUS
<1>. USE SlotFacts DEF TypeOK, Harts, Threads, Clean, Fresh
<1>1. ASSUME ClockTick PROVE Fresh
  BY <1>1 DEF ClockTick, wakeup
<1>2. ASSUME NEW c \in CPUs, yield(c) PROVE Fresh
  BY <1>2 DEF yield
<1>3. ASSUME NEW c \in CPUs, acquire(c) PROVE Fresh
  BY <1>3 DEF acquire
<1>4. ASSUME NEW c \in CPUs, ForkSetParent(c) PROVE Fresh
  BY <1>4 DEF ForkSetParent, Takes
<1>5. ASSUME NEW c \in CPUs, ForkSetRunnable(c) PROVE Fresh
  <2>1. PICK p, k \in Slots :
           /\ p # k /\ state[p] = "RUNNING" /\ state[k] = "USED" /\ at[p] = "forked"
           /\ at[k] = "none" /\ parent[k] = p /\ child[p] = k
           /\ state' = [state EXCEPT ![k] = "RUNNABLE"]
           /\ at' = [at EXCEPT ![p] = "user", ![k] = "user"]
           /\ child' = [child EXCEPT ![p] = None]
           /\ UNCHANGED <<pid, parent, killed, chan, cpu, wait_lock, nextpid, spinning, stopped>>
    BY <1>5, Hatches
  <2>. QED BY <2>1
<1>6. ASSUME NEW c \in CPUs, ExitBegin(c) PROVE Fresh
  BY <1>6 DEF ExitBegin, wakeup, Children
<1>7. ASSUME NEW c \in CPUs, ExitEnd(c) PROVE Fresh
  BY <1>7 DEF ExitEnd
<1>8. ASSUME NEW c \in CPUs, WaitCall(c) PROVE Fresh
  BY <1>8 DEF WaitCall, InUser
<1>9. ASSUME NEW c \in CPUs, NEW q \in Slots, Reap(c, q) PROVE Fresh
  BY <1>9 DEF Reap, Takes, freeproc
<1>10. ASSUME NEW c \in CPUs, GiveUp(c) PROVE Fresh
  BY <1>10 DEF GiveUp, Takes
<1>11. ASSUME NEW c \in CPUs, Decide(c) PROVE Fresh
  BY <1>11 DEF Decide, Takes
<1>12. ASSUME NEW c \in CPUs, WaitSleep(c) PROVE Fresh
  BY <1>12 DEF WaitSleep, sleep
<1>13. ASSUME NEW c \in CPUs, PauseCall(c) PROVE Fresh
  BY <1>13 DEF PauseCall, InUser
<1>14. ASSUME NEW c \in CPUs, Pause(c) PROVE Fresh
  BY <1>14 DEF Pause, Takes
<1>15. ASSUME NEW c \in CPUs, PauseSleep(c) PROVE Fresh
  BY <1>15 DEF PauseSleep, sleep
<1>16. ASSUME NEW c \in CPUs, NEW s \in Slots, Schedule(c, s) PROVE Fresh
  BY <1>16 DEF Schedule
<1>17. ASSUME NEW c \in CPUs, NEW np \in Slots, Fork(c, np) PROVE Fresh
  BY <1>17 DEF Fork, InUser, allocproc
<1>18. ASSUME NEW c \in CPUs, NEW np \in Slots, ForkFails(c, np) PROVE Fresh
  BY <1>18 DEF ForkFails, InUser, allocproc
<1>19. ASSUME NEW c \in CPUs, NEW np \in Slots, ThreadCreate(c, np) PROVE Fresh
  BY <1>19 DEF ThreadCreate, InUser, allocproc
<1>20. ASSUME NEW c \in CPUs, NEW n \in KillPids, Kill(c, n) PROVE Fresh
  BY <1>20 DEF Kill, InUser, Wake
<1>21. ASSUME NEW c \in CPUs, NEW q \in Slots, NEW sig \in Signals, SendSig(c, q, sig) PROVE Fresh
  BY <1>21 DEF SendSig, InUser, Wake
<1>22. CASE UNCHANGED vars
  BY <1>22 DEF vars
<1>. HIDE DEF TypeOK, Harts, Threads, Clean, Fresh
<1>23. ASSUME NEW c \in CPUs, WaitScan(c) PROVE Fresh
  BY <1>23, ScanCases, <1>9, <1>10, <1>11
<1>. QED BY SMTT(30), <1>1, <1>2, <1>3, <1>4, <1>5, <1>6, <1>7, <1>8, <1>9, <1>10, <1>11, <1>12,
            <1>13, <1>14, <1>15, <1>16, <1>17, <1>18, <1>19, <1>20, <1>21, <1>22, <1>23 DEF Next

\* If kill() is never called with pid 0, allocproc() hands out no slot that
\* carries a kill: kill(0) is the only way to break what proc.h says.
THEOREM FreshUnlessKillZero ==
  ASSUME ~StopRunning, 0 \notin KillPids
  PROVE  Spec => NewProcessIsNotKilled
<1>1. Init => Clean
  BY DEF Init, Clean
<1>2. IInv /\ Clean /\ [Next]_vars => Clean'
  BY CleanNext DEF IInv
<1>3. Spec => []Clean
  BY <1>1, <1>2, Invariance, PTL DEF Spec
<1>4. IInv /\ Clean /\ [Next]_vars
        => [\A s \in Slots : state[s] = "UNUSED" /\ state'[s] # "UNUSED" => ~killed'[s]]_vars
  BY FreshNext DEF IInv, Fresh
<1>. QED BY <1>3, <1>4, Invariance, PTL DEF Spec, NewProcessIsNotKilled
=============================================================================
