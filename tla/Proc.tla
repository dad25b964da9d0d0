-------------------------------- MODULE Proc --------------------------------
(***************************************************************************)
(* kernel/proc.c with the process calls of sysproc.c and sysproc_custom.c: *)
(* the process table, the per-CPU schedulers, sleep and wakeup, and fork,  *)
(* thread_create, exit, wait, kill, sendsig and pause.  A step is one      *)
(* critical section of a process's p->lock (which is held across swtch,    *)
(* so leaving a CPU and changing p->state are one step) or of wait_lock.   *)
(***************************************************************************)
EXTENDS Integers, FiniteSets

CONSTANTS NPROC,        \* param.h: size of the process table
          CPUs,         \* the harts that run scheduler()
          MaxPid,       \* bound: no process is created after this pid
          KillPids,     \* pids that kill() is called with
          Signals,      \* signal numbers that sendsig() is called with
          StopRunning   \* whether SIGSTOP may hit a process that is RUNNING

ASSUME ProcAssumption ==
  /\ NPROC \in Nat \ {0} /\ MaxPid \in Nat \ {0}
  /\ KillPids \subseteq 0..MaxPid /\ Signals \subseteq {1, 2, 3}
  /\ StopRunning \in BOOLEAN

Slots == 1..NPROC
None == 0                    \* the null pointer
initproc == 1
TICKS == NPROC + 1           \* the channel &ticks; &proc[s] is the channel s

VARIABLES state, pid, parent, killed, chan,   \* fields of struct proc
          cpu,         \* cpu[c]: c->proc, the process running on hart c
          wait_lock,   \* the process holding wait_lock
          nextpid,
          at,          \* where each process's kernel thread is
          child,       \* the slot a running fork has allocated
          spinning,    \* processes in acquire() of wait_lock or tickslock
          stopped      \* processes sent SIGSTOP and no SIGCONT since
vars == <<state, pid, parent, killed, chan, cpu, wait_lock, nextpid, at,
          child, spinning, stopped>>

States == {"UNUSED", "USED", "SLEEPING", "RUNNABLE", "RUNNING", "ZOMBIE"}
Places == {"none", "user", "fork", "forked", "exit", "wait", "tosleep",
           "pause", "topause"}

TypeOK ==
  /\ state \in [Slots -> States]
  /\ pid \in [Slots -> 0..MaxPid]
  /\ parent \in [Slots -> Slots \cup {None}]
  /\ killed \in [Slots -> BOOLEAN]
  /\ chan \in [Slots -> 0..TICKS]
  /\ cpu \in [CPUs -> Slots \cup {None}]
  /\ wait_lock \in Slots \cup {None}
  /\ nextpid \in 1..(MaxPid + 1)
  /\ at \in [Slots -> Places]
  /\ child \in [Slots -> Slots \cup {None}]
  /\ spinning \subseteq Slots /\ stopped \subseteq Slots

\* userinit: the first process is ready to run.
Init ==
  /\ state = [s \in Slots |-> IF s = initproc THEN "RUNNABLE" ELSE "UNUSED"]
  /\ pid = [s \in Slots |-> IF s = initproc THEN 1 ELSE 0]
  /\ at = [s \in Slots |-> IF s = initproc THEN "user" ELSE "none"]
  /\ parent = [s \in Slots |-> None] /\ child = [s \in Slots |-> None]
  /\ killed = [s \in Slots |-> FALSE] /\ chan = [s \in Slots |-> None]
  /\ cpu = [c \in CPUs |-> None]
  /\ wait_lock = None /\ nextpid = 2 /\ spinning = {} /\ stopped = {}

-----------------------------------------------------------------------------
(* The scheduler, sleep and wakeup.                                        *)

\* wakeup(ch) by process s, on a table of states.
wakeup(st, s, ch) ==
  [q \in Slots |-> IF q # s /\ st[q] = "SLEEPING" /\ chan[q] = ch
                   THEN "RUNNABLE" ELSE st[q]]

\* Mutant of Schedule: p->state is not set to RUNNING.
ScheduleStillRunnable(c, s) ==
  /\ cpu[c] = None
  /\ state[s] = "RUNNABLE"
  /\ cpu' = [cpu EXCEPT ![c] = s]
  /\ chan' = [chan EXCEPT ![s] = None]
  /\ UNCHANGED <<state, pid, parent, killed, wait_lock, nextpid, at, child, spinning, stopped>>

\* The scheduler of hart c picks s and switches to it.  A process that comes
\* back from sleep() clears p->chan before it releases p->lock.
Schedule(c, s) ==
  /\ cpu[c] = None
  /\ state[s] = "RUNNABLE"
  /\ state' = [state EXCEPT ![s] = "RUNNING"]
  /\ cpu' = [cpu EXCEPT ![c] = s]
  /\ chan' = [chan EXCEPT ![s] = None]
  /\ UNCHANGED <<pid, parent, killed, wait_lock, nextpid, at, child, spinning, stopped>>

\* The timer interrupt: usertrap() makes a killed process exit instead;
\* interrupts are off while it takes or holds wait_lock or tickslock.
yield(c) ==
  /\ cpu[c] # None
  /\ wait_lock # cpu[c] /\ at[cpu[c]] # "topause" /\ cpu[c] \notin spinning
  /\ ~(at[cpu[c]] = "user" /\ killed[cpu[c]])
  /\ state' = [state EXCEPT ![cpu[c]] = "RUNNABLE"]
  /\ cpu' = [cpu EXCEPT ![c] = None]
  /\ UNCHANGED <<pid, parent, killed, chan, wait_lock, nextpid, at, child, spinning, stopped>>

\* sleep(ch, lk) from its acquire of p->lock on: lk is released, and the CPU
\* given up, with p->lock held.
sleep(c, ch) ==
  /\ state' = [state EXCEPT ![cpu[c]] = "SLEEPING"]
  /\ chan' = [chan EXCEPT ![cpu[c]] = ch]
  /\ cpu' = [cpu EXCEPT ![c] = None]

\* A process that runs user code and enters the kernel with a system call.
InUser(c) ==
  /\ cpu[c] # None
  /\ at[cpu[c]] = "user"
  /\ ~killed[cpu[c]]

\* acquire() turns interrupts off, then spins until the lock is free.
acquire(c) ==
  /\ cpu[c] # None
  /\ at[cpu[c]] \in {"fork", "wait", "pause"}
  /\ cpu[c] \notin spinning
  /\ spinning' = spinning \cup {cpu[c]}
  /\ UNCHANGED <<state, pid, parent, killed, chan, cpu, wait_lock, nextpid, at,
                 child, stopped>>

\* The process on hart c is at the given acquire() and takes the lock.
Takes(c, place) ==
  /\ cpu[c] \in spinning
  /\ at[cpu[c]] = place
  /\ spinning' = spinning \ {cpu[c]}

-----------------------------------------------------------------------------
(* Creating processes.                                                     *)

\* allocproc() takes an UNUSED slot.
allocproc(np) ==
  /\ state[np] = "UNUSED"
  /\ nextpid <= MaxPid
  /\ nextpid' = nextpid + 1

\* kfork() up to its release of np->lock.
Fork(c, np) ==
  /\ InUser(c)
  /\ allocproc(np)
  /\ state' = [state EXCEPT ![np] = "USED"]
  /\ pid' = [pid EXCEPT ![np] = nextpid]
  /\ at' = [at EXCEPT ![cpu[c]] = "fork"]
  /\ child' = [child EXCEPT ![cpu[c]] = np]
  /\ UNCHANGED <<parent, killed, chan, cpu, wait_lock, spinning, stopped>>

\* kalloc() or uvmcopy() fails in kfork() or sys_thread_create(): freeproc(np).
ForkFails(c, np) ==
  /\ InUser(c)
  /\ allocproc(np)
  /\ parent' = [parent EXCEPT ![np] = None]
  /\ killed' = [killed EXCEPT ![np] = FALSE]
  /\ chan' = [chan EXCEPT ![np] = None]
  /\ UNCHANGED <<state, pid, cpu, wait_lock, at, child, spinning, stopped>>

ForkSetParent(c) ==
  /\ Takes(c, "fork")
  /\ wait_lock = None
  /\ parent' = [parent EXCEPT ![child[cpu[c]]] = cpu[c]]
  /\ at' = [at EXCEPT ![cpu[c]] = "forked"]
  /\ UNCHANGED <<state, pid, killed, chan, cpu, wait_lock, nextpid, child, stopped>>

ForkSetRunnable(c) ==
  /\ cpu[c] # None
  /\ at[cpu[c]] = "forked"
  /\ state' = [state EXCEPT ![child[cpu[c]]] = "RUNNABLE"]
  /\ at' = [at EXCEPT ![cpu[c]] = "user", ![child[cpu[c]]] = "user"]
  /\ child' = [child EXCEPT ![cpu[c]] = None]
  /\ UNCHANGED <<pid, parent, killed, chan, cpu, wait_lock, nextpid, spinning, stopped>>

\* sys_thread_create() does it all with t->lock held, and without wait_lock.
ThreadCreate(c, t) ==
  /\ InUser(c)
  /\ allocproc(t)
  /\ state' = [state EXCEPT ![t] = "RUNNABLE"]
  /\ pid' = [pid EXCEPT ![t] = nextpid]
  /\ parent' = [parent EXCEPT ![t] = cpu[c]]
  /\ at' = [at EXCEPT ![t] = "user"]
  /\ UNCHANGED <<killed, chan, cpu, wait_lock, child, spinning, stopped>>

-----------------------------------------------------------------------------
(* Exit and wait.                                                          *)

Children(s) == {q \in Slots : parent[q] = s}

\* Mutants of ExitBegin: the parent is not woken; the children keep the parent.
ExitBeginNoWakeup(c) ==
  LET s == cpu[c] IN
  /\ s # None /\ s # initproc
  /\ at[s] = "user"
  /\ wait_lock = None
  /\ wait_lock' = s
  /\ parent' = [q \in Slots |-> IF parent[q] = s THEN initproc ELSE parent[q]]
  /\ state' = IF Children(s) # {} THEN wakeup(state, s, initproc) ELSE state
  /\ at' = [at EXCEPT ![s] = "exit"]
  /\ UNCHANGED <<pid, killed, chan, cpu, nextpid, child, spinning, stopped>>

ExitBeginNoReparent(c) ==
  LET s == cpu[c] IN
  /\ s # None /\ s # initproc
  /\ at[s] = "user"
  /\ wait_lock = None
  /\ wait_lock' = s
  /\ state' = wakeup(state, s, parent[s])
  /\ at' = [at EXCEPT ![s] = "exit"]
  /\ UNCHANGED <<pid, parent, killed, chan, cpu, nextpid, child, spinning, stopped>>

\* kexit() from its acquire of wait_lock: reparent(p) and the wakeups.  The
\* process calls exit() or finds in usertrap() that it was killed.
ExitBegin(c) ==
  LET s == cpu[c]
      st == IF Children(s) # {} THEN wakeup(state, s, initproc) ELSE state IN
  /\ s # None /\ s # initproc
  /\ at[s] = "user"
  /\ wait_lock = None
  /\ wait_lock' = s
  /\ parent' = [q \in Slots |-> IF parent[q] = s THEN initproc ELSE parent[q]]
  /\ state' = wakeup(st, s, parent[s])
  /\ at' = [at EXCEPT ![s] = "exit"]
  /\ UNCHANGED <<pid, killed, chan, cpu, nextpid, child, spinning, stopped>>

\* The rest of kexit(): ZOMBIE, release wait_lock, and sched() for good.
ExitEnd(c) ==
  /\ cpu[c] # None
  /\ at[cpu[c]] = "exit"
  /\ state' = [state EXCEPT ![cpu[c]] = "ZOMBIE"]
  /\ wait_lock' = None
  /\ cpu' = [cpu EXCEPT ![c] = None]
  /\ UNCHANGED <<pid, parent, killed, chan, nextpid, at, child, spinning, stopped>>

\* kwait() is called.
WaitCall(c) ==
  /\ InUser(c)
  /\ at' = [at EXCEPT ![cpu[c]] = "wait"]
  /\ UNCHANGED <<state, pid, parent, killed, chan, cpu, wait_lock, nextpid, child, spinning, stopped>>

\* Mutants of freeproc: p->pid becomes -1; p->killed is not cleared.
freeprocPidMinusOne(q) ==
  /\ state' = [state EXCEPT ![q] = "UNUSED"]
  /\ pid' = [pid EXCEPT ![q] = -1]
  /\ parent' = [parent EXCEPT ![q] = None]
  /\ killed' = [killed EXCEPT ![q] = FALSE]
  /\ chan' = [chan EXCEPT ![q] = None]
  /\ stopped' = stopped \ {q}

freeprocKeepsKilled(q) ==
  /\ state' = [state EXCEPT ![q] = "UNUSED"]
  /\ pid' = [pid EXCEPT ![q] = 0]
  /\ parent' = [parent EXCEPT ![q] = None]
  /\ chan' = [chan EXCEPT ![q] = None]
  /\ stopped' = stopped \ {q}
  /\ UNCHANGED killed

\* freeproc(q).
freeproc(q) ==
  /\ state' = [state EXCEPT ![q] = "UNUSED"]
  /\ pid' = [pid EXCEPT ![q] = 0]
  /\ parent' = [parent EXCEPT ![q] = None]
  /\ killed' = [killed EXCEPT ![q] = FALSE]
  /\ chan' = [chan EXCEPT ![q] = None]
  /\ stopped' = stopped \ {q}

\* One pass of kwait() over the table, with wait_lock held: reap a zombie (or
\* fail to copy its status out), give up, or decide to sleep.
WaitScan(c) ==
  LET s == cpu[c]
      zombies == {q \in Children(s) : state[q] = "ZOMBIE"}
      first == CHOOSE q \in zombies : \A r \in zombies : q <= r IN
  /\ Takes(c, "wait")
  /\ wait_lock = None
  /\ \/ /\ zombies # {}
        /\ freeproc(first)
        /\ at' = [at EXCEPT ![s] = "user", ![first] = "none"]
        /\ UNCHANGED wait_lock
     \/ /\ IF zombies # {} THEN s # initproc   \* init passes no address
                           ELSE Children(s) = {} \/ killed[s]
        /\ at' = [at EXCEPT ![s] = "user"]
        /\ UNCHANGED <<state, pid, parent, killed, chan, wait_lock, stopped>>
     \/ /\ zombies = {} /\ Children(s) # {} /\ ~killed[s]
        /\ at' = [at EXCEPT ![s] = "tosleep"]
        /\ wait_lock' = s
        /\ UNCHANGED <<state, pid, parent, killed, chan, stopped>>
  /\ UNCHANGED <<cpu, nextpid, child>>

\* sleep(p, &wait_lock)
WaitSleep(c) ==
  /\ cpu[c] # None
  /\ at[cpu[c]] = "tosleep"
  /\ sleep(c, cpu[c])
  /\ wait_lock' = None
  /\ at' = [at EXCEPT ![cpu[c]] = "wait"]
  /\ UNCHANGED <<pid, parent, killed, nextpid, child, spinning, stopped>>

-----------------------------------------------------------------------------
(* pause, kill and sendsig.                                                *)

tickslockFree == \A s \in Slots : at[s] # "topause"

\* sys_pause() is called; init never does.
PauseCall(c) ==
  /\ InUser(c) /\ cpu[c] # initproc
  /\ at' = [at EXCEPT ![cpu[c]] = "pause"]
  /\ UNCHANGED <<state, pid, parent, killed, chan, cpu, wait_lock, nextpid,
                 child, spinning, stopped>>

\* Mutant of Pause: the loop does not test killed(p).
PauseIgnoresKill(c) ==
  /\ Takes(c, "pause")
  /\ tickslockFree
  /\ \E place \in {"topause", "user"} : at' = [at EXCEPT ![cpu[c]] = place]
  /\ UNCHANGED <<state, pid, parent, killed, chan, cpu, wait_lock, nextpid,
                 child, stopped>>

\* One turn of its loop up to the call of sleep(), which it makes unless
\* enough ticks have passed (how many that takes is left open) or it is killed.
Pause(c) ==
  /\ Takes(c, "pause")
  /\ tickslockFree
  /\ \/ /\ ~killed[cpu[c]]
        /\ at' = [at EXCEPT ![cpu[c]] = "topause"]
     \/ at' = [at EXCEPT ![cpu[c]] = "user"]
  /\ UNCHANGED <<state, pid, parent, killed, chan, cpu, wait_lock, nextpid,
                 child, stopped>>

\* sleep(&ticks, &tickslock)
PauseSleep(c) ==
  /\ cpu[c] # None
  /\ at[cpu[c]] = "topause"
  /\ sleep(c, TICKS)
  /\ at' = [at EXCEPT ![cpu[c]] = "pause"]
  /\ UNCHANGED <<pid, parent, killed, wait_lock, nextpid, child, spinning, stopped>>

\* clockintr() on hart 0.
ClockTick ==
  /\ tickslockFree
  /\ state' = wakeup(state, None, TICKS)
  /\ UNCHANGED <<pid, parent, killed, chan, cpu, wait_lock, nextpid, at, child, spinning, stopped>>

\* p->state == SLEEPING becomes RUNNABLE.
Wake(q) == [state EXCEPT ![q] = IF @ = "SLEEPING" THEN "RUNNABLE" ELSE @]

\* kkill(n): the process, or free slot, whose p->pid is n.  A kill of init
\* is left out: it makes kexit() panic.
Kill(c, n) ==
  /\ InUser(c)
  /\ \E q \in Slots \ {initproc} :
       /\ pid[q] = n
       /\ killed' = [killed EXCEPT ![q] = TRUE]
       /\ state' = Wake(q)
  /\ UNCHANGED <<pid, parent, chan, cpu, wait_lock, nextpid, at, child, spinning, stopped>>

\* sys_sendsig(n, sig) finds process q.
SendSig(c, q, sig) ==
  /\ InUser(c)
  /\ pid[q] > 0 /\ state[q] # "UNUSED"
  /\ \/ /\ sig = 1 /\ q # initproc
        /\ killed' = [killed EXCEPT ![q] = TRUE]
        /\ state' = Wake(q)
        /\ UNCHANGED stopped
     \/ /\ sig = 2
        /\ state[q] = "RUNNING" => StopRunning
        /\ state' = [state EXCEPT ![q] = IF @ \in {"RUNNABLE", "RUNNING"}
                                         THEN "SLEEPING" ELSE @]
        /\ stopped' = stopped \cup {q}
        /\ UNCHANGED killed
     \/ /\ sig = 3
        /\ state' = Wake(q)
        /\ stopped' = stopped \ {q}
        /\ UNCHANGED killed
  /\ UNCHANGED <<pid, parent, chan, cpu, wait_lock, nextpid, at, child, spinning>>

Next ==
  \/ ClockTick
  \/ \E c \in CPUs :
       \/ yield(c) \/ acquire(c) \/ ForkSetParent(c) \/ ForkSetRunnable(c)
       \/ ExitBegin(c) \/ ExitEnd(c) \/ WaitCall(c) \/ WaitScan(c)
       \/ WaitSleep(c) \/ PauseCall(c) \/ Pause(c) \/ PauseSleep(c)
       \/ \E s \in Slots : Schedule(c, s)
       \/ \E np \in Slots : Fork(c, np) \/ ForkFails(c, np) \/ ThreadCreate(c, np)
       \/ \E n \in KillPids : Kill(c, n)
       \/ \E q \in Slots, sig \in Signals : SendSig(c, q, sig)

Spec == Init /\ [][Next]_vars

\* The steps process s cannot put off once it is in the kernel (or killed).
MustStep(c) ==
  \/ ForkSetParent(c) \/ ForkSetRunnable(c)
  \/ acquire(c) \/ WaitScan(c) \/ Pause(c)
  \/ killed[cpu[c]] /\ ExitBegin(c)

\* What the scheduling gives.  Timer interrupts keep coming on every hart and
\* the clock ticks; a lock holder, with interrupts off, runs on; scheduler()
\* scans the table round robin, so a process that is RUNNABLE again and again
\* is picked; a process that is run again and again, and finds the lock free
\* again and again, gets on; init.c calls wait() in a loop.
Fairness ==
  /\ WF_vars(ClockTick)
  /\ \A c \in CPUs : WF_vars(yield(c)) /\ WF_vars(ExitEnd(c) \/ WaitSleep(c) \/ PauseSleep(c))
  /\ \A s \in Slots : /\ SF_vars(\E c \in CPUs : Schedule(c, s))
                      /\ SF_vars(\E c \in CPUs : cpu[c] = s /\ MustStep(c))
  /\ SF_vars(\E c \in CPUs : cpu[c] = initproc /\ WaitCall(c))

FairSpec == Spec /\ Fairness

-----------------------------------------------------------------------------
(* Properties.                                                             *)

On(s) == {c \in CPUs : cpu[c] = s}

\* The fields of struct proc that proc.h calls private to the process (its
\* kernel stack, context and trapframe among them) are used without a lock:
\* a process is RUNNING exactly while one hart, and no second one, runs it.
RunsOnOneCpu ==
  \A s \in Slots : Cardinality(On(s)) = IF state[s] = "RUNNING" THEN 1 ELSE 0

\* The part of it that proc.h's comment is about: no two harts at once use the
\* fields that "are private to the process, so p->lock need not be held".
NeverOnTwoCpus == \A s \in Slots : Cardinality(On(s)) <= 1

\* kexit() against kwait(): a parent that sleeps in wait() has no zombie
\* child, so no exit is missed and no child waits to be reaped by a process
\* that nobody will wake (unless SIGSTOP put the parent back to sleep).
WaitMissesNoExit ==
  \A s \in Slots :
    state[s] = "SLEEPING" /\ at[s] = "wait" /\ s \notin stopped
      => \A q \in Children(s) : state[q] # "ZOMBIE"

\* reparent() and the two-step hand-over of kfork(): every process that can
\* run, sleep or be a zombie has a parent that can still reap it (init has
\* none), and no two processes share a pid.
NoOrphans ==
  \A s \in Slots : state[s] \notin {"UNUSED", "USED"} =>
    /\ s # initproc => parent[s] # None /\ state[parent[s]] \notin {"UNUSED", "USED", "ZOMBIE"}
    /\ \A q \in Slots : pid[q] = pid[s] => q = s

\* proc.h says of p->killed "If non-zero, have been killed": a slot that
\* allocproc() hands to a new process carries no kill of an earlier one.
NewProcessIsNotKilled ==
  [][\A s \in Slots : state[s] = "UNUSED" /\ state'[s] # "UNUSED" => ~killed'[s]]_vars

\* The loop of init.c on top of kexit() and kwait(): a zombie that init has
\* adopted, or started, is eventually reaped and its slot is free again.
InitReaps ==
  \A s \in Slots :
    (state[s] = "ZOMBIE" /\ parent[s] = initproc) ~> (state[s] = "UNUSED")

\* kkill() and SIGTERM only set p->killed; usertrap(), sys_pause() and kwait()
\* must notice.  A killed process eventually exits, wherever the kill hit it,
\* unless it is in wait(), where the kill can arrive just before the sleep and
\* is then not seen until a child exits.
KilledExits ==
  \A s \in Slots \ {initproc} :
    (killed[s] /\ state[s] # "UNUSED") ~>
      (state[s] \in {"ZOMBIE", "UNUSED"} \/ at[s] \in {"wait", "tosleep"})

=============================================================================
