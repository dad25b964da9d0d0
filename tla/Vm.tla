--------------------------------- MODULE Vm ---------------------------------
(* Physical pages and user address spaces of xv6 (kernel/kalloc.c, vm.c,    *)
(* exec.c, and the memory side of proc.c and sysproc.c).                   *)
(*                                                                         *)
(* Page tables are trees in physical pages, as in the code, with LEVELS     *)
(* levels of FAN entries for Sv39's three of 512.  The calls of a process   *)
(* touch its own tables and the shared list of free pages only, and what a  *)
(* call can find of the list is how much is left of it, so each call is one *)
(* step; every kalloc() in it can be the one that fails.  A page's contents *)
(* are one value.  Which free page kalloc() pops is left out: the first.    *)
EXTENDS Integers, FiniteSets, FiniteSetsExt, Sequences

CONSTANTS Procs,    \* processes
          NFRAMES,  \* physical pages
          FAN,      \* entries of a page table page
          LEVELS,   \* levels of a page table
          PGSIZE,   \* bytes in a page
          Grows,    \* arguments of sbrk()
          Addrs,    \* addresses that processes use
          MaxCalls  \* bound on the calls of a behaviour

ASSUME VmAssumption ==
  /\ {NFRAMES, FAN, LEVELS, PGSIZE, MaxCalls} \subseteq Nat \ {0}
  /\ Grows \subseteq Int /\ Addrs \subseteq Nat

VARIABLES kmem,    \* physical memory: the free pages, tables, contents
          proc,    \* p->pagetable, p->trapframe, p->sz and the state
          calls    \* how many calls were made
vmvars == <<kmem, proc, calls>>

Frames     == 1 .. NFRAMES
MAXVA      == FAN ^ LEVELS             \* in pages
TRAMPOLINE == MAXVA - 1
TRAPFRAME  == MAXVA - 2
PX(level, va) == (va \div FAN ^ level) % FAN
Pages(sz)  == (sz + PGSIZE - 1) \div PGSIZE        \* PGROUNDUP(sz) / PGSIZE
NoEntry    == [kind |-> "none", pa |-> 0]
NoTable    == [i \in 0 .. FAN - 1 |-> NoEntry]
NoProc     == [state |-> "UNUSED", pagetable |-> 0, trapframe |-> 0, sz |-> 0]

\* "kernel" pages have no PTE_U, "text" no PTE_W; "guard" is uvmclear()'s.
Kinds  == {"none", "table", "kernel", "text", "guard", "user"}
Values == {"junk", "zero", "text", "args", "data"}

\* The kinds of value the variables keep: no size reaches past the trapframe.
VmTypeOK ==
  /\ kmem \in [free : SUBSET Frames,
               pt : [Frames -> [0 .. FAN - 1 -> [kind : Kinds, pa : 0 .. NFRAMES]]],
               data : [Frames -> Values], panic : BOOLEAN]
  /\ proc \in [Procs -> [state : {"UNUSED", "USED", "ZOMBIE"}, pagetable : 0 .. NFRAMES,
                         trapframe : 0 .. NFRAMES, sz : 0 .. TRAPFRAME * PGSIZE]]
  /\ calls \in 0 .. MaxCalls

-----------------------------------------------------------------------------
(* Pages and page tables.  k is a value of kmem.                           *)

\* kfree() fills the page with junk, and kalloc() with junk of its own; 0 is
\* returned when no page is free.
kfree(k, f) == [k EXCEPT !.free = @ \cup {f}, !.pt[f] = NoTable, !.data[f] = "junk",
                         !.panic = @ \/ f \in k.free]
Top(k)    == IF k.free = {} THEN 0 ELSE Min(k.free)
kalloc(k) == [k EXCEPT !.free = @ \ {Top(k)}]
\* Mutant of Zeroed: the memset() is missing.
ZeroedNot(k) == kalloc(k)

\* kalloc() and memset() of a page that is there.
Zeroed(k) == [kalloc(k) EXCEPT !.data[Top(k)] = "zero"]

\* walk(): the page table page that holds the last-level entry of va, or 0.
RECURSIVE walk(_, _, _, _, _)
walk(k, t, va, level, alloc) ==
  LET e == k.pt[t][PX(level, va)]
      f == Top(k)
  IN  IF level = 0 THEN [k |-> k, t |-> t]
      ELSE IF e.kind # "none" THEN walk(k, e.pa, va, level - 1, alloc)
      ELSE IF ~alloc \/ f = 0 THEN [k |-> k, t |-> 0]
      ELSE walk([kalloc(k) EXCEPT !.pt[t][PX(level, va)] = [kind |-> "table", pa |-> f]],
                f, va, level - 1, alloc)

\* The entry of va in the last-level table t, and in the tree below root t.
Leaf(k, t, va)  == IF t = 0 THEN NoEntry ELSE k.pt[t][PX(0, va)]
Entry(k, t, va) == Leaf(k, walk(k, t, va, LEVELS - 1, FALSE).t, va)
SetEntry(k, t, va, e) ==
  [k EXCEPT !.pt[walk(k, t, va, LEVELS - 1, FALSE).t][PX(0, va)] = e]

\* mappages() of one page; tables allocated on the way stay when it fails.
MapLeaf(w, va, pa, kind) ==
  IF w.t = 0 THEN [k |-> w.k, ok |-> FALSE]
  ELSE [k |-> [w.k EXCEPT !.pt[w.t][PX(0, va)] = [kind |-> kind, pa |-> pa],
                          !.panic = @ \/ Leaf(w.k, w.t, va) # NoEntry],
        ok |-> TRUE]
mappages(k, t, va, pa, kind) == MapLeaf(walk(k, t, va, LEVELS - 1, TRUE), va, pa, kind)

\* uvmunmap(): n pages from va on; the ones without a mapping are skipped.
RECURSIVE uvmunmap(_, _, _, _, _)
uvmunmap(k, t, va, n, do_free) ==
  LET e  == Entry(k, t, va)
      k1 == IF do_free THEN kfree(k, e.pa) ELSE k
  IN  IF n <= 0 THEN k
      ELSE uvmunmap(IF e = NoEntry THEN k ELSE SetEntry(k1, t, va, NoEntry),
                    t, va + 1, n - 1, do_free)

uvmdealloc(k, t, oldsz, newsz) ==
  IF newsz >= oldsz THEN k
  ELSE uvmunmap(k, t, Pages(newsz), Pages(oldsz) - Pages(newsz), TRUE)

\* uvmalloc(): page by page from PGROUNDUP(oldsz); the first failure undoes
\* what this call did and returns 0.
RECURSIVE Grow(_, _, _, _, _, _)
Grow(k, t, va, first, newsz, kind) ==
  LET m     == mappages(Zeroed(k), t, va, Top(k), kind)
      fails == IF Top(k) = 0 THEN k ELSE kfree(m.k, Top(k))
  IN  IF va * PGSIZE >= newsz THEN [k |-> k, sz |-> newsz]
      ELSE IF Top(k) # 0 /\ m.ok THEN Grow(m.k, t, va + 1, first, newsz, kind)
      ELSE [k |-> uvmdealloc(fails, t, va * PGSIZE, first * PGSIZE), sz |-> 0]
uvmalloc(k, t, oldsz, newsz, kind) ==
  IF newsz < oldsz THEN [k |-> k, sz |-> oldsz]
  ELSE Grow(k, t, Pages(oldsz), Pages(oldsz), newsz, kind)

\* freewalk(): every table page, bottom up; a mapping still there is a panic.
RECURSIVE freewalk(_, _, _)
freewalk(k, t, i) ==
  LET e == k.pt[t][i]
  IN  IF i = FAN THEN kfree(k, t)
      ELSE freewalk(IF e.kind = "table" THEN freewalk(k, e.pa, 0)
                    ELSE [k EXCEPT !.panic = @ \/ e.kind # "none"], t, i + 1)
uvmfree(k, t, sz) == freewalk(uvmunmap(k, t, 0, Pages(sz), TRUE), t, 0)

\* Mutant of uvmcopy: the error path forgets the pages mapped so far.
RECURSIVE uvmcopyKeeps(_, _, _, _, _)
uvmcopyKeeps(k, old, new, i, sz) ==
  LET e == Entry(k, old, i)
      f == Top(k)
      m == mappages([kalloc(k) EXCEPT !.data[f] = k.data[e.pa]], new, i, f, e.kind)
  IN  IF i * PGSIZE >= sz THEN [k |-> k, ok |-> TRUE]
      ELSE IF e = NoEntry THEN uvmcopyKeeps(k, old, new, i + 1, sz)
      ELSE IF f # 0 /\ m.ok THEN uvmcopyKeeps(m.k, old, new, i + 1, sz)
      ELSE [k |-> IF f = 0 THEN k ELSE kfree(m.k, f), ok |-> FALSE]

\* uvmcopy(): a page of the child's own for every page the parent has.
RECURSIVE uvmcopy(_, _, _, _, _)
uvmcopy(k, old, new, i, sz) ==
  LET e == Entry(k, old, i)
      f == Top(k)
      m == mappages([kalloc(k) EXCEPT !.data[f] = k.data[e.pa]], new, i, f, e.kind)
  IN  IF i * PGSIZE >= sz THEN [k |-> k, ok |-> TRUE]
      ELSE IF e = NoEntry THEN uvmcopy(k, old, new, i + 1, sz)
      ELSE IF f # 0 /\ m.ok THEN uvmcopy(m.k, old, new, i + 1, sz)
      ELSE [k |-> uvmunmap(IF f = 0 THEN k ELSE kfree(m.k, f), new, 0, i, TRUE), ok |-> FALSE]

\* vmfault(): a zero page for an address below the size that has none yet.
vmfault(k, P, a) ==
  LET va == a \div PGSIZE
      m  == mappages(Zeroed(k), P.pagetable, va, Top(k), "user")
  IN  IF a >= P.sz \/ Entry(k, P.pagetable, va) # NoEntry \/ Top(k) = 0
      THEN [k |-> k, ok |-> FALSE]
      ELSE IF m.ok THEN m ELSE [m EXCEPT !.k = kfree(m.k, Top(k))]

\* copyout() (write) and copyin() of n pages from page va on: pages that are
\* not there yet are faulted in, and an error leaves what was copied.
RECURSIVE Copy(_, _, _, _, _)
Copy(k, P, va, n, write) ==
  LET e == Entry(k, P.pagetable, va)
      v == IF e.kind \in {"user", "text"} THEN [k |-> k, ok |-> TRUE]
           ELSE vmfault(k, P, va * PGSIZE)
      b == Entry(v.k, P.pagetable, va)
  IN  IF n = 0 \/ va >= MAXVA THEN k
      ELSE IF ~v.ok \/ (write /\ b.kind = "text") THEN v.k
      ELSE Copy(IF write THEN [v.k EXCEPT !.data[b.pa] = "data"] ELSE v.k,
                P, va + 1, n - 1, write)

-----------------------------------------------------------------------------
(* Processes.                                                              *)

\* proc_pagetable(): the root, the trampoline (no page of kmem's) and the
\* trapframe, or nothing.
proc_pagetable(k, trapframe) ==
  LET t  == Top(k)
      m1 == mappages(kalloc(k), t, TRAMPOLINE, 0, "kernel")
      m2 == mappages(m1.k, t, TRAPFRAME, trapframe, "kernel")
  IN  IF t = 0 THEN [k |-> k, t |-> 0]
      ELSE IF ~m1.ok THEN [k |-> uvmfree(m1.k, t, 0), t |-> 0]
      ELSE IF ~m2.ok THEN [k |-> uvmfree(uvmunmap(m2.k, t, TRAMPOLINE, 1, FALSE), t, 0), t |-> 0]
      ELSE [k |-> m2.k, t |-> t]

proc_freepagetable(k, t, sz) ==
  uvmfree(uvmunmap(uvmunmap(k, t, TRAMPOLINE, 1, FALSE), t, TRAPFRAME, 1, FALSE), t, sz)

freeproc(k, P) == proc_freepagetable(kfree(k, P.trapframe), P.pagetable, P.sz)

\* allocproc(): a process with a trapframe and an empty memory, or NoProc.
WithPagetable(g, tf) ==
  IF g.t = 0 THEN [k |-> kfree(g.k, tf), P |-> NoProc]
  ELSE [k |-> g.k, P |-> [state |-> "USED", pagetable |-> g.t, trapframe |-> tf, sz |-> 0]]
allocproc(k) ==
  IF Top(k) = 0 THEN [k |-> k, P |-> NoProc]
  ELSE WithPagetable(proc_pagetable(kalloc(k), Top(k)), Top(k))

Alive(p) == proc[p].state = "USED"

kfork(p, q) ==
  /\ Alive(p) /\ proc[q] = NoProc
  /\ LET a == allocproc(kmem)
         c == uvmcopy(a.k, proc[p].pagetable, a.P.pagetable, 0, proc[p].sz)
     IN  IF a.P = NoProc THEN kmem' = a.k /\ UNCHANGED proc
         ELSE IF ~c.ok THEN kmem' = freeproc(c.k, a.P) /\ UNCHANGED proc
         ELSE kmem' = c.k /\ proc' = [proc EXCEPT ![q] = [a.P EXCEPT !.sz = proc[p].sz]]

\* A page gets its contents; uvmclear() makes one the stack's guard.
Filled(k, t, va, v) == [k EXCEPT !.data[Entry(k, t, va).pa] = v]
uvmclear(k, t, va)  == SetEntry(k, t, va, [kind |-> "guard", pa |-> Entry(k, t, va).pa])

\* kexec() of a program of one segment.  The old memory is freed only when
\* nothing can fail any more; bad is what is wrong with the file or the
\* arguments: it is no program, it is cut short, they do not fit the stack.
TEXT == 1              \* bytes of the segment
USERSTACK == 1
kexec(p, bad) ==
  /\ Alive(p)
  /\ LET P     == proc[p]
         g     == proc_pagetable(kmem, P.trapframe)
         seg   == uvmalloc(g.k, g.t, 0, TEXT, "text")
         text  == Filled(seg.k, g.t, 0, "text")
         base  == Pages(TEXT)
         stack == uvmalloc(text, g.t, base * PGSIZE, (base + USERSTACK + 1) * PGSIZE, "user")
         new   == uvmclear(stack.k, g.t, base)
         args  == Filled(new, g.t, base + 1, "args")
         fails(k, sz) == kmem' = proc_freepagetable(k, g.t, sz) /\ UNCHANGED proc
     IN  IF bad = "file" THEN UNCHANGED <<kmem, proc>>
         ELSE IF g.t = 0 THEN kmem' = g.k /\ UNCHANGED proc
         ELSE IF seg.sz = 0 THEN fails(seg.k, 0)
         ELSE IF bad = "short" THEN fails(seg.k, seg.sz)
         ELSE IF stack.sz = 0 THEN fails(stack.k, base * PGSIZE)
         ELSE IF bad = "args" THEN fails(new, stack.sz)
         ELSE /\ kmem' = proc_freepagetable(args, P.pagetable, P.sz)
              /\ proc' = [proc EXCEPT ![p].pagetable = g.t, ![p].sz = stack.sz]

\* Mutant of sys_sbrk: growing lazily is not held below the trapframe.
sys_sbrkNoLimit(p, n, lazy) ==
  /\ Alive(p) /\ lazy /\ n > 0
  /\ proc' = [proc EXCEPT ![p].sz = @ + n] /\ UNCHANGED kmem

\* sys_sbrk() and growproc(): memory now, or (lazy) when it is used.  A size
\* below zero wraps around and is not below the old size.
sys_sbrk(p, n, lazy) ==
  /\ Alive(p)
  /\ LET P  == proc[p]
         sz == P.sz + n
         m  == uvmalloc(kmem, P.pagetable, P.sz, sz, "user")
         Sized(k, s) == kmem' = k /\ proc' = [proc EXCEPT ![p].sz = s]
     IN  IF sz < 0 \/ (n > 0 /\ sz > TRAPFRAME * PGSIZE) THEN UNCHANGED <<kmem, proc>>
         ELSE IF n < 0 THEN Sized(uvmdealloc(kmem, P.pagetable, P.sz, sz), sz)
         ELSE IF lazy THEN Sized(kmem, sz)
         ELSE Sized(m.k, IF m.sz = 0 THEN P.sz ELSE sz)

\* A load or store of the process at address a: usertrap() and
\* handle_page_fault() when the page is not there or not allowed; killed if
\* vmfault() cannot help.
Access(p, a, store) ==
  /\ Alive(p)
  /\ LET P == proc[p]
         e == Entry(kmem, P.pagetable, a \div PGSIZE)
         v == vmfault(kmem, P, a)
         k == IF v.ok THEN v.k ELSE kmem
         pa == Entry(k, P.pagetable, a \div PGSIZE).pa
     IN  IF e.kind = "user" \/ (e.kind = "text" /\ ~store) \/ v.ok
         THEN kmem' = (IF store THEN [k EXCEPT !.data[pa] = "data"] ELSE k) /\ UNCHANGED proc
         ELSE proc' = [proc EXCEPT ![p].state = "ZOMBIE"] /\ UNCHANGED kmem

\* A system call that copies n pages to or from the process.
SyscallCopies(p, va, n, write) ==
  Alive(p) /\ kmem' = Copy(kmem, proc[p], va, n, write) /\ UNCHANGED proc

kexit(p) ==
  Alive(p) /\ proc' = [proc EXCEPT ![p].state = "ZOMBIE"] /\ UNCHANGED kmem

\* kwait() finds a zombie: freeproc().
kwait(p) ==
  /\ proc[p].state = "ZOMBIE"
  /\ kmem' = freeproc(kmem, proc[p])
  /\ proc' = [proc EXCEPT ![p] = NoProc]

\* kinit() and userinit(): all pages free, and a first process without memory.
Kinit == [free |-> Frames, pt |-> [f \in Frames |-> NoTable],
          data |-> [f \in Frames |-> "junk"], panic |-> FALSE]
VmInit ==
  /\ kmem = allocproc(Kinit).k
  /\ \E p \in Procs : proc = [q \in Procs |-> IF q = p THEN allocproc(Kinit).P ELSE NoProc]
  /\ calls = 0

VmNext ==
  /\ calls < MaxCalls /\ calls' = calls + 1
  /\ \E p \in Procs :
       \/ \E q \in Procs : kfork(p, q)
       \/ \E bad \in {"no", "file", "short", "args"} : kexec(p, bad)
       \/ \E n \in Grows, lazy \in BOOLEAN : sys_sbrk(p, n, lazy)
       \/ \E a \in Addrs, store \in BOOLEAN : Access(p, a, store)
       \/ \E a \in Addrs, write \in BOOLEAN : SyscallCopies(p, a \div PGSIZE, 2, write)
       \/ kexit(p) \/ kwait(p)

VmSpec == VmInit /\ [][VmNext]_vmvars

-----------------------------------------------------------------------------
(* Properties.                                                             *)

\* The entries of the tree below t.
RECURSIVE Mapped(_, _)
Mapped(k, t) ==
  UNION {{<<t, i>>} \cup (IF k.pt[t][i].kind = "table" THEN Mapped(k, k.pt[t][i].pa) ELSE {}) :
           i \in {j \in 0 .. FAN - 1 : k.pt[t][j].kind # "none"}}

\* kalloc() and kfree() against every error path of fork(), exec(), sbrk()
\* and page faults: a physical page is free, or is named by one trapframe
\* pointer, one root or one entry of one page table, and never by two; none is
\* lost, none is freed twice, and neither "remap" nor "freewalk: leaf" panics.
FramesOwnedOnce ==
  LET Used(p) == proc[p].state # "UNUSED"
      places  == UNION {{<<p, 0>>, <<p, 1>>} : p \in {q \in Procs : Used(q)}}
      entries == UNION {Mapped(kmem, proc[p].pagetable) : p \in {q \in Procs : Used(q)}}
      owning  == {s \in entries : kmem.pt[s[1]][s[2]].kind # "kernel"}
      frames  == {kmem.pt[s[1]][s[2]].pa : s \in owning}
      own     == {proc[x[1]].pagetable : x \in places} \cup {proc[x[1]].trapframe : x \in places}
  IN  /\ ~kmem.panic
      /\ frames \cup own = Frames \ kmem.free
      /\ Cardinality(owning) + Cardinality(places) = Cardinality(frames \cup own)

\* uvmcopy(), uvmalloc(), vmfault(), copyout() and kexec(): processes see
\* private memories (PrivateMemory); a page not yet there reads as zero.
memory ==
  [p \in Procs |->
     IF ~Alive(p) THEN <<>>
     ELSE [i \in 1 .. Pages(proc[p].sz) |->
             LET e == Entry(kmem, proc[p].pagetable, i - 1)
             IN  IF e = NoEntry THEN "zero" ELSE kmem.data[e.pa]]]
Private == INSTANCE PrivateMemory WITH mem <- memory, zero <- "zero", Stored <- {"data"},
                                       image <- <<"text", "zero", "args">>
IsPrivateMemory == Private!Spec
=============================================================================
