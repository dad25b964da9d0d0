----------------------------- MODULE PipeProofs -----------------------------
(***************************************************************************)
(* Proofs about the pipe (module Pipe), for any number of processes, any   *)
(* bytes and any sizes that satisfy PipeAssumption.                        *)
(***************************************************************************)
EXTENDS Pipe, FiniteSetTheorems, SequenceTheorems, TLAPS

\* pipealloc() leaves a well-typed pipe (pipe.c:26).
LEMMA TypeInit == Init => TypeOK
<1>. SUFFICES ASSUME Init PROVE TypeOK
  OBVIOUS
<1>1. /\ data \in [0..(PIPESIZE - 1) -> Bytes] /\ got \in Bytes
      /\ rrefs \subseteq Procs /\ wrefs \subseteq Procs
  BY DEF Init
<1>2. /\ nread \in 0..(UINT - 1) /\ nwrite \in 0..(UINT - 1) /\ freed \in Nat
      /\ lock \in Procs \cup {None} /\ left \in [Procs -> 0..MaxN]
  BY PipeAssumption DEF Init
<1>3. /\ readopen \in BOOLEAN /\ writeopen \in BOOLEAN /\ silent \in BOOLEAN
      /\ killed \in [Procs -> BOOLEAN]
  BY Zenon DEF Init
<1>4. pc \in [Procs -> Places] /\ chan \in [Procs -> {None, "nread", "nwrite"}]
  BY DEF Init, Places
<1>. QED BY <1>1, <1>2, <1>3, <1>4 DEF TypeOK

\* Every step of every process keeps the pipe well typed.
LEMMA TypeNext == TypeOK /\ [Next]_vars => TypeOK'
<1>. SUFFICES ASSUME TypeOK, Next PROVE TypeOK'
  BY ZenonT(40) DEF vars, TypeOK
<1>. USE DEF TypeOK, Next, Call, acquire, sleep, WriteByte, WriteFull, WriteEnd,
             WriteError, ReadTest, ReadByte, ReadEnd, fileclose, pipeclose,
             kfree, fork, kkill, ring, ends, wakeup, Goto, Return, In, MayWrite
<1>1. data' \in [0..(PIPESIZE - 1) -> Bytes]
  OBVIOUS
<1>2. nread' \in 0..(UINT - 1) /\ nwrite' \in 0..(UINT - 1)
  BY SMTT(30), PipeAssumption
<1>3. readopen' \in BOOLEAN /\ writeopen' \in BOOLEAN
  BY ZenonT(40)
<1>4. lock' \in Procs \cup {None}
  OBVIOUS
<1>5. pc' \in [Procs -> Places]
  BY SMTT(30) DEF Places
<1>6. left' \in [Procs -> 0..MaxN]
  BY SMTT(30), PipeAssumption
<1>7. chan' \in [Procs -> {None, "nread", "nwrite"}]
  OBVIOUS
<1>8. killed' \in [Procs -> BOOLEAN]
  BY ZenonT(40)
<1>9. rrefs' \subseteq Procs /\ wrefs' \subseteq Procs
  OBVIOUS
<1>10. got' \in Bytes
  BY PipeAssumption
<1>11. silent' \in BOOLEAN
  BY ZenonT(40)
<1>12. freed' \in Nat
  OBVIOUS
<1>. HIDE DEF Next, Call, acquire, sleep, WriteByte, WriteFull, WriteEnd, WriteError, ReadTest,
              ReadByte, ReadEnd, fileclose, pipeclose, kfree, fork, kkill
<1>. QED BY SMTT(30), <1>1, <1>2, <1>3, <1>4, <1>5, <1>6, <1>7, <1>8, <1>9, <1>10, <1>11, <1>12

\* The state of the pipe and of its processes is always well typed; the
\* counters stay within an unsigned int (pipe.c:117).
THEOREM TypeCorrect == Spec => []TypeOK
  BY TypeInit, TypeNext, PTL DEF Spec

-----------------------------------------------------------------------------
(* The inductive invariant.                                                *)

\* Who holds pi->lock is inside pipewrite() or piperead() and awake; a process
\* about to sleep or copying bytes holds it; whoever is inside a call has the
\* end it uses open.
Control ==
  \A p \in Procs :
    /\ lock = p => pc[p] \in {"write", "full", "read", "empty", "copy"} /\ chan[p] = None
    /\ pc[p] \in {"full", "empty", "copy"} => lock = p
    /\ chan[p] = "nwrite" => pc[p] = "write"
    /\ chan[p] = "nread" => pc[p] = "read"
    /\ pc[p] \in {"write", "full"} => p \in wrefs
    /\ pc[p] \in {"read", "empty", "copy"} => p \in rrefs

\* Each end is closed once, by one process, when nobody has it open; one
\* process frees the page, when both are closed.
Closing ==
  /\ ~readopen => rrefs = {}
  /\ ~writeopen => wrefs = {}
  /\ \A p \in Procs :
       /\ pc[p] = "closer" => readopen /\ rrefs = {}
       /\ pc[p] = "closew" => writeopen /\ wrefs = {}
       /\ pc[p] = "free" => ~readopen /\ ~writeopen /\ freed = 0
       /\ \A q \in Procs : pc[p] = pc[q] /\ pc[p] \in {"closer", "closew", "free"} => p = q
  /\ freed # 0 => freed = 1 /\ ~readopen /\ ~writeopen

\* SleepsForCause with pi->lock held: the cause may be gone while the process
\* that will call wakeup() is still at it.
Causes ==
  \A p \in Procs :
    /\ pc[p] = "full" => ~pipe_can_write /\ readopen
    /\ pc[p] = "empty" => pipe_empty /\ writeopen
    /\ chan[p] = "nwrite" =>
         readopen /\ (~pipe_can_write \/ \E q \in Procs : lock = q /\ pc[q] = "copy")
    /\ chan[p] = "nread" =>
         writeopen /\ (pipe_empty \/ silent \/ \E q \in Procs : lock = q /\ pc[q] = "write")

IInv == TypeOK /\ Control /\ Closing /\ Causes

\* pipealloc() establishes the invariant (pipe.c:26).
LEMMA InvInit == Init => IInv
<1>. SUFFICES ASSUME Init PROVE IInv
  OBVIOUS
<1>1. TypeOK
  BY TypeInit
<1>2. Control
  BY PipeAssumption DEF Init, Control, None
<1>3. Closing
  BY DEF Init, Closing
<1>4. Causes
  BY DEF Init, Causes, None
<1>. QED BY <1>1, <1>2, <1>3, <1>4 DEF IInv

\* Every step keeps processes where pi->lock and their ends allow.
LEMMA ControlNext == TypeOK /\ Control /\ [Next]_vars => Control'
<1>. SUFFICES ASSUME TypeOK, Control, [Next]_vars PROVE Control'
  OBVIOUS
<1>. USE DEF TypeOK, Control, None, ring, ends, Goto
<1>1. ASSUME NEW p \in Procs, NEW n \in 0..MaxN, Call(p, n, wrefs, "write") PROVE Control'
  BY <1>1, PipeAssumption DEF Call
<1>2. ASSUME NEW p \in Procs, NEW n \in 0..MaxN, Call(p, n, rrefs, "read") PROVE Control'
  BY <1>2, PipeAssumption DEF Call
<1>3. ASSUME NEW p \in Procs, acquire(p) PROVE Control'
  BY <1>3, PipeAssumption DEF acquire
<1>4. ASSUME NEW p \in Procs, sleep(p, "full", "nwrite", "write") PROVE Control'
  BY <1>4, PipeAssumption DEF sleep, In
<1>5. ASSUME NEW p \in Procs, sleep(p, "empty", "nread", "read") PROVE Control'
  BY <1>5, PipeAssumption DEF sleep, In
<1>6. ASSUME NEW p \in Procs, NEW b \in Bytes, WriteByte(p, b) PROVE Control'
  BY <1>6, PipeAssumption DEF WriteByte, MayWrite, In
<1>7. ASSUME NEW p \in Procs, WriteFull(p) PROVE Control'
  BY <1>7, PipeAssumption DEF WriteFull, MayWrite, In, wakeup
<1>8. ASSUME NEW p \in Procs, WriteEnd(p) PROVE Control'
  BY <1>8, PipeAssumption DEF WriteEnd, MayWrite, In, wakeup, Return
<1>9. ASSUME NEW p \in Procs, WriteError(p) PROVE Control'
  BY <1>9, PipeAssumption DEF WriteError, In, Return
<1>10. ASSUME NEW p \in Procs, ReadTest(p) PROVE Control'
  BY <1>10, PipeAssumption DEF ReadTest, In, Return
<1>11. ASSUME NEW p \in Procs, ReadByte(p) PROVE Control'
  BY <1>11, PipeAssumption DEF ReadByte, In
<1>12. ASSUME NEW p \in Procs, ReadEnd(p) PROVE Control'
  BY <1>12, PipeAssumption DEF ReadEnd, In, wakeup, Return
<1>13. ASSUME NEW p \in Procs, fileclose(p) PROVE Control'
  BY <1>13, PipeAssumption DEF fileclose
<1>14. ASSUME NEW p \in Procs, pipeclose(p) PROVE Control'
  BY <1>14, PipeAssumption DEF pipeclose, wakeup
<1>15. ASSUME NEW p \in Procs, kfree(p) PROVE Control'
  BY <1>15, PipeAssumption DEF kfree
<1>16. ASSUME NEW p \in Procs, kkill(p) PROVE Control'
  BY <1>16, PipeAssumption DEF kkill
<1>17. ASSUME NEW p \in Procs, NEW q \in Procs, fork(p, q) PROVE Control'
  BY <1>17, PipeAssumption DEF fork
<1>18. CASE UNCHANGED vars
  BY SMTT(30), <1>18 DEF vars
<1>. HIDE DEF TypeOK, Control, None, ring, ends, Goto
<1>. QED BY SMTT(30), <1>1, <1>2, <1>3, <1>4, <1>5, <1>6, <1>7, <1>8, <1>9, <1>10, <1>11,
            <1>12, <1>13, <1>14, <1>15, <1>16, <1>17, <1>18 DEF Next

\* Every step keeps the order of closing and freeing.
LEMMA ClosingNext == TypeOK /\ Control /\ Closing /\ [Next]_vars => Closing'
<1>. SUFFICES ASSUME TypeOK, Control, Closing, [Next]_vars PROVE Closing'
  OBVIOUS
<1>. USE DEF TypeOK, Control, Closing, ring, ends, Goto
<1>1. ASSUME NEW p \in Procs, NEW n \in 0..MaxN, Call(p, n, wrefs, "write") PROVE Closing'
  BY <1>1 DEF Call
<1>2. ASSUME NEW p \in Procs, NEW n \in 0..MaxN, Call(p, n, rrefs, "read") PROVE Closing'
  BY <1>2 DEF Call
<1>3. ASSUME NEW p \in Procs, acquire(p) PROVE Closing'
  BY <1>3 DEF acquire
<1>4. ASSUME NEW p \in Procs, sleep(p, "full", "nwrite", "write") PROVE Closing'
  BY <1>4 DEF sleep, In
<1>5. ASSUME NEW p \in Procs, sleep(p, "empty", "nread", "read") PROVE Closing'
  BY <1>5 DEF sleep, In
<1>6. ASSUME NEW p \in Procs, NEW b \in Bytes, WriteByte(p, b) PROVE Closing'
  BY <1>6 DEF WriteByte, MayWrite, In
<1>7. ASSUME NEW p \in Procs, WriteFull(p) PROVE Closing'
  BY <1>7 DEF WriteFull, MayWrite, In, wakeup
<1>8. ASSUME NEW p \in Procs, WriteEnd(p) PROVE Closing'
  BY <1>8 DEF WriteEnd, MayWrite, In, wakeup, Return
<1>9. ASSUME NEW p \in Procs, WriteError(p) PROVE Closing'
  BY <1>9 DEF WriteError, In, Return
<1>10. ASSUME NEW p \in Procs, ReadTest(p) PROVE Closing'
  BY <1>10 DEF ReadTest, In, Return
<1>11. ASSUME NEW p \in Procs, ReadByte(p) PROVE Closing'
  BY <1>11 DEF ReadByte, In
<1>12. ASSUME NEW p \in Procs, ReadEnd(p) PROVE Closing'
  BY <1>12 DEF ReadEnd, In, wakeup, Return
<1>13. ASSUME NEW p \in Procs, fileclose(p) PROVE Closing'
  <2>1. CASE /\ p \in rrefs /\ rrefs' = rrefs \ {p} /\ UNCHANGED wrefs
             /\ Goto(p, IF rrefs = {p} THEN "closer" ELSE "idle")
    BY <1>13, <2>1 DEF fileclose
  <2>2. CASE /\ p \in wrefs /\ wrefs' = wrefs \ {p} /\ UNCHANGED rrefs
             /\ Goto(p, IF wrefs = {p} THEN "closew" ELSE "idle")
    BY <1>13, <2>2 DEF fileclose
  <2>. QED BY <1>13, <2>1, <2>2 DEF fileclose
<1>14. ASSUME NEW p \in Procs, pipeclose(p) PROVE Closing'
  BY <1>14 DEF pipeclose, wakeup
<1>15. ASSUME NEW p \in Procs, kfree(p) PROVE Closing'
  BY <1>15 DEF kfree
<1>16. ASSUME NEW p \in Procs, kkill(p) PROVE Closing'
  BY <1>16 DEF kkill
<1>17. ASSUME NEW p \in Procs, NEW q \in Procs, fork(p, q) PROVE Closing'
  BY <1>17 DEF fork
<1>18. CASE UNCHANGED vars
  BY SMTT(30), <1>18 DEF vars
<1>. HIDE DEF TypeOK, Control, Closing, ring, ends, Goto
<1>. QED BY SMTT(30), <1>1, <1>2, <1>3, <1>4, <1>5, <1>6, <1>7, <1>8, <1>9, <1>10, <1>11,
            <1>12, <1>13, <1>14, <1>15, <1>16, <1>17, <1>18 DEF Next

\* Every step keeps a cause, or a coming wakeup(), for each sleeper.
LEMMA CausesNext == TypeOK /\ Control /\ Closing /\ Causes /\ [Next]_vars => Causes'
<1>. SUFFICES ASSUME TypeOK, Control, Closing, Causes, [Next]_vars PROVE Causes'
  OBVIOUS
<1>. USE DEF TypeOK, Control, Closing, Causes, pipe_can_write, pipe_empty, None, ring, ends, Goto
<1>1. ASSUME NEW p \in Procs, NEW n \in 0..MaxN, Call(p, n, wrefs, "write") PROVE Causes'
  BY <1>1, PipeAssumption DEF Call
<1>2. ASSUME NEW p \in Procs, NEW n \in 0..MaxN, Call(p, n, rrefs, "read") PROVE Causes'
  BY <1>2, PipeAssumption DEF Call
<1>3. ASSUME NEW p \in Procs, acquire(p) PROVE Causes'
  BY <1>3, PipeAssumption DEF acquire
<1>4. ASSUME NEW p \in Procs, sleep(p, "full", "nwrite", "write") PROVE Causes'
  BY <1>4, PipeAssumption DEF sleep, In
<1>5. ASSUME NEW p \in Procs, sleep(p, "empty", "nread", "read") PROVE Causes'
  BY <1>5, PipeAssumption DEF sleep, In
<1>6. ASSUME NEW p \in Procs, NEW b \in Bytes, WriteByte(p, b) PROVE Causes'
  BY <1>6, PipeAssumption DEF WriteByte, MayWrite, In
<1>7. ASSUME NEW p \in Procs, WriteFull(p) PROVE Causes'
  BY <1>7, PipeAssumption DEF WriteFull, MayWrite, In, wakeup
<1>8. ASSUME NEW p \in Procs, WriteEnd(p) PROVE Causes'
  BY <1>8, PipeAssumption DEF WriteEnd, MayWrite, In, wakeup, Return
<1>9. ASSUME NEW p \in Procs, WriteError(p) PROVE Causes'
  BY <1>9, PipeAssumption DEF WriteError, In, Return
<1>10. ASSUME NEW p \in Procs, ReadTest(p) PROVE Causes'
  BY <1>10, PipeAssumption DEF ReadTest, In, Return
<1>11. ASSUME NEW p \in Procs, ReadByte(p) PROVE Causes'
  BY <1>11, PipeAssumption DEF ReadByte, In
<1>12. ASSUME NEW p \in Procs, ReadEnd(p) PROVE Causes'
  BY <1>12, PipeAssumption DEF ReadEnd, In, wakeup, Return
<1>13. ASSUME NEW p \in Procs, fileclose(p) PROVE Causes'
  BY <1>13, PipeAssumption DEF fileclose
<1>14. ASSUME NEW p \in Procs, pipeclose(p) PROVE Causes'
  BY <1>14, PipeAssumption DEF pipeclose, wakeup
<1>15. ASSUME NEW p \in Procs, kfree(p) PROVE Causes'
  BY <1>15, PipeAssumption DEF kfree
<1>16. ASSUME NEW p \in Procs, kkill(p) PROVE Causes'
  BY <1>16, PipeAssumption DEF kkill
<1>17. ASSUME NEW p \in Procs, NEW q \in Procs, fork(p, q) PROVE Causes'
  BY <1>17, PipeAssumption DEF fork
<1>18. CASE UNCHANGED vars
  BY <1>18 DEF vars
<1>. HIDE DEF TypeOK, Control, Closing, Causes, pipe_can_write, pipe_empty, None, ring, ends, Goto
<1>. QED BY ZenonT(40), <1>1, <1>2, <1>3, <1>4, <1>5, <1>6, <1>7, <1>8, <1>9, <1>10, <1>11,
            <1>12, <1>13, <1>14, <1>15, <1>16, <1>17, <1>18 DEF Next

\* Control, closing and the causes of sleep hold together in every state, for
\* any number of readers, writers and killed processes.
THEOREM Invariance == Spec => []IInv
<1>1. IInv /\ [Next]_vars => IInv'
  BY TypeNext, ControlNext, ClosingNext, CausesNext DEF IInv
<1>. QED BY InvInit, <1>1, PTL DEF Spec

\* Whoever sleeps in pipewrite() or piperead() has a reason to, or will be
\* woken by the holder of pi->lock: no wakeup() is lost (pipe.c:113, 148).
THEOREM SleepersHaveCause == Spec => []SleepsForCause
<1>1. IInv => SleepsForCause
  BY PipeAssumption DEF IInv, Causes, SleepsForCause, TypeOK, None
<1>. QED BY Invariance, <1>1, PTL

\* The page of the pipe is freed at most once, and by then no process is inside
\* the pipe's functions (pipe.c:84).
THEOREM PageFreedOnce == Spec => []FreedOnce
<1>1. ASSUME IInv PROVE FreedOnce
  <2>. DEFINE F == {p \in Procs : pc[p] = "free"}
  <2>1. freed \in 0..1
    BY <1>1 DEF IInv, Closing, TypeOK
  <2>2. ASSUME freed = 1 \/ \E p \in Procs : pc[p] = "free"
        PROVE  /\ \A p \in Procs : pc[p] \in {"idle", "free"}
               /\ rrefs \cup wrefs = {}
    BY <1>1, <2>2 DEF IInv, Closing, Control, TypeOK, Places
  <2>3. CASE freed = 1
    <3>1. F = {}
      BY <1>1, <2>3 DEF IInv, Closing
    <3>2. Cardinality(F) + freed = 1
      BY <3>1, <2>3, FS_EmptySet
    <3>. QED BY <2>1, <2>2, <2>3, <3>2 DEF FreedOnce
  <2>4. CASE \E p \in Procs : pc[p] = "free"
    <3>1. PICK p \in Procs : pc[p] = "free"
      BY <2>4
    <3>2. F = {p} /\ freed = 0
      BY <1>1, <3>1 DEF IInv, Closing
    <3>3. Cardinality(F) + freed = 1
      BY <3>2, FS_Singleton
    <3>. QED BY <2>1, <2>2, <2>4, <3>3 DEF FreedOnce
  <2>5. CASE ~(freed = 1 \/ \E p \in Procs : pc[p] = "free")
    BY <2>1, <2>5 DEF FreedOnce
  <2>. QED BY <2>3, <2>4, <2>5
<1>2. IInv => FreedOnce
  BY <1>1
<1>. QED BY Invariance, <1>2, PTL

-----------------------------------------------------------------------------
(* The pipe implements Fifo.                                               *)

\* Remainders of division by U are unique.
LEMMA SameRemainder ==
  ASSUME NEW U \in Nat \ {0}, NEW q \in Int, NEW s \in Int,
         NEW r \in 0..(U - 1), NEW t \in 0..(U - 1), U * q + r = U * s + t
  PROVE  r = t
<1>1. U * (q - s) = t - r
  OBVIOUS
<1>2. CASE q - s >= 1
  <2>1. U * (q - s) >= U
    BY <1>2
  <2>. QED BY <2>1, <1>1
<1>3. CASE q - s <= -1
  <2>1. U * (q - s) <= -U
    BY <1>3
  <2>. QED BY <2>1, <1>1
<1>4. CASE q - s = 0
  BY <1>4, <1>1
<1>. QED BY <1>2, <1>3, <1>4

\* What x % U is, for an x written as a multiple of U and a rest.
LEMMA Remainder ==
  ASSUME NEW U \in Nat \ {0}, NEW q \in Int, NEW r \in 0..(U - 1)
  PROVE  (U * q + r) % U = r
<1>. DEFINE x == U * q + r
<1>1. x \in Int
  OBVIOUS
<1>. HIDE DEF x
<1>2. x = U * (x \div U) + (x % U) /\ x % U \in 0..(U - 1) /\ x \div U \in Int
  BY <1>1
<1>3. x = U * q + r
  BY DEF x
<1>4. x % U = r
  BY ZenonT(40), <1>2, <1>3, SameRemainder
<1>. QED BY <1>4 DEF x

\* The bytes between two counters, and the next value of one.
Between(a, b) == (b - a) % UINT
Succ(a) == (a + 1) % UINT
Counts == 0..(UINT - 1)

\* The distance between two counters is a count, whether or not one has wrapped.
LEMMA Distance ==
  ASSUME NEW a \in Counts, NEW b \in Counts
  PROVE  /\ Between(a, b) \in Counts
         /\ a + Between(a, b) = b \/ a + Between(a, b) = b + UINT
<1>. USE PipeAssumption DEF Counts
<1>1. CASE b >= a
  <2>1. b - a \in 0..(UINT - 1) /\ b - a = UINT * 0 + (b - a)
    BY <1>1
  <2>2. Between(a, b) = b - a
    BY <2>1, Remainder DEF Between
  <2>. QED BY <2>1, <2>2
<1>2. CASE b < a
  <2>1. b - a + UINT \in 0..(UINT - 1) /\ b - a = UINT * (-1) + (b - a + UINT)
    BY <1>2
  <2>2. Between(a, b) = b - a + UINT
    BY <2>1, Remainder DEF Between
  <2>. QED BY <2>1, <2>2
<1>. QED BY <1>1, <1>2

\* A counter that is incremented is a count, whether or not it wraps.
LEMMA Increment ==
  ASSUME NEW a \in Counts
  PROVE  Succ(a) \in Counts /\ (Succ(a) = a + 1 \/ Succ(a) = a + 1 - UINT)
<1>. USE PipeAssumption DEF Counts
<1>1. CASE a + 1 < UINT
  BY <1>1 DEF Succ
<1>2. CASE a + 1 = UINT
  BY <1>2 DEF Succ
<1>. QED BY <1>1, <1>2

\* A byte more or less changes the distance by one; the pipe is full exactly
\* when the distance is PIPESIZE, and empty when it is 0 (pipe.c:94, 134).
LEMMA DistanceStep ==
  ASSUME NEW a \in Counts, NEW b \in Counts
  PROVE  /\ Between(a, b) + 1 < UINT => Between(a, Succ(b)) = Between(a, b) + 1
         /\ a # b => Between(a, b) > 0 /\ Between(Succ(a), b) = Between(a, b) - 1
         /\ Between(a, b) = PIPESIZE => b = (a + PIPESIZE) % UINT
<1>. USE PipeAssumption DEF Counts
<1>1. /\ Between(a, b) \in 0..(UINT - 1)
      /\ a + Between(a, b) = b \/ a + Between(a, b) = b + UINT
  BY Distance
<1>2. /\ Succ(a) \in 0..(UINT - 1) /\ (Succ(a) = a + 1 \/ Succ(a) = a + 1 - UINT)
      /\ Succ(b) \in 0..(UINT - 1) /\ (Succ(b) = b + 1 \/ Succ(b) = b + 1 - UINT)
  BY Increment
<1>3. /\ Between(a, Succ(b)) \in 0..(UINT - 1)
      /\ a + Between(a, Succ(b)) = Succ(b) \/ a + Between(a, Succ(b)) = Succ(b) + UINT
  BY ZenonT(40), <1>2, Distance
<1>4. /\ Between(Succ(a), b) \in 0..(UINT - 1)
      /\ Succ(a) + Between(Succ(a), b) = b \/ Succ(a) + Between(Succ(a), b) = b + UINT
  BY <1>2, Distance
<1>5. ASSUME Between(a, b) = PIPESIZE PROVE b = (a + PIPESIZE) % UINT
  <2>1. a + PIPESIZE = UINT * 0 + b \/ a + PIPESIZE = UINT * 1 + b
    BY <1>1, <1>5
  <2>2. (UINT * 0 + b) % UINT = b /\ (UINT * 1 + b) % UINT = b
    BY Remainder
  <2>. QED BY <2>1, <2>2
<1>. QED BY <1>1, <1>2, <1>3, <1>4, <1>5

\* Slots of the ring less than PIPESIZE apart are different, and a counter that
\* wrapped indexes the slot it would have without wrapping.
Slot(x) == x % PIPESIZE

\* Where a counter is in the ring: bytes less than its size apart have different
\* slots, and a counter that wraps keeps its slot.
LEMMA Slots ==
  ASSUME NEW x \in Nat
  PROVE  /\ Slot(x) \in 0..(PIPESIZE - 1)
         /\ \A j \in 1..(PIPESIZE - 1) : Slot(x + j) # Slot(x)
         /\ Slot(x + UINT) = Slot(x)
<1>. DEFINE q == x \div PIPESIZE
            r == x % PIPESIZE
            m == UINT \div PIPESIZE
<1>1. x = PIPESIZE * q + r /\ r \in 0..(PIPESIZE - 1) /\ q \in Int
  BY PipeAssumption
<1>2. UINT = PIPESIZE * m /\ m \in Int
  BY PipeAssumption
<1>. HIDE DEF q, r, m
<1>3. ASSUME NEW j \in 1..(PIPESIZE - 1) PROVE (x + j) % PIPESIZE # r
  <2>1. CASE r + j < PIPESIZE
    <3>1. x + j = PIPESIZE * q + (r + j) /\ r + j \in 0..(PIPESIZE - 1)
      BY <1>1, <2>1, PipeAssumption
    <3>2. (x + j) % PIPESIZE = r + j
      BY <3>1, <1>1, Remainder, PipeAssumption
    <3>. QED BY <3>2, <1>1, PipeAssumption
  <2>2. CASE r + j >= PIPESIZE
    <3>1. /\ x + j = PIPESIZE * (q + 1) + (r + j - PIPESIZE)
          /\ r + j - PIPESIZE \in 0..(PIPESIZE - 1) /\ q + 1 \in Int
      BY <1>1, <2>2, PipeAssumption
    <3>2. (x + j) % PIPESIZE = r + j - PIPESIZE
      BY ZenonT(40), <3>1, <1>1, Remainder, PipeAssumption
    <3>. QED BY <3>2, <1>1, PipeAssumption
  <2>. QED BY <2>1, <2>2, <1>1, PipeAssumption
<1>4. (x + UINT) % PIPESIZE = r
  <2>1. x + UINT = PIPESIZE * (q + m) + r /\ q + m \in Int
    BY <1>1, <1>2, PipeAssumption
  <2>. QED BY ZenonT(40), <2>1, <1>1, Remainder, PipeAssumption
<1>. QED BY <1>1, <1>3, <1>4 DEF r, Slot

\* What is in transit is a sequence of bytes, as long as the distance between
\* the counters.
IsTransit ==
  /\ Between(nread, nwrite) \in Nat
  /\ InTransit \in Seq(Bytes)
  /\ Len(InTransit) = Between(nread, nwrite)
  /\ \A k \in 1..Between(nread, nwrite) : InTransit[k] = data[Slot(nread + k - 1)]

\* What is in the ring is a sequence of bytes.
LEMMA Transit == TypeOK => IsTransit
<1>. SUFFICES ASSUME TypeOK PROVE IsTransit
  OBVIOUS
<1>1. Between(nread, nwrite) \in Nat
  BY Distance DEF TypeOK, Counts
<1>2. InTransit = [k \in 1..Between(nread, nwrite) |-> data[Slot(nread + k - 1)]]
  BY DEF InTransit, Between, Slot
<1>3. \A k \in 1..Between(nread, nwrite) : data[Slot(nread + k - 1)] \in Bytes
  <2>. TAKE k \in 1..Between(nread, nwrite)
  <2>1. nread + k - 1 \in Nat
    BY <1>1 DEF TypeOK
  <2>2. Slot(nread + k - 1) \in 0..(PIPESIZE - 1)
    BY <2>1, Slots
  <2>. QED BY <2>2 DEF TypeOK
<1>. QED BY <1>1, <1>2, <1>3 DEF IsTransit

\* The same in the next state.
LEMMA TransitNext == TypeOK' => IsTransit'
  BY Transit, PTL

\* WriteByte puts its byte at the end of the queue (pipe.c:121).
LEMMA WritePuts ==
  ASSUME TypeOK, TypeOK', Between(nread, nwrite) < PIPESIZE, NEW b \in Bytes,
         data' = [data EXCEPT ![nwrite % PIPESIZE] = b],
         nwrite' = (nwrite + 1) % UINT, nread' = nread
  PROVE  /\ InTransit' = Append(InTransit, b)
         /\ Between(nread, nwrite)' = Between(nread, nwrite) + 1
<1>. DEFINE d == Between(nread, nwrite)
<1>1. /\ nread \in Counts /\ nwrite \in Counts /\ nwrite' = Succ(nwrite)
      /\ nread \in Nat /\ nwrite \in Nat
  BY PipeAssumption DEF TypeOK, Counts, Succ
<1>2. d \in Nat /\ d < PIPESIZE /\ PIPESIZE \in Nat /\ UINT \in Nat /\ PIPESIZE < UINT
  BY Transit, PipeAssumption DEF IsTransit
<1>3. Between(nread', nwrite') = d + 1
  BY <1>1, <1>2, DistanceStep
<1>4. Slot(nread + d) = Slot(nwrite)
  <2>1. nread + d = nwrite \/ nread + d = nwrite + UINT
    BY <1>1, Distance
  <2>2. Slot(nwrite + UINT) = Slot(nwrite)
    BY <1>1, Slots
  <2>. QED BY <2>1, <2>2
<1>5. \A k \in 1..d : Slot(nread + k - 1) # Slot(nwrite)
  <2>. TAKE k \in 1..d
  <2>1. /\ nread + k - 1 \in Nat /\ d - k + 1 \in 1..(PIPESIZE - 1)
        /\ (nread + k - 1) + (d - k + 1) = nread + d
    BY <1>1, <1>2
  <2>2. Slot((nread + k - 1) + (d - k + 1)) # Slot(nread + k - 1)
    BY <2>1, Slots
  <2>. QED BY <2>1, <2>2, <1>4
<1>6. Slot(nwrite) \in 0..(PIPESIZE - 1) /\ data' = [data EXCEPT ![Slot(nwrite)] = b]
  BY <1>1, Slots DEF Slot
<1>7. \A k \in 1..d : data'[Slot(nread + k - 1)] = data[Slot(nread + k - 1)]
  BY <1>5, <1>6 DEF TypeOK
<1>8. data'[Slot(nread + (d + 1) - 1)] = b
  <2>1. nread + (d + 1) - 1 = nread + d
    BY <1>1, <1>2
  <2>. QED BY <2>1, <1>4, <1>6 DEF TypeOK
<1>. HIDE DEF d
<1>9. /\ InTransit \in Seq(Bytes) /\ Len(InTransit) = d
      /\ \A k \in 1..d : InTransit[k] = data[Slot(nread + k - 1)]
  BY Transit DEF d, IsTransit
<1>10. /\ InTransit' \in Seq(Bytes) /\ Len(InTransit') = d + 1
       /\ \A k \in 1..(d + 1) : InTransit'[k] = data'[Slot(nread + k - 1)]
  BY <1>3, TransitNext DEF IsTransit
<1>11. /\ Append(InTransit, b) \in Seq(Bytes) /\ Len(Append(InTransit, b)) = d + 1
       /\ \A k \in 1..d : Append(InTransit, b)[k] = InTransit[k]
       /\ Append(InTransit, b)[d + 1] = b
  BY <1>9, AppendProperties
<1>12. \A k \in 1..(d + 1) : InTransit'[k] = Append(InTransit, b)[k]
  <2>. TAKE k \in 1..(d + 1)
  <2>1. CASE k = d + 1
    BY <2>1, <1>8, <1>10, <1>11
  <2>2. CASE k # d + 1
    <3>1. k \in 1..d
      BY <2>2, <1>2 DEF d
    <3>. QED BY <3>1, <1>7, <1>9, <1>10, <1>11 DEF d
  <2>. QED BY ZenonT(40), <2>1, <2>2
<1>13. InTransit' = Append(InTransit, b)
  BY <1>10, <1>11, <1>12, SeqEqual
<1>. QED BY <1>3, <1>13 DEF d

\* ReadByte takes the byte at the head of the queue (pipe.c:157).
LEMMA ReadGets ==
  ASSUME TypeOK, TypeOK', nread # nwrite, data' = data,
         nread' = (nread + 1) % UINT, nwrite' = nwrite
  PROVE  /\ InTransit # << >> /\ InTransit' = Tail(InTransit)
         /\ Head(InTransit) = data[nread % PIPESIZE]
         /\ Between(nread, nwrite)' = Between(nread, nwrite) - 1
<1>. DEFINE d == Between(nread, nwrite)
<1>1. /\ nread \in Counts /\ nwrite \in Counts /\ nread' = Succ(nread)
      /\ nread \in Nat /\ nwrite \in Nat /\ nread' \in Nat
  BY PipeAssumption DEF TypeOK, Counts, Succ
<1>2. d \in Nat /\ UINT \in Nat
  BY Transit, PipeAssumption DEF IsTransit
<1>3. d > 0 /\ Between(nread', nwrite') = d - 1
  BY <1>1, DistanceStep
<1>4. \A k \in 1..(d - 1) : Slot(nread' + k - 1) = Slot(nread + (k + 1) - 1)
  <2>. TAKE k \in 1..(d - 1)
  <2>1. nread' = nread + 1 \/ nread' = nread + 1 - UINT
    BY <1>1, Increment
  <2>2. /\ nread' + k - 1 \in Nat
        /\ \/ nread + (k + 1) - 1 = nread' + k - 1
           \/ nread + (k + 1) - 1 = (nread' + k - 1) + UINT
    BY <1>1, <1>2, <2>1
  <2>3. Slot((nread' + k - 1) + UINT) = Slot(nread' + k - 1)
    BY <2>2, Slots
  <2>. QED BY <2>2, <2>3
<1>. HIDE DEF d
<1>5. /\ InTransit \in Seq(Bytes) /\ Len(InTransit) = d
      /\ \A k \in 1..d : InTransit[k] = data[Slot(nread + k - 1)]
  BY Transit DEF d, IsTransit
<1>6. /\ InTransit' \in Seq(Bytes) /\ Len(InTransit') = d - 1
      /\ \A k \in 1..(d - 1) : InTransit'[k] = data[Slot(nread' + k - 1)]
  BY <1>3, TransitNext DEF IsTransit
<1>7. InTransit # << >> /\ Head(InTransit) = InTransit[1]
  BY <1>2, <1>3, <1>5 DEF d
<1>8. /\ Tail(InTransit) \in Seq(Bytes) /\ Len(Tail(InTransit)) = d - 1
      /\ \A k \in 1..(d - 1) : Tail(InTransit)[k] = InTransit[k + 1]
  BY <1>5, <1>7, HeadTailProperties
<1>9. \A k \in 1..(d - 1) : InTransit'[k] = Tail(InTransit)[k]
  <2>. TAKE k \in 1..(d - 1)
  <2>1. k + 1 \in 1..d
    BY <1>2, <1>3 DEF d
  <2>. QED BY SMTT(30), <2>1, <1>4, <1>5, <1>6, <1>8 DEF d
<1>10. InTransit' = Tail(InTransit)
  BY <1>6, <1>8, <1>9, SeqEqual
<1>11. InTransit[1] = data[nread % PIPESIZE]
  <2>1. 1 \in 1..d /\ nread + 1 - 1 = nread
    BY <1>1, <1>2, <1>3 DEF d
  <2>. QED BY <2>1, <1>5 DEF Slot
<1>. QED BY <1>3, <1>7, <1>10, <1>11 DEF d

\* The ring never holds more than PIPESIZE bytes.
Room == Between(nread, nwrite) <= PIPESIZE

\* A step of the pipe is a step of the queue, or leaves the queue alone.
LEMMA FifoStep ==
  IInv /\ IInv' /\ Room /\ [Next]_vars => Room' /\ [Queue!Next]_(Queue!vars)
<1>. SUFFICES ASSUME IInv, IInv', Room, [Next]_vars
              PROVE  Room' /\ [Queue!Next]_(Queue!vars)
  OBVIOUS
<1>0. /\ TypeOK /\ TypeOK' /\ Between(nread, nwrite) \in Nat
      /\ nread \in Counts /\ nwrite \in Counts /\ PIPESIZE \in Nat /\ UINT > PIPESIZE
      /\ InTransit \in Seq(Bytes) /\ Len(InTransit) = Between(nread, nwrite)
  <2>1. TypeOK /\ TypeOK'
    BY DEF IInv
  <2>2. nread \in Counts /\ nwrite \in Counts /\ PIPESIZE \in Nat /\ UINT > PIPESIZE
    BY <2>1, PipeAssumption DEF TypeOK, Counts
  <2>3. /\ Between(nread, nwrite) \in Nat
        /\ InTransit \in Seq(Bytes) /\ Len(InTransit) = Between(nread, nwrite)
    BY <2>1, Transit DEF IsTransit
  <2>. QED BY <2>1, <2>2, <2>3
<1>1. ASSUME NEW p \in Procs, NEW b \in Bytes, WriteByte(p, b)
      PROVE  Room' /\ [Queue!Next]_(Queue!vars)
  <2>1. Between(nread, nwrite) < PIPESIZE
    <3>1. nwrite # (nread + PIPESIZE) % UINT
      BY <1>1 DEF WriteByte, pipe_can_write
    <3>2. Between(nread, nwrite) # PIPESIZE
      BY <1>0, <3>1, DistanceStep
    <3>. QED BY <1>0, <3>2 DEF Room
  <2>2. /\ InTransit' = Append(InTransit, b)
        /\ Between(nread, nwrite)' = Between(nread, nwrite) + 1
    BY ZenonT(40), <1>0, <1>1, <2>1, WritePuts DEF WriteByte
  <2>3. readopen /\ writeopen
    BY <1>1 DEF WriteByte, MayWrite, In, IInv, Control, Closing
  <2>4. Queue!Put(b)
    BY <1>0, <1>1, <2>1, <2>2, <2>3 DEF Queue!Put, WriteByte, ends
  <2>. QED BY <1>0, <2>1, <2>2, <2>4 DEF Queue!Next, Room
<1>2. ASSUME NEW p \in Procs, ReadByte(p)
      PROVE  Room' /\ [Queue!Next]_(Queue!vars)
  <2>1. nread # nwrite
    BY <1>2 DEF ReadByte, pipe_empty
  <2>2. /\ InTransit # << >> /\ InTransit' = Tail(InTransit)
        /\ Head(InTransit) = data[nread % PIPESIZE]
        /\ Between(nread, nwrite)' = Between(nread, nwrite) - 1
    BY SMTT(30), <1>0, <1>2, <2>1, ReadGets DEF ReadByte
  <2>3. readopen
    BY <1>2 DEF ReadByte, In, IInv, Control, Closing
  <2>4. Queue!Get
    BY <1>2, <2>2, <2>3 DEF Queue!Get, ReadByte, ends
  <2>. QED BY <1>0, <2>2, <2>4 DEF Queue!Next, Room
<1>3. ASSUME NEW p \in Procs, pipeclose(p)
      PROVE  Room' /\ [Queue!Next]_(Queue!vars)
  <2>1. Room' /\ InTransit' = InTransit /\ got' = got
    BY <1>3 DEF pipeclose, ring, Room, Between, InTransit
  <2>2. CASE pc[p] = "closew" /\ writeopen' = FALSE /\ UNCHANGED readopen
    <3>1. writeopen
      BY <2>2 DEF IInv, Closing
    <3>. QED BY <2>1, <2>2, <3>1, Zenon DEF Queue!Next, Queue!CloseWrite
  <2>3. CASE pc[p] = "closer" /\ readopen' = FALSE /\ UNCHANGED writeopen
    <3>1. readopen
      BY <2>3 DEF IInv, Closing
    <3>. QED BY <2>1, <2>3, <3>1, Zenon DEF Queue!Next, Queue!CloseRead
  <2>. QED BY ZenonT(40), <1>3, <2>2, <2>3 DEF pipeclose
<1>4. ASSUME UNCHANGED <<data, nread, nwrite, readopen, writeopen, got>>
      PROVE  Room' /\ [Queue!Next]_(Queue!vars)
  BY SMTT(30), <1>4 DEF Room, Between, InTransit, Queue!vars
<1>5. \/ \E p \in Procs : pipeclose(p) \/ ReadByte(p) \/ \E b \in Bytes : WriteByte(p, b)
      \/ UNCHANGED <<data, nread, nwrite, readopen, writeopen, got>>
  <2>1. ASSUME NEW p \in Procs,
               \/ \E n \in 0..MaxN : Call(p, n, wrefs, "write") \/ Call(p, n, rrefs, "read")
               \/ acquire(p)
               \/ sleep(p, "full", "nwrite", "write") \/ sleep(p, "empty", "nread", "read")
        PROVE  UNCHANGED <<data, nread, nwrite, readopen, writeopen, got>>
    BY SMTT(30), <2>1 DEF Call, acquire, sleep, ring, ends
  <2>2. ASSUME NEW p \in Procs,
               \/ WriteFull(p) \/ WriteEnd(p) \/ WriteError(p) \/ ReadTest(p) \/ ReadEnd(p)
        PROVE  UNCHANGED <<data, nread, nwrite, readopen, writeopen, got>>
    BY SMTT(30), <2>2 DEF WriteFull, WriteEnd, WriteError, ReadTest, ReadEnd, ring, ends
  <2>3. ASSUME NEW p \in Procs,
               fileclose(p) \/ kfree(p) \/ kkill(p) \/ \E q \in Procs : fork(p, q)
        PROVE  UNCHANGED <<data, nread, nwrite, readopen, writeopen, got>>
    BY SMTT(30), <2>3 DEF fileclose, kfree, kkill, fork, ring, ends
  <2>4. CASE UNCHANGED vars
    BY SMTT(30), <2>4 DEF vars
  <2>. QED BY ZenonT(40), <2>1, <2>2, <2>3, <2>4 DEF Next
<1>. QED BY <1>1, <1>2, <1>3, <1>4, <1>5

\* The pipe is a bounded first-in first-out queue: no byte is lost, duplicated,
\* reordered or overwritten, whatever the counters have wrapped to (pipe.c:94).
THEOREM PipeIsFifo == Spec => IsFifo
<1>1. Init => Room /\ Queue!Init
  <2>. SUFFICES ASSUME Init PROVE Room /\ Queue!Init
    OBVIOUS
  <2>1. TypeOK
    BY TypeInit
  <2>2. Between(nread, nwrite) = 0
    BY PipeAssumption DEF Init, Between
  <2>3. InTransit = << >>
    BY <2>1, <2>2, Transit DEF IsTransit
  <2>4. Room
    BY <2>2, PipeAssumption DEF Room
  <2>. QED BY <2>1, <2>3, <2>4 DEF Queue!Init, Init, TypeOK
<1>. QED BY <1>1, Invariance, FifoStep, PTL DEF Spec, IsFifo, Queue!Spec
=============================================================================
