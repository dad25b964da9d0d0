----------------------------- MODULE LogProofs -----------------------------
(***************************************************************************)
(* Proofs about the write-ahead log (module Log), for any number of        *)
(* processes, blocks and values and any sizes that satisfy LogAssumption.  *)
(***************************************************************************)
EXTENDS Log, FiniteSetTheorems, TLAPS

\* Logging one more block adds it to the logged blocks (log_write, log.c:202).
LEMMA LoggedAppend ==
  ASSUME NEW h \in Seq(Blocks), NEW b \in Blocks
  PROVE  /\ Append(h, b) \in Seq(Blocks)
         /\ Len(Append(h, b)) = Len(h) + 1
         /\ \A k \in DOMAIN h : Append(h, b)[k] = h[k]
         /\ Append(h, b)[Len(h) + 1] = b
         /\ DOMAIN Append(h, b) = 1..(Len(h) + 1)
         /\ Logged(Append(h, b)) = Logged(h) \cup {b}
<1>1. /\ Append(h, b) \in Seq(Blocks)
      /\ Len(Append(h, b)) = Len(h) + 1
      /\ \A k \in DOMAIN h : Append(h, b)[k] = h[k]
      /\ Append(h, b)[Len(h) + 1] = b
      /\ DOMAIN Append(h, b) = 1..(Len(h) + 1)
  OBVIOUS
<1>2. Logged(Append(h, b)) = Logged(h) \cup {b}
  <2>1. DOMAIN h = 1..Len(h) /\ Len(h) \in Nat
    OBVIOUS
  <2>. QED BY <1>1, <2>1 DEF Logged
<1>. QED BY <1>1, <1>2

\* The state after mkfs and boot is well typed.
LEMMA TypeInit == Init => TypeOK
<1>. SUFFICES ASSUME Init PROVE TypeOK
  OBVIOUS
<1>1. logarea \in [1..LOGBLOCKS -> Vals]
  BY DEF Init
<1>2. lh \in Seq(Blocks) /\ header \in Seq(Blocks)
  BY DEF Init
<1>3. pc \in [Procs -> {"idle", "begin", "asleep", "op"} \cup CommitSteps]
  BY DEF Init
<1>4. wrote \in [Procs -> SUBSET Blocks]
  BY DEF Init
<1>5. refcnt \in [Blocks -> Int]
  BY DEF Init
<1>6. Len(lh) <= LOGBLOCKS
  BY LogAssumption DEF Init
<1>7. committing \in BOOLEAN
  BY Zenon DEF Init
<1>9. outstanding \in Int /\ i \in Nat \ {0}
  BY SMT DEF Init
<1>8. home \in [Blocks -> Vals] /\ cache \in [Blocks -> Vals]
  BY DEF Init
<1>. QED BY <1>1, <1>2, <1>3, <1>4, <1>5, <1>6, <1>7, <1>8, <1>9 DEF TypeOK

\* Every step of the log keeps the state well typed.
LEMMA TypeNext == TypeOK /\ [Next]_vars => TypeOK'
<1>. SUFFICES ASSUME TypeOK, [Next]_vars PROVE TypeOK'
  OBVIOUS
<1>. USE DEF TypeOK, disk, CommitSteps
<1>1. ASSUME NEW p \in Procs, BeginOp(p) PROVE TypeOK'
  <2>1. outstanding' \in Int
    BY <1>1 DEF BeginOp
  <2>2. pc' \in [Procs -> {"idle", "begin", "asleep", "op"} \cup CommitSteps]
    BY <1>1 DEF BeginOp
  <2>3. wrote' \in [Procs -> SUBSET Blocks]
    BY ZenonT(40), <1>1 DEF BeginOp
  <2>. QED BY <1>1, <2>1, <2>2, <2>3 DEF BeginOp
<1>2. ASSUME NEW p \in Procs, SpuriousWakeup(p) PROVE TypeOK'
  BY <1>2 DEF SpuriousWakeup
<1>3. ASSUME NEW p \in Procs, EndOp(p) PROVE TypeOK'
  <2>1. pc' \in [Procs -> {"idle", "begin", "asleep", "op"} \cup CommitSteps]
    BY ZenonT(40), <1>3 DEF EndOp, Wakeup
  <2>2. committing' \in BOOLEAN /\ outstanding' \in Int /\ i' \in Nat \ {0}
    <3>1. committing' \in BOOLEAN
      BY <1>3, Zenon DEF EndOp
    <3>2. outstanding' \in Int /\ i' \in Nat \ {0}
      BY <1>3 DEF EndOp
    <3>. QED BY <3>1, <3>2
  <2>. QED BY <1>3, <2>1, <2>2 DEF EndOp
<1>4. ASSUME NEW p \in Procs, NEW b \in Blocks, NEW v \in Vals, LogWrite(p, b, v)
      PROVE  TypeOK'
  <2>1. lh' \in Seq(Blocks) /\ Len(lh') <= LOGBLOCKS
    <3>1. Len(lh) < LOGBLOCKS /\ (lh' = lh \/ lh' = Append(lh, b))
      BY <1>4, LogAssumption DEF LogWrite, LogWritePanics
    <3>2. lh \in Seq(Blocks) /\ Len(lh) \in Nat
      OBVIOUS
    <3>3. Append(lh, b) \in Seq(Blocks) /\ Len(Append(lh, b)) = Len(lh) + 1
      BY <3>2, LoggedAppend
    <3>4. LOGBLOCKS \in Nat
      BY LogAssumption
    <3>5. CASE lh' = lh
      BY <3>5
    <3>6. CASE lh' = Append(lh, b)
      BY <3>1, <3>2, <3>3, <3>4, <3>6
    <3>. QED BY <3>1, <3>5, <3>6
  <2>2. wrote' \in [Procs -> SUBSET Blocks] /\ cache' \in [Blocks -> Vals]
    BY <1>4 DEF LogWrite
  <2>3. refcnt' \in [Blocks -> Int]
    BY <1>4 DEF LogWrite
  <2>. QED BY <1>4, <2>1, <2>2, <2>3 DEF LogWrite
<1>5. ASSUME NEW p \in Procs, WriteLog(p) PROVE TypeOK'
  <2>1. i \in 1..Len(lh) /\ lh[i] \in Blocks
    BY <1>5 DEF WriteLog, Advance
  <2>2. pc' \in [Procs -> {"idle", "begin", "asleep", "op"} \cup CommitSteps]
    BY ZenonT(40), <1>5 DEF WriteLog, Advance
  <2>3. i' \in Nat \ {0}
    BY <1>5 DEF WriteLog, Advance
  <2>4. logarea' \in [1..LOGBLOCKS -> Vals]
    BY ZenonT(40), <1>5, <2>1 DEF WriteLog
  <2>. QED BY <1>5, <2>2, <2>3, <2>4 DEF WriteLog
<1>6. ASSUME NEW p \in Procs, WriteHead(p) PROVE TypeOK'
  BY <1>6 DEF WriteHead
<1>7. ASSUME NEW p \in Procs, InstallTrans(p) PROVE TypeOK'
  <2>1. i \in 1..Len(lh) /\ lh[i] \in Blocks
    BY <1>7 DEF InstallTrans, Advance
  <2>2. pc' \in [Procs -> {"idle", "begin", "asleep", "op"} \cup CommitSteps]
    BY ZenonT(40), <1>7 DEF InstallTrans, Advance
  <2>3. i' \in Nat \ {0}
    BY <1>7 DEF InstallTrans, Advance
  <2>4. logarea[i] \in Vals
    BY <2>1, LogAssumption
  <2>5. home' \in [Blocks -> Vals] /\ cache' \in [Blocks -> Vals]
    BY <1>7, <2>1, <2>4 DEF InstallTrans
  <2>6. refcnt' \in [Blocks -> Int]
    BY <1>7, <2>1 DEF InstallTrans
  <2>. QED BY <1>7, <2>2, <2>3, <2>5, <2>6 DEF InstallTrans
<1>8. ASSUME NEW p \in Procs, ClearLog(p) PROVE TypeOK'
  BY <1>8, LogAssumption DEF ClearLog
<1>9. ASSUME NEW p \in Procs, CommitDone(p) PROVE TypeOK'
  BY ZenonT(40), <1>9 DEF CommitDone, Wakeup
<1>10. ASSUME NEW b \in Blocks, Recycle(b) PROVE TypeOK'
  BY <1>10 DEF Recycle
<1>11. ASSUME PowerFailureOutsideCommit PROVE TypeOK'
  <2>. USE <1>11 DEF PowerFailureOutsideCommit, PowerFailure
  <2>1. home' \in [Blocks -> Vals]
    BY DEF initlog, Replay, Logged
  <2>2. pc' \in [Procs -> {"idle", "begin", "asleep", "op"} \cup CommitSteps]
    OBVIOUS
  <2>3. wrote' \in [Procs -> SUBSET Blocks] /\ refcnt' \in [Blocks -> Int]
    OBVIOUS
  <2>4. lh' \in Seq(Blocks) /\ Len(lh') <= LOGBLOCKS
    BY LogAssumption
  <2>5. cache' \in [Blocks -> Vals]
    BY <2>1
  <2>6. committing' \in BOOLEAN
    BY Zenon
  <2>8. outstanding' \in Int /\ i' \in Nat \ {0}
    OBVIOUS
  <2>7. logarea' \in [1..LOGBLOCKS -> Vals] /\ header' \in Seq(Blocks)
    OBVIOUS
  <2>. QED BY <2>1, <2>2, <2>3, <2>4, <2>5, <2>6, <2>7, <2>8
<1>12. CASE UNCHANGED vars
  BY <1>12 DEF vars
<1>. QED
  BY <1>1, <1>2, <1>3, <1>4, <1>5, <1>6, <1>7, <1>8, <1>9, <1>10, <1>11, <1>12
  DEF Next, Run, Step

\* The state of log.c is always well typed; in particular log.lh.n never
\* exceeds LOGBLOCKS, the size of log.lh.block.
THEOREM TypeCorrect == Spec => []TypeOK
<1>. QED BY TypeInit, TypeNext, PTL DEF Spec

-----------------------------------------------------------------------------
(* Control: who may be where.                                              *)

\* Initially nobody is inside an operation or a commit.
LEMMA ControlInit == Init => ControlInv
<1>. SUFFICES ASSUME Init PROVE ControlInv
  OBVIOUS
<1>1. Running = {}
  BY DEF Init, Running
<1>2. IsFiniteSet(Running) /\ outstanding = Cardinality(Running)
  BY <1>1, FS_EmptySet DEF Init
<1>. QED BY <1>1, <1>2 DEF Init, ControlInv, CommitSteps, SleeperHasWaker

\* A step that moves processes only within the commit, or out of sleep.
LEMMA ControlKept ==
  ASSUME ControlInv, outstanding' = outstanding, committing' = committing,
         \A q \in Procs : /\ pc'[q] = "op" <=> pc[q] = "op"
                          /\ pc'[q] \in CommitSteps <=> pc[q] \in CommitSteps
                          /\ pc'[q] = "asleep" => pc[q] = "asleep",
         Running = {} /\ ~committing => lh' = <<>>
  PROVE  ControlInv'
<1>1. Running' = Running
  BY DEF Running
<1>2. SleeperHasWaker'
  BY DEF ControlInv, SleeperHasWaker
<1>3. committing' <=> \E p \in Procs : pc'[p] \in CommitSteps
  BY DEF ControlInv
<1>4. \A p, q \in Procs : pc'[p] \in CommitSteps =>
        pc'[q] # "op" /\ (pc'[q] \in CommitSteps => p = q)
  BY DEF ControlInv
<1>. QED BY <1>1, <1>2, <1>3, <1>4 DEF ControlInv

\* Every step keeps the count of operations exact and a commit alone.
LEMMA ControlNext == TypeOK /\ ControlInv /\ DataInv /\ [Next]_vars => ControlInv'
<1>. SUFFICES ASSUME TypeOK, ControlInv, DataInv, [Next]_vars PROVE ControlInv'
  OBVIOUS
<1>. USE DEF TypeOK, CommitSteps
<1>1. ASSUME NEW p \in Procs, BeginOp(p) PROVE ControlInv'
  <2>1. CASE MustWait
    <3>1. pc' = [pc EXCEPT ![p] = "asleep"] /\ Running' = Running
      BY <1>1, <2>1 DEF BeginOp, Running
    <3>2. \E q \in Procs : pc[q] \in {"op"} \cup CommitSteps
      <4>1. CASE committing
        BY <4>1 DEF ControlInv
      <4>2. CASE ~committing
        <5>1. SUFFICES ASSUME Running = {} PROVE FALSE
          BY <4>2 DEF Running
        <5>2. Len(lh) = 0 /\ outstanding = 0
          BY <4>2, <5>1, FS_EmptySet DEF ControlInv
        <5>. QED BY <2>1, <4>2, <5>2, LogAssumption DEF MustWait
      <4>. QED BY <4>1, <4>2
    <3>. QED BY <1>1, <2>1, <3>1, <3>2
         DEF BeginOp, ControlInv, SleeperHasWaker
  <2>2. CASE ~MustWait
    <3>1. /\ pc' = [pc EXCEPT ![p] = "op"] /\ outstanding' = outstanding + 1
          /\ committing' = committing /\ ~committing /\ lh' = lh
      BY <1>1, <2>2 DEF BeginOp, MustWait
    <3>2. Running' = Running \cup {p} /\ p \notin Running
      BY <1>1, <3>1 DEF BeginOp, Running
    <3>3. IsFiniteSet(Running') /\ outstanding' = Cardinality(Running')
      BY ZenonT(40), <3>1, <3>2, FS_AddElement DEF ControlInv
    <3>. QED BY <1>1, <3>1, <3>2, <3>3 DEF ControlInv, SleeperHasWaker
  <2>. QED BY <2>1, <2>2
<1>2. ASSUME NEW p \in Procs, SpuriousWakeup(p) PROVE ControlInv'
  BY <1>2, ControlKept DEF SpuriousWakeup, ControlInv
<1>3. ASSUME NEW p \in Procs, EndOp(p) PROVE ControlInv'
  <2>1. Running' = Running \ {p} /\ p \in Running
    BY <1>3 DEF EndOp, Wakeup, Running
  <2>2. IsFiniteSet(Running') /\ outstanding' = Cardinality(Running')
    BY <1>3, <2>1, FS_RemoveElement DEF EndOp, ControlInv
  <2>3. outstanding' = 0 <=> Running' = {}
    BY <2>2, FS_EmptySet
  <2>4. ~committing /\ lh' = lh
    BY <1>3 DEF EndOp
  <2>5. CASE outstanding' = 0
    <3>1. /\ committing' /\ pc'[p] \in CommitSteps
          /\ \A q \in Procs \ {p} : pc'[q] = pc[q]
      BY <1>3, <2>5 DEF EndOp
    <3>2. \A q \in Procs : pc'[q] # "op"
      BY <2>3, <2>5 DEF Running
    <3>. QED BY <2>2, <2>4, <3>1, <3>2 DEF ControlInv, SleeperHasWaker
  <2>6. CASE outstanding' # 0
    <3>1. /\ committing' = committing /\ pc'[p] = "idle"
          /\ \A q \in Procs : pc'[q] # "asleep"
          /\ \A q \in Procs : pc'[q] \in CommitSteps <=> pc[q] \in CommitSteps
      BY ZenonT(40), <1>3, <2>6 DEF EndOp, Wakeup
    <3>2. \A q \in Procs : pc'[q] \notin CommitSteps
      BY <2>4, <3>1 DEF ControlInv
    <3>. QED BY <2>2, <2>3, <2>4, <2>6, <3>1, <3>2
         DEF ControlInv, SleeperHasWaker
  <2>. QED BY <2>5, <2>6
<1>4. ASSUME NEW p \in Procs, NEW b \in Blocks, NEW v \in Vals, LogWrite(p, b, v)
      PROVE  ControlInv'
  <2>1. p \in Running
    BY <1>4 DEF LogWrite, Running
  <2>. QED BY <1>4, <2>1, ControlKept DEF LogWrite
<1>5. ASSUME NEW p \in Procs, WriteLog(p) PROVE ControlInv'
  BY <1>5, ControlKept DEF WriteLog, Advance, ControlInv
<1>6. ASSUME NEW p \in Procs, WriteHead(p) PROVE ControlInv'
  BY <1>6, ControlKept DEF WriteHead, ControlInv
<1>7. ASSUME NEW p \in Procs, InstallTrans(p) PROVE ControlInv'
  BY <1>7, ControlKept DEF InstallTrans, Advance, ControlInv
<1>8. ASSUME NEW p \in Procs, ClearLog(p) PROVE ControlInv'
  BY <1>8, ControlKept DEF ClearLog
<1>9. ASSUME NEW p \in Procs, CommitDone(p) PROVE ControlInv'
  <2>0. lh = <<>>
    BY <1>9 DEF CommitDone, DataInv, PhaseInv
  <2>1. Running' = Running /\ Running = {}
    BY <1>9 DEF CommitDone, Wakeup, Running, ControlInv
  <2>2. \A q \in Procs : pc'[q] \notin CommitSteps /\ pc'[q] # "asleep"
    BY <1>9 DEF CommitDone, Wakeup, ControlInv
  <2>. QED BY ZenonT(40), <1>9, <2>0, <2>1, <2>2 DEF CommitDone, ControlInv, SleeperHasWaker
<1>10. ASSUME NEW b \in Blocks, Recycle(b) PROVE ControlInv'
  BY <1>10, ControlKept DEF Recycle, ControlInv
<1>11. ASSUME PowerFailureOutsideCommit PROVE ControlInv'
  <2>1. Running' = {}
    BY <1>11 DEF PowerFailureOutsideCommit, PowerFailure, Running
  <2>2. IsFiniteSet(Running') /\ outstanding' = Cardinality(Running')
    BY <1>11, <2>1, FS_EmptySet DEF PowerFailureOutsideCommit, PowerFailure
  <2>. QED BY <1>11, <2>1, <2>2
       DEF PowerFailureOutsideCommit, PowerFailure, ControlInv, SleeperHasWaker
<1>12. CASE UNCHANGED vars
  BY <1>12, ControlKept DEF vars, ControlInv
<1>. QED
  BY <1>1, <1>2, <1>3, <1>4, <1>5, <1>6, <1>7, <1>8, <1>9, <1>10, <1>11, <1>12
  DEF Next, Run, Step

-----------------------------------------------------------------------------
(* Log space: every reservation that begin_op grants fits in the log.      *)

\* A set of pairs of an operation and a number up to MAXOPBLOCKS.
LEMMA PairsBound ==
  ASSUME NEW S, IsFiniteSet(S), NEW T \in SUBSET (S \X (1..MAXOPBLOCKS))
  PROVE  /\ IsFiniteSet(T) /\ Cardinality(T) \in Nat
         /\ Cardinality(T) <= Cardinality(S) * MAXOPBLOCKS
<1>1. MAXOPBLOCKS \in Nat
  BY LogAssumption
<1>2. IsFiniteSet(1..MAXOPBLOCKS) /\ Cardinality(1..MAXOPBLOCKS) = MAXOPBLOCKS
  BY <1>1, FS_Interval
<1>3. /\ IsFiniteSet(S \X (1..MAXOPBLOCKS))
      /\ Cardinality(S \X (1..MAXOPBLOCKS))
           = Cardinality(S) * Cardinality(1..MAXOPBLOCKS)
  BY ZenonT(40), <1>2, FS_Product
<1>4. IsFiniteSet(T) /\ Cardinality(T) <= Cardinality(S \X (1..MAXOPBLOCKS))
  BY <1>3, FS_Subset
<1>. QED BY <1>2, <1>3, <1>4, FS_CardinalityType

\* The reserved log blocks are pairs of a running operation and a number.
LEMMA ReservedType ==
  ControlInv => IsFiniteSet(Reserved) /\ Cardinality(Reserved) \in Nat
<1>1. Reserved \in SUBSET (Running \X (1..MAXOPBLOCKS))
  BY DEF Reserved, Running
<1>. QED BY <1>1, PairsBound DEF ControlInv

\* Initially nothing is logged or reserved.
LEMMA SpaceInit == Init => SpaceInv
<1>. SUFFICES ASSUME Init PROVE SpaceInv
  OBVIOUS
<1>1. Running = {} /\ Reserved = {} /\ Len(lh) = 0
  BY DEF Init, Running, Reserved
<1>. QED BY <1>1, FS_EmptySet, LogAssumption DEF SpaceInv

\* A step that starts no operation and logs no block keeps the space bound.
LEMMA SpaceKept ==
  ASSUME TypeOK, ControlInv, SpaceInv,
         Len(lh') <= Len(lh), Len(lh') \in Nat,
         \A q \in Procs : pc'[q] = "op" =>
           pc[q] = "op" /\ wrote'[q] = wrote[q] /\ Logged(lh) \subseteq Logged(lh')
  PROVE  SpaceInv'
<1>1. Running' \subseteq Running
  BY DEF Running
<1>2. Reserved' \subseteq Reserved
  BY DEF Reserved
<1>3. /\ IsFiniteSet(Reserved) /\ Cardinality(Reserved) \in Nat
      /\ IsFiniteSet(Reserved') /\ Cardinality(Reserved') <= Cardinality(Reserved)
      /\ Cardinality(Reserved') \in Nat
  BY <1>2, ReservedType, FS_Subset, FS_CardinalityType
<1>4. Len(lh') + Cardinality(Reserved') <= LOGBLOCKS
  BY <1>3, LogAssumption DEF SpaceInv, TypeOK
<1>5. \A p \in Running' : /\ IsFiniteSet(wrote'[p])
                          /\ Cardinality(wrote'[p]) <= OpWrites
                          /\ wrote'[p] \subseteq Logged(lh')
  BY DEF SpaceInv, Running
<1>. QED BY <1>4, <1>5 DEF SpaceInv

\* Every step keeps what is logged and reserved within the log.
LEMMA SpaceNext == TypeOK /\ ControlInv /\ SpaceInv /\ [Next]_vars => SpaceInv'
<1>. SUFFICES ASSUME TypeOK, ControlInv, SpaceInv, [Next]_vars PROVE SpaceInv'
  OBVIOUS
<1>. USE DEF TypeOK, CommitSteps
<1>1. ASSUME NEW p \in Procs, BeginOp(p) PROVE SpaceInv'
  <2>1. CASE MustWait
    BY <1>1, <2>1, SpaceKept DEF BeginOp
  <2>2. CASE ~MustWait
    <3>1. /\ pc' = [pc EXCEPT ![p] = "op"] /\ wrote' = [wrote EXCEPT ![p] = {}]
          /\ lh' = lh /\ pc[p] # "op"
          /\ Len(lh) + (outstanding + 1) * MAXOPBLOCKS <= LOGBLOCKS
      BY <1>1, <2>2, LogAssumption DEF BeginOp, MustWait
    <3>2. Running' = Running \cup {p} /\ p \notin Running
      BY <3>1 DEF Running
    <3>3. /\ IsFiniteSet(Running') /\ Cardinality(Running') = outstanding + 1
      BY <3>2, FS_AddElement DEF ControlInv
    <3>4. /\ Cardinality(Reserved') \in Nat
          /\ Cardinality(Reserved') <= (outstanding + 1) * MAXOPBLOCKS
      <4>1. Reserved' \in SUBSET (Running' \X (1..MAXOPBLOCKS))
        BY DEF Reserved, Running
      <4>. QED BY <3>3, <4>1, PairsBound
    <3>5. Len(lh') + Cardinality(Reserved') <= LOGBLOCKS
      BY <3>1, <3>4, LogAssumption
    <3>6. \A q \in Running' : /\ IsFiniteSet(wrote'[q])
                              /\ Cardinality(wrote'[q]) <= OpWrites
                              /\ wrote'[q] \subseteq Logged(lh')
      BY <3>1, <3>2, FS_EmptySet, LogAssumption DEF SpaceInv, Running
    <3>. QED BY <3>5, <3>6 DEF SpaceInv
  <2>. QED BY <2>1, <2>2
<1>2. ASSUME NEW p \in Procs, SpuriousWakeup(p) PROVE SpaceInv'
  BY <1>2, SpaceKept DEF SpuriousWakeup
<1>3. ASSUME NEW p \in Procs, EndOp(p) PROVE SpaceInv'
  <2>1. \A q \in Procs : pc'[q] = "op" => pc[q] = "op"
    BY SMTT(30), <1>3 DEF EndOp, Wakeup
  <2>2. lh' = lh /\ wrote' = wrote
    BY <1>3 DEF EndOp
  <2>. QED BY <2>1, <2>2, SpaceKept
<1>4. ASSUME NEW p \in Procs, NEW b \in Blocks, NEW v \in Vals, LogWrite(p, b, v)
      PROVE  SpaceInv'
  <2>1. /\ p \in Running /\ Running' = Running
        /\ wrote' = [wrote EXCEPT ![p] = @ \cup {b}]
    BY <1>4 DEF LogWrite, Running
  <2>2. /\ IsFiniteSet(wrote'[p]) /\ Cardinality(wrote'[p]) <= OpWrites
        /\ Cardinality(wrote[p]) \in Nat
        /\ Cardinality(wrote'[p]) =
             IF b \in wrote[p] THEN Cardinality(wrote[p]) ELSE Cardinality(wrote[p]) + 1
    <3>1. wrote'[p] = wrote[p] \cup {b} /\ IsFiniteSet(wrote[p])
      BY <2>1 DEF SpaceInv, Running
    <3>. QED BY ZenonT(40), <1>4, <3>1, FS_AddElement, FS_CardinalityType DEF LogWrite
  <2>3. /\ \A q \in Running : wrote'[q] \subseteq Logged(lh')
        /\ Len(lh') = IF b \in Logged(lh) THEN Len(lh) ELSE Len(lh) + 1
    <3>1. /\ Logged(lh') = Logged(lh) \cup {b}
          /\ Len(lh') = IF b \in Logged(lh) THEN Len(lh) ELSE Len(lh) + 1
      BY ZenonT(40), <1>4, LoggedAppend DEF LogWrite
    <3>2. \A q \in Running : wrote'[q] \subseteq wrote[q] \cup {b}
      BY <2>1 DEF Running
    <3>. QED BY <3>1, <3>2 DEF SpaceInv
  <2>4. Len(lh') + Cardinality(Reserved') <= LOGBLOCKS
    <3>1. CASE b \in wrote[p]
      <4>1. Reserved' = Reserved
        BY <1>4, <2>1, <2>2, <3>1 DEF Reserved, LogWrite
      <4>2. b \in Logged(lh)
        BY <2>1, <3>1 DEF SpaceInv
      <4>. QED BY <2>3, <4>1, <4>2 DEF SpaceInv
    <3>2. CASE b \notin wrote[p]
      <4>. DEFINE r == <<p, Cardinality(wrote[p]) + 1>>
      <4>1. r \in Reserved
        BY <2>1, <2>2, <3>2, LogAssumption DEF Reserved, Running
      <4>2. Reserved' = Reserved \ {r}
        <5>1. \A q \in Procs \ {p} : pc'[q] = pc[q] /\ wrote'[q] = wrote[q]
          BY <1>4, <2>1 DEF LogWrite
        <5>2. /\ pc'[p] = "op" /\ pc[p] = "op"
              /\ Cardinality(wrote'[p]) = Cardinality(wrote[p]) + 1
          BY <1>4, <2>2, <3>2 DEF LogWrite
        <5>3. \A k \in 1..MAXOPBLOCKS :
                <<p, k>> \in Reserved' <=> <<p, k>> \in Reserved \ {r}
          BY <2>2, <5>2, LogAssumption DEF Reserved
        <5>4. \A q \in Procs \ {p}, k \in 1..MAXOPBLOCKS :
                <<q, k>> \in Reserved' <=> <<q, k>> \in Reserved \ {r}
          BY <5>1 DEF Reserved
        <5>5. /\ Reserved' \subseteq Procs \X (1..MAXOPBLOCKS)
              /\ Reserved \subseteq Procs \X (1..MAXOPBLOCKS)
          BY DEF Reserved
        <5>6. \A x \in Procs \X (1..MAXOPBLOCKS) : x = <<x[1], x[2]>>
          OBVIOUS
        <5>7. \A x \in Procs \X (1..MAXOPBLOCKS) :
                x \in Reserved' <=> x \in Reserved \ {r}
          BY <5>3, <5>4, <5>6
        <5>. HIDE DEF r
        <5>. QED BY <5>5, <5>7
      <4>. HIDE DEF r
      <4>3. Cardinality(Reserved') = Cardinality(Reserved) - 1
        <5>1. IsFiniteSet(Reserved)
          BY ReservedType
        <5>2. Cardinality(Reserved \ {r}) = Cardinality(Reserved) - 1
          BY ZenonT(40), <4>1, <5>1, FS_RemoveElement
        <5>. QED BY <4>2, <5>2
      <4>. QED BY <2>3, <4>3, ReservedType, LogAssumption DEF SpaceInv
    <3>. QED BY <3>1, <3>2
  <2>5. \A q \in Running' : IsFiniteSet(wrote'[q]) /\ Cardinality(wrote'[q]) <= OpWrites
    BY <2>1, <2>2 DEF SpaceInv, Running
  <2>. QED BY ZenonT(40), <2>1, <2>3, <2>4, <2>5 DEF SpaceInv
<1>5. ASSUME NEW p \in Procs, WriteLog(p) PROVE SpaceInv'
  BY <1>5, SpaceKept DEF WriteLog, Advance
<1>6. ASSUME NEW p \in Procs, WriteHead(p) PROVE SpaceInv'
  BY <1>6, SpaceKept DEF WriteHead
<1>7. ASSUME NEW p \in Procs, InstallTrans(p) PROVE SpaceInv'
  BY <1>7, SpaceKept DEF InstallTrans, Advance
<1>8. ASSUME NEW p \in Procs, ClearLog(p) PROVE SpaceInv'
  BY <1>8, SpaceKept DEF ClearLog, ControlInv
<1>9. ASSUME NEW p \in Procs, CommitDone(p) PROVE SpaceInv'
  BY <1>9, SpaceKept DEF CommitDone, Wakeup
<1>10. ASSUME NEW b \in Blocks, Recycle(b) PROVE SpaceInv'
  BY <1>10, SpaceKept DEF Recycle
<1>11. ASSUME PowerFailureOutsideCommit PROVE SpaceInv'
  BY <1>11, SpaceKept DEF PowerFailureOutsideCommit, PowerFailure
<1>12. CASE UNCHANGED vars
  BY <1>12, SpaceKept DEF vars
<1>. QED
  BY <1>1, <1>2, <1>3, <1>4, <1>5, <1>6, <1>7, <1>8, <1>9, <1>10, <1>11, <1>12
  DEF Next, Run, Step

-----------------------------------------------------------------------------
(* Data: what memory and disk hold in each phase.                          *)

\* Initially every buffer is clean and the log on the disk is empty.
LEMMA DataInit == Init => DataInv
<1>. SUFFICES ASSUME Init PROVE DataInv
  OBVIOUS
<1>1. DOMAIN lh = {} /\ Logged(lh) = {}
  BY DEF Init, Logged
<1>. QED BY <1>1 DEF Init, DataInv, NoDuplicates, PinInv, PhaseInv, HeaderInv

\* A step outside the disk phases that leaves the data alone.
LEMMA DataKept ==
  ASSUME ControlInv, DataInv,
         UNCHANGED <<lh, cache, refcnt, disk>>,
         \A q \in Procs :
           \/ pc'[q] = pc[q] /\ (pc[q] \in CommitSteps => i' = i)
           \/ pc'[q] \notin CommitSteps /\ (pc[q] \in CommitSteps => pc[q] = "done")
           \/ pc'[q] = "done" /\ pc[q] \notin CommitSteps /\ lh = <<>>
           \/ pc'[q] = "write_log" /\ pc[q] \notin CommitSteps /\ i' = 1 /\ 1 \in 1..Len(lh)
  PROVE  DataInv'
<1>. USE DEF CommitSteps
<1>1. \A k : Installed(k)' <=> Installed(k)
  BY DEF Installed
<1>2. PinInv'
  BY <1>1 DEF DataInv, PinInv, disk
<1>3. PhaseInv'
  BY DEF DataInv, PhaseInv, disk
<1>4. HeaderInv'
  BY DEF DataInv, HeaderInv, disk
<1>. QED BY <1>2, <1>3, <1>4 DEF DataInv, NoDuplicates

\* Every step keeps the buffers, the log area and the header consistent.
LEMMA DataNext ==
  TypeOK /\ ControlInv /\ SpaceInv /\ DataInv /\ [Next]_vars => DataInv'
<1>. SUFFICES ASSUME TypeOK, ControlInv, SpaceInv, DataInv, [Next]_vars
              PROVE  DataInv'
  OBVIOUS
<1>. USE DEF TypeOK, CommitSteps, disk
<1>1. ASSUME NEW p \in Procs, BeginOp(p) PROVE DataInv'
  BY <1>1, DataKept DEF BeginOp
<1>2. ASSUME NEW p \in Procs, SpuriousWakeup(p) PROVE DataInv'
  BY <1>2, DataKept DEF SpuriousWakeup
<1>3. ASSUME NEW p \in Procs, EndOp(p) PROVE DataInv'
  <2>1. \A q \in Procs : pc[q] \notin CommitSteps
    BY <1>3 DEF EndOp, ControlInv
  <2>2. lh # <<>> => 1 \in 1..Len(lh)
    OBVIOUS
  <2>3. \A q \in Procs : \/ pc'[q] \notin CommitSteps
                         \/ pc'[q] = "done" /\ lh = <<>>
                         \/ pc'[q] = "write_log" /\ lh # <<>>
    BY ZenonT(40), <1>3, <2>1 DEF EndOp, Wakeup
  <2>4. UNCHANGED <<lh, cache, refcnt, disk>> /\ i' = 1
    BY <1>3 DEF EndOp
  <2>. QED BY <2>1, <2>2, <2>3, <2>4, DataKept
<1>4. ASSUME NEW p \in Procs, NEW b \in Blocks, NEW v \in Vals, LogWrite(p, b, v)
      PROVE  DataInv'
  <2>1. \A q \in Procs : pc[q] \notin CommitSteps /\ pc'[q] = pc[q]
    BY <1>4 DEF LogWrite, ControlInv
  <2>2. \A k : ~Installed(k) /\ ~Installed(k)'
    BY <2>1 DEF Installed
  <2>3. PhaseInv' /\ HeaderInv'
    BY <1>4, <2>1 DEF LogWrite, DataInv, PhaseInv, HeaderInv
  <2>4. CASE b \in Logged(lh)
    <3>1. lh' = lh /\ refcnt' = refcnt /\ cache' = [cache EXCEPT ![b] = v]
      BY <1>4, <2>4 DEF LogWrite
    <3>2. NoDuplicates' /\ PinInv'
      BY <1>4, <2>2, <2>4, <3>1 DEF DataInv, NoDuplicates, PinInv, LogWrite
    <3>. QED BY <2>3, <3>2 DEF DataInv
  <2>5. CASE b \notin Logged(lh)
    <3>1. /\ lh' = Append(lh, b) /\ refcnt' = [refcnt EXCEPT ![b] = @ + 1]
          /\ cache' = [cache EXCEPT ![b] = v] /\ home' = home
      BY <1>4, <2>5 DEF LogWrite
    <3>2. /\ \A k \in 1..Len(lh) : lh'[k] = lh[k] /\ lh[k] # b /\ lh[k] \in Blocks
          /\ lh'[Len(lh) + 1] = b
          /\ DOMAIN lh' = 1..(Len(lh) + 1) /\ DOMAIN lh = 1..Len(lh)
          /\ Logged(lh') = Logged(lh) \cup {b} /\ Len(lh) \in Nat
      <4>1. DOMAIN lh = 1..Len(lh) /\ Len(lh) \in Nat /\ lh \in Seq(Blocks)
        OBVIOUS
      <4>2. \A k \in 1..Len(lh) : lh[k] # b /\ lh[k] \in Blocks
        BY <2>5, <4>1 DEF Logged
      <4>. QED BY <3>1, <4>1, <4>2, LoggedAppend
    <3>3. NoDuplicates'
      <4>1. SUFFICES ASSUME NEW j \in 1..(Len(lh) + 1), NEW k \in 1..(Len(lh) + 1),
                            lh'[j] = lh'[k]
                     PROVE  j = k
        BY <3>2 DEF NoDuplicates
      <4>2. CASE j \in 1..Len(lh) /\ k \in 1..Len(lh)
        BY ZenonT(40), <3>2, <4>1, <4>2 DEF DataInv, NoDuplicates
      <4>3. CASE j = Len(lh) + 1 /\ k \in 1..Len(lh)
        BY <3>2, <4>1, <4>3
      <4>4. CASE j \in 1..Len(lh) /\ k = Len(lh) + 1
        BY <3>2, <4>1, <4>4
      <4>5. \A n \in 1..(Len(lh) + 1) : n \in 1..Len(lh) \/ n = Len(lh) + 1
        BY SMTT(30), <3>2
      <4>. QED BY <4>2, <4>3, <4>4, <4>5
    <3>4. refcnt[b] = 0
      BY <2>5 DEF DataInv, PinInv
    <3>5. \A c \in Blocks \ Logged(lh') : cache'[c] = home'[c] /\ refcnt'[c] = 0
      BY <3>1, <3>2 DEF DataInv, PinInv
    <3>6. \A k \in DOMAIN lh' : refcnt'[lh'[k]] = 1
      BY <2>2, <3>1, <3>2, <3>4 DEF DataInv, PinInv
    <3>7. PinInv'
      BY <2>2, <3>5, <3>6 DEF PinInv
    <3>. QED BY <2>3, <3>3, <3>7 DEF DataInv
  <2>. QED BY <2>4, <2>5
<1>5. ASSUME NEW p \in Procs, WriteLog(p) PROVE DataInv'
  <2>1. /\ \A q \in Procs : pc[q] \in CommitSteps => q = p
        /\ i \in 1..Len(lh) /\ i \in 1..LOGBLOCKS /\ lh[i] \in Blocks
        /\ \A k \in 1..(i-1) : logarea[k] = cache[lh[k]]
    <3>1. pc[p] = "write_log"
      BY <1>5 DEF WriteLog
    <3>2. i \in 1..Len(lh) /\ \A k \in 1..(i-1) : logarea[k] = cache[lh[k]]
      BY <3>1 DEF DataInv, PhaseInv
    <3>. QED BY <3>1, <3>2, LogAssumption DEF ControlInv
  <2>2. /\ logarea' = [logarea EXCEPT ![i] = cache[lh[i]]]
        /\ UNCHANGED <<lh, cache, refcnt, home, header>>
        /\ pc[p] = "write_log" /\ \A q \in Procs \ {p} : pc'[q] = pc[q]
        /\ pc'[p] \in {"write_log", "write_head"}
    BY <1>5 DEF WriteLog, Advance
  <2>3. \A k \in 1..i : logarea'[k] = cache'[lh'[k]]
    BY <2>1, <2>2, LogAssumption
  <2>4. PhaseInv'
    <3>1. CASE i < Len(lh)
      <4>1. i' = i + 1 /\ pc' = pc
        BY <1>5, <3>1 DEF WriteLog, Advance
      <4>. QED BY <2>1, <2>2, <2>3, <3>1, <4>1 DEF PhaseInv
    <3>2. CASE i = Len(lh)
      <4>1. i' = 1 /\ pc'[p] = "write_head"
        BY <1>5, <3>2 DEF WriteLog, Advance
      <4>2. \A k \in DOMAIN lh' : logarea'[k] = cache'[lh'[k]]
        BY <2>2, <2>3, <3>2
      <4>. QED BY SMTT(30), <2>1, <2>2, <4>1, <4>2 DEF PhaseInv
    <3>. QED BY <2>1, <3>1, <3>2
  <2>5. \A k : ~Installed(k) /\ ~Installed(k)'
    BY ZenonT(40), <2>1, <2>2 DEF Installed
  <2>6. NoDuplicates' /\ PinInv' /\ HeaderInv'
    BY <2>1, <2>2, <2>5 DEF DataInv, NoDuplicates, PinInv, HeaderInv
  <2>. QED BY <2>4, <2>6 DEF DataInv
<1>6. ASSUME NEW p \in Procs, WriteHead(p) PROVE DataInv'
  <2>1. /\ pc[p] = "write_head" /\ pc' = [pc EXCEPT ![p] = "install_trans"]
        /\ header' = lh /\ UNCHANGED <<lh, i, cache, refcnt, home, logarea>>
    BY <1>6 DEF WriteHead
  <2>2. /\ \A q \in Procs : pc[q] \in CommitSteps => q = p
        /\ i = 1 /\ \A k \in DOMAIN lh : logarea[k] = cache[lh[k]]
    BY <2>1 DEF ControlInv, DataInv, PhaseInv
  <2>3. \A k \in DOMAIN lh : ~Installed(k) /\ ~Installed(k)'
    BY <2>1, <2>2 DEF Installed
  <2>4. NoDuplicates' /\ PinInv' /\ HeaderInv'
    BY <2>1, <2>2, <2>3 DEF DataInv, NoDuplicates, PinInv, HeaderInv
  <2>5. Len(lh) \in Nat \ {0}
    BY <2>1 DEF DataInv, PhaseInv
  <2>6. PhaseInv'
    BY <2>1, <2>2, <2>5 DEF PhaseInv
  <2>. QED BY <2>4, <2>6 DEF DataInv
<1>7. ASSUME NEW p \in Procs, InstallTrans(p) PROVE DataInv'
  <2>1. /\ pc[p] = "install_trans"
        /\ home' = [home EXCEPT ![lh[i]] = logarea[i]]
        /\ cache' = [cache EXCEPT ![lh[i]] = logarea[i]]
        /\ refcnt' = [refcnt EXCEPT ![lh[i]] = @ - 1]
        /\ UNCHANGED <<lh, logarea, header>>
        /\ \A q \in Procs \ {p} : pc'[q] = pc[q]
    BY <1>7 DEF InstallTrans, Advance
  <2>2. /\ \A q \in Procs : pc[q] \in CommitSteps => q = p
        /\ i \in 1..Len(lh) /\ DOMAIN lh = 1..Len(lh) /\ lh[i] \in Blocks
        /\ \A k \in DOMAIN lh : logarea[k] = cache[lh[k]] /\ lh[k] \in Blocks
    BY <2>1 DEF ControlInv, DataInv, PhaseInv
  <2>3. cache' = cache
    <3>1. logarea[i] = cache[lh[i]]
      BY ZenonT(40), <2>2
    <3>. QED BY <2>1, <2>2, <3>1
  <2>4. \A k \in DOMAIN lh : Installed(k) <=> k < i
    BY <2>1, <2>2 DEF Installed
  <2>5. \/ i < Len(lh) /\ i' = i + 1 /\ pc' = pc
        \/ i = Len(lh) /\ i' = 1 /\ pc' = [pc EXCEPT ![p] = "clear"]
    BY <1>7 DEF InstallTrans, Advance
  <2>6. \A k \in DOMAIN lh : Installed(k)' <=> k < i \/ k = i
    <3>1. CASE i < Len(lh) /\ i' = i + 1 /\ pc' = pc
      BY <2>1, <2>2, <3>1 DEF Installed
    <3>2. CASE i = Len(lh) /\ i' = 1 /\ pc' = [pc EXCEPT ![p] = "clear"]
      BY <2>1, <2>2, <3>2 DEF Installed
    <3>. QED BY <2>5, <3>1, <3>2
  <2>7. \A k \in DOMAIN lh : lh[k] = lh[i] <=> k = i
    BY SMTT(30), <2>2 DEF DataInv, NoDuplicates
  <2>8. PinInv'
    <3>1. \A b \in Blocks \ Logged(lh') : cache'[b] = home'[b] /\ refcnt'[b] = 0
      <4>1. lh[i] \in Logged(lh)
        BY ZenonT(40), <2>2 DEF Logged
      <4>. QED BY <2>1, <2>3, <4>1 DEF DataInv, PinInv
    <3>2. \A k \in DOMAIN lh : refcnt'[lh[k]] = IF Installed(k)' THEN 0 ELSE 1
      BY <2>1, <2>2, <2>4, <2>6, <2>7 DEF DataInv, PinInv
    <3>3. \A k \in DOMAIN lh : Installed(k)' => home'[lh[k]] = cache[lh[k]]
      BY <2>1, <2>2, <2>4, <2>6, <2>7 DEF DataInv, PinInv
    <3>. QED BY <2>1, <2>3, <3>1, <3>2, <3>3 DEF PinInv
  <2>9. PhaseInv'
    <3>1. \A k \in DOMAIN lh' : logarea'[k] = cache'[lh'[k]]
      BY <2>1, <2>2, <2>3
    <3>2. CASE i < Len(lh) /\ i' = i + 1 /\ pc' = pc
      BY <2>1, <2>2, <3>1, <3>2 DEF PhaseInv
    <3>3. CASE i = Len(lh) /\ i' = 1 /\ pc' = [pc EXCEPT ![p] = "clear"]
      BY <2>1, <2>2, <3>1, <3>3 DEF PhaseInv
    <3>. QED BY <2>5, <3>2, <3>3
  <2>10. NoDuplicates' /\ HeaderInv'
    BY <2>1, <2>5 DEF DataInv, NoDuplicates, HeaderInv
  <2>. QED BY <2>8, <2>9, <2>10 DEF DataInv
<1>8. ASSUME NEW p \in Procs, ClearLog(p) PROVE DataInv'
  <2>1. /\ pc[p] = "clear" /\ lh' = <<>> /\ header' = <<>>
        /\ pc' = [pc EXCEPT ![p] = "done"]
        /\ UNCHANGED <<cache, refcnt, home, logarea>>
    BY <1>8 DEF ClearLog
  <2>2. \A q \in Procs : pc[q] \in CommitSteps => q = p
    BY <2>1 DEF ControlInv
  <2>3. \A b \in Blocks : cache[b] = home[b] /\ refcnt[b] = 0
    <3>1. \A k \in DOMAIN lh : Installed(k)
      BY <2>1 DEF Installed
    <3>2. \A b \in Logged(lh) : cache[b] = home[b] /\ refcnt[b] = 0
      BY <3>1 DEF DataInv, PinInv, Logged
    <3>. QED BY <3>2 DEF DataInv, PinInv
  <2>4. DOMAIN lh' = {}
    BY <2>1
  <2>. QED BY <2>1, <2>2, <2>3, <2>4
       DEF DataInv, NoDuplicates, PinInv, PhaseInv, HeaderInv
<1>9. ASSUME NEW p \in Procs, CommitDone(p) PROVE DataInv'
  <2>1. \A q \in Procs : \/ pc'[q] = pc[q]
                         \/ pc'[q] \notin CommitSteps /\ pc[q] \in {"asleep", "done"}
    BY <1>9 DEF CommitDone, Wakeup
  <2>. QED BY ZenonT(40), <1>9, <2>1, DataKept DEF CommitDone
<1>10. ASSUME NEW b \in Blocks, Recycle(b) PROVE DataInv'
  <2>1. cache[b] = home[b]
    <3>1. \A k \in DOMAIN lh : lh[k] = b => Installed(k)
      BY <1>10 DEF Recycle, DataInv, PinInv
    <3>. QED BY <3>1 DEF DataInv, PinInv, Logged
  <2>2. cache' = cache
    BY SMTT(30), <1>10, <2>1 DEF Recycle
  <2>. QED BY <1>10, <2>2, DataKept DEF Recycle
<1>11. ASSUME PowerFailureOutsideCommit PROVE DataInv'
  <2>1. /\ lh' = <<>> /\ header' = <<>> /\ cache' = home'
        /\ pc' = [p \in Procs |-> "idle"] /\ refcnt' = [b \in Blocks |-> 0]
    BY <1>11 DEF PowerFailureOutsideCommit, PowerFailure
  <2>2. DOMAIN lh' = {}
    BY <2>1
  <2>. QED BY <2>1, <2>2
       DEF DataInv, NoDuplicates, PinInv, PhaseInv, HeaderInv
<1>12. CASE UNCHANGED vars
  BY <1>12, DataKept DEF vars
<1>. QED
  BY <1>1, <1>2, <1>3, <1>4, <1>5, <1>6, <1>7, <1>8, <1>9, <1>10, <1>11, <1>12
  DEF Next, Run, Step

-----------------------------------------------------------------------------
(* The invariant and what follows from it.                                 *)

\* Every state of one or more boots satisfies the inductive invariant, if no
\* power failure hits a commit between its two header writes.
THEOREM Invariance == Spec => []IInv
<1>1. Init => IInv
  BY TypeInit, ControlInit, SpaceInit, DataInit DEF IInv
<1>2. IInv /\ [Next]_vars => IInv'
  BY TypeNext, ControlNext, SpaceNext, DataNext DEF IInv
<1>. QED BY <1>1, <1>2, PTL DEF Spec

\* log_write and end_op never panic (log.c:131, 188, 191): the reservation
\* that begin_op made for a running operation is never used up.
THEOREM NeverPanics == Spec => []NoPanic
<1>1. IInv => NoPanic
  <2>. SUFFICES ASSUME IInv, NEW p \in Procs, pc[p] = "op"
                PROVE  ~LogWritePanics /\ ~committing
    BY DEF NoPanic
  <2>. USE DEF IInv
  <2>1. p \in Running
    BY DEF Running
  <2>2. ~committing
    BY DEF ControlInv
  <2>3. Cardinality(wrote[p]) \in Nat /\ Cardinality(wrote[p]) <= OpWrites
    BY <2>1, FS_CardinalityType DEF SpaceInv
  <2>4. <<p, MAXOPBLOCKS>> \in Reserved
    BY <2>3, LogAssumption DEF Reserved
  <2>5. Cardinality(Reserved) \in Nat \ {0}
    BY <2>4, ReservedType, FS_EmptySet
  <2>6. Len(lh) < LOGBLOCKS
    BY <2>5, LogAssumption DEF SpaceInv, TypeOK
  <2>7. outstanding >= 1
    BY <2>1, FS_EmptySet, FS_CardinalityType DEF ControlInv
  <2>. QED BY <2>2, <2>6, <2>7, LogAssumption DEF LogWritePanics, TypeOK
<1>. QED BY <1>1, Invariance, PTL

\* A process asleep in begin_op always has somebody left to wake it.
THEOREM WakerExists == Spec => []SleeperHasWaker
<1>1. IInv => SleeperHasWaker
  BY DEF IInv, ControlInv
<1>. QED BY <1>1, Invariance, PTL

\* Replaying an empty log changes nothing.
LEMMA ReplayEmpty ==
  ASSUME NEW area, NEW image \in [Blocks -> Vals]
  PROVE  Replay(<<>>, area, image) = image
BY DEF Replay, Logged

\* Outside a commit the home blocks hold all that was ever committed.
THEOREM Installation == Spec => []CommittedIsInstalled
<1>1. IInv => CommittedIsInstalled
  BY ReplayEmpty
  DEF IInv, TypeOK, ControlInv, DataInv, HeaderInv, CommittedIsInstalled, CommitSteps
<1>. QED BY <1>1, Invariance, PTL

-----------------------------------------------------------------------------
(* The log implements AtomicDisk.                                          *)

\* What the blocks on the disk, replayed, stand for.
Durable == Replay(header, logarea, home)

\* A block that is logged once is found where it was logged.
LEMMA LastUnique ==
  ASSUME NEW h \in Seq(Blocks), NEW k \in DOMAIN h,
         \A j \in DOMAIN h : h[j] = h[k] => j = k
  PROVE  Last(h, h[k]) = k
<1>1. h[k] = h[k] /\ \A j \in DOMAIN h : j > k => h[j] # h[k]
  OBVIOUS
<1>2. \A m \in DOMAIN h : h[m] = h[k] => m = k
  OBVIOUS
<1>. QED BY <1>1, <1>2 DEF Last

\* Replaying the log of a finished write_log, or of a partial install, gives
\* the contents of the buffer cache.
LEMMA ReplayIsCache ==
  ASSUME TypeOK, NoDuplicates,
         \A b \in Blocks \ Logged(lh) : cache[b] = home[b],
         \A k \in DOMAIN lh : logarea[k] = cache[lh[k]]
  PROVE  Replay(lh, logarea, home) = cache
<1>1. \A k \in DOMAIN lh : Last(lh, lh[k]) = k
  BY LastUnique DEF TypeOK, NoDuplicates
<1>2. \A b \in Blocks : b \in Logged(lh) => logarea[Last(lh, b)] = cache[b]
  BY <1>1 DEF Logged
<1>. QED BY <1>2 DEF Replay, TypeOK

\* What the disk stands for, read off the phase of the commit.
DurableInv ==
  Durable = IF \E p \in Procs : pc[p] \in {"install_trans", "clear"}
            THEN cache ELSE home

\* What the disk stands for is fixed by the phase of the commit.
LEMMA DurableValue == IInv => DurableInv
<1>. SUFFICES ASSUME IInv PROVE DurableInv
  OBVIOUS
<1>. USE DEF IInv, DataInv, DurableInv
<1>1. CASE \E p \in Procs : pc[p] \in {"install_trans", "clear"}
  <2>1. header = lh /\ \A k \in DOMAIN lh : logarea[k] = cache[lh[k]]
    BY <1>1 DEF HeaderInv, PhaseInv
  <2>. QED BY <1>1, <2>1, ReplayIsCache DEF Durable, PinInv
<1>2. CASE ~\E p \in Procs : pc[p] \in {"install_trans", "clear"}
  BY <1>2, ReplayEmpty DEF HeaderInv, Durable, TypeOK
<1>. QED BY <1>1, <1>2

\* The same of the state after a step.
LEMMA DurableValueNext == IInv' => DurableInv'
BY DurableValue, PTL

\* A fresh log is a fresh atomic disk.
LEMMA RefinementInit == Init => Atomic!Init
<1>. SUFFICES ASSUME Init PROVE Atomic!Init
  OBVIOUS
<1>1. Replay(header, logarea, home) = home /\ cache = home
  BY ReplayEmpty DEF Init
<1>. QED BY <1>1 DEF Init, Atomic!Init

\* Every step of the log is a step of the atomic disk or leaves it alone.
LEMMA RefinementNext ==
  IInv /\ IInv' /\ [Next]_vars => [Atomic!Next]_Atomic!vars
<1>. SUFFICES ASSUME IInv, IInv', [Next]_vars PROVE [Atomic!Next]_Atomic!vars
  OBVIOUS
<1>. USE DEF CommitSteps, disk
<1>0. DurableInv /\ DurableInv'
  BY DurableValue, DurableValueNext
<1>. DEFINE Stutter == UNCHANGED <<cache, Durable, Running>>
<1>a. Stutter => [Atomic!Next]_Atomic!vars
  BY DEF Atomic!vars, Durable, Running
<1>1. ASSUME NEW p \in Procs, BeginOp(p) PROVE [Atomic!Next]_Atomic!vars
  <2>1. CASE MustWait
    <3>1. Running' = Running
      BY <1>1, <2>1 DEF BeginOp, Running, IInv, TypeOK
    <3>2. cache' = cache /\ Durable' = Durable
      BY <1>1 DEF BeginOp, Durable
    <3>. QED BY <1>a, <3>1, <3>2
  <2>2. CASE ~MustWait
    <3>1. p \notin Running /\ Running' = Running \cup {p}
      BY <1>1, <2>2 DEF BeginOp, Running, IInv, TypeOK
    <3>2. cache' = cache /\ Durable' = Durable
      BY <1>1 DEF BeginOp, Durable
    <3>3. Atomic!Begin(p)
      BY <3>1, <3>2 DEF Atomic!Begin, Running, Durable
    <3>. QED BY <3>3 DEF Atomic!Next
  <2>. QED BY <2>1, <2>2
<1>2. ASSUME NEW p \in Procs, SpuriousWakeup(p) PROVE Stutter
  BY <1>2 DEF SpuriousWakeup, Durable, Running, IInv, TypeOK
<1>3. ASSUME NEW p \in Procs, EndOp(p) PROVE [Atomic!Next]_Atomic!vars
  <2>1. p \in Running /\ Running' = Running \ {p}
    BY <1>3 DEF EndOp, Wakeup, Running, IInv, TypeOK
  <2>2. cache' = cache /\ Durable' = Durable
    BY <1>3 DEF EndOp, Durable
  <2>3. Atomic!End(p)
    BY <2>1, <2>2 DEF Atomic!End, Running, Durable
  <2>. QED BY <2>3 DEF Atomic!Next
<1>4. ASSUME NEW p \in Procs, NEW b \in Blocks, NEW v \in Vals, LogWrite(p, b, v)
      PROVE  [Atomic!Next]_Atomic!vars
  <2>1. p \in Running /\ Running' = Running
    BY <1>4 DEF LogWrite, Running
  <2>2. cache' = [cache EXCEPT ![b] = v] /\ Durable' = Durable
    BY <1>4 DEF LogWrite, Durable
  <2>3. Atomic!Write(p, b, v)
    BY SMTT(30), <2>1, <2>2 DEF Atomic!Write, Running, Durable
  <2>. QED BY <2>3 DEF Atomic!Next
<1>5. ASSUME NEW p \in Procs, WriteLog(p) PROVE Stutter
  <2>1. /\ Running' = Running /\ cache' = cache /\ home' = home
        /\ \A q \in Procs : pc'[q] \in {"install_trans", "clear"}
                              <=> pc[q] \in {"install_trans", "clear"}
    BY <1>5 DEF WriteLog, Advance, Running, IInv, TypeOK
  <2>. QED BY <1>0, <2>1 DEF DurableInv
<1>6. ASSUME NEW p \in Procs, WriteHead(p) PROVE [Atomic!Next]_Atomic!vars
  <2>1. pc[p] = "write_head" /\ pc'[p] = "install_trans" /\ cache' = cache
    BY <1>6 DEF WriteHead, IInv, TypeOK
  <2>2. Durable' = cache
    BY <1>0, <2>1 DEF DurableInv
  <2>3. Running = {} /\ Running' = {}
    BY <2>1 DEF IInv, ControlInv, Running
  <2>4. Atomic!Commit
    BY <2>1, <2>2, <2>3 DEF Atomic!Commit, Running, Durable
  <2>. QED BY <2>4 DEF Atomic!Next
<1>7. ASSUME NEW p \in Procs, InstallTrans(p) PROVE Stutter
  <2>1. /\ pc[p] = "install_trans" /\ pc'[p] \in {"install_trans", "clear"}
        /\ cache' = [cache EXCEPT ![lh[i]] = logarea[i]] /\ Running' = Running
    BY <1>7 DEF InstallTrans, Advance, Running, IInv, TypeOK
  <2>2. lh[i] \in Blocks /\ logarea[i] = cache[lh[i]]
    <3>1. i \in 1..Len(lh) /\ \A k \in DOMAIN lh : logarea[k] = cache[lh[k]]
      BY <2>1 DEF IInv, DataInv, PhaseInv
    <3>2. lh \in Seq(Blocks)
      BY DEF IInv, TypeOK
    <3>. QED BY SMTT(30), <3>1, <3>2
  <2>3. cache' = cache
    BY <2>1, <2>2 DEF IInv, TypeOK
  <2>. QED BY <1>0, <2>1, <2>3 DEF DurableInv
<1>8. ASSUME NEW p \in Procs, ClearLog(p) PROVE Stutter
  <2>1. /\ pc[p] = "clear" /\ pc' = [pc EXCEPT ![p] = "done"] /\ lh' = <<>>
        /\ cache' = cache /\ home' = home
    BY <1>8 DEF ClearLog
  <2>2. Running' = Running
    BY SMTT(30), <2>1 DEF Running, IInv, TypeOK
  <2>3. Durable = cache /\ Durable' = home
    BY <1>0, <2>1 DEF DurableInv, IInv, ControlInv, TypeOK
  <2>4. cache = home
    <3>1. Logged(lh') = {}
      BY <2>1 DEF Logged
    <3>2. \A b \in Blocks : cache'[b] = home'[b]
      BY <3>1 DEF IInv, DataInv, PinInv
    <3>. QED BY <2>1, <3>2 DEF IInv, TypeOK
  <2>. QED BY <2>1, <2>2, <2>3, <2>4
<1>9. ASSUME NEW p \in Procs, CommitDone(p) PROVE Stutter
  BY <1>9 DEF CommitDone, Wakeup, Durable, Running, IInv, TypeOK
<1>10. ASSUME NEW b \in Blocks, Recycle(b) PROVE Stutter
  <2>1. cache[b] = home[b]
    <3>1. \A k \in DOMAIN lh : lh[k] = b => Installed(k)
      BY <1>10 DEF Recycle, IInv, DataInv, PinInv
    <3>. QED BY SMTT(30), <3>1 DEF IInv, DataInv, PinInv, Logged
  <2>. QED BY SMTT(30), <1>10, <2>1 DEF Recycle, Durable, Running, IInv, TypeOK
<1>11. ASSUME PowerFailureOutsideCommit PROVE [Atomic!Next]_Atomic!vars
  <2>1. /\ header = <<>> /\ header' = <<>> /\ home' = initlog /\ cache' = home'
        /\ pc' = [p \in Procs |-> "idle"]
    BY <1>11 DEF PowerFailureOutsideCommit, PowerFailure
  <2>2. home' = home /\ Durable = home /\ Durable' = home'
    BY <2>1, ReplayEmpty DEF initlog, Durable, IInv, TypeOK
  <2>3. Running' = {}
    BY <2>1 DEF Running
  <2>4. Atomic!PowerFailure
    BY <2>1, <2>2, <2>3 DEF Atomic!PowerFailure, Running, Durable
  <2>. QED BY <2>4 DEF Atomic!Next
<1>12. CASE UNCHANGED vars
  BY <1>12, <1>a DEF vars, Durable, Running
<1>. QED
  BY <1>1, <1>2, <1>3, <1>4, <1>5, <1>6, <1>7, <1>8, <1>9, <1>10, <1>11, <1>12, <1>a
  DEF Next, Run, Step

\* The log implements a disk with atomic groups of operations (AtomicDisk),
\* through power failures at any moment but between the two header writes of
\* a commit: the durable contents move in one step, the write of the header,
\* from one state with no operation in progress to another.
THEOREM LogIsAtomic == Spec => AtomicGroups
<1>. QED
  BY RefinementInit, RefinementNext, Invariance, PTL
  DEF Spec, AtomicGroups, Atomic!Spec
=============================================================================
