------------------------------ MODULE FsFiles -------------------------------
(***************************************************************************)
(* The counting of references, and the proof that every step of a process  *)
(* other than iput() keeps the invariant.                                  *)
(***************************************************************************)
EXTENDS FsFacts, FiniteSetTheorems, WellFoundedInduction

-----------------------------------------------------------------------------
(* Counting.                                                               *)

\* A set of natural numbers has a least element (balloc() and ialloc() take the
\* first that is free, fs.c:67, fs.c:164).
LEMMA LeastIn ==
  ASSUME NEW T, T \subseteq Nat, T # {}
  PROVE  Min(T) \in T
<1>. DEFINE R == {ss \in Nat \X Nat : ss[1] < ss[2]}
<1>1. IsWellFoundedOn(R, Nat)
  BY ZenonT(40), NatLessThanWellFounded DEF OpToRel
<1>2. \A x, y \in Nat : x < y => <<x, y>> \in R
  BY ZenonT(40)
<1>. HIDE DEF R
<1>3. PICK x \in T : \A y \in T : ~ (<<y, x>> \in R)
  BY ZenonT(40), <1>1, WFMin
<1>4. \A y \in T : x <= y
  <2>. TAKE y \in T
  <2>1. ~ (y < x)
    BY ZenonT(40), <1>2, <1>3, Zenon
  <2>. QED BY <2>1
<1>. QED BY ZenonT(40), <1>4 DEF Min

\* The least elements that balloc(), ialloc() and filealloc() look for exist.
LEMMA Ordered == WellOrdered
  BY ZenonT(40), LeastIn DEF WellOrdered

\* Adding elements to a set one by one counts them.
LEMMA AddOne ==
  ASSUME NEW S, IsFiniteSet(S), NEW x, x \notin S, NEW b \in BOOLEAN,
         NEW T, T = IF b THEN S \cup {x} ELSE S
  PROVE  IsFiniteSet(T) /\ Cardinality(T) = Cardinality(S) + One(b)
<1>1. Cardinality(S) \in Nat
  BY ZenonT(40), FS_CardinalityType
<1>2. IsFiniteSet(S \cup {x}) /\ Cardinality(S \cup {x}) = Cardinality(S) + 1
  BY ZenonT(40), FS_AddElement
<1>3. CASE b
  BY <1>2, <1>3 DEF One
<1>4. CASE ~b
  BY <1>1, <1>4 DEF One
<1>. QED BY <1>3, <1>4

\* The pointers of one process to an inode, counted.
LEMMA MineCounts ==
  ASSUME NEW l \in Locs, NEW c \in 0 .. NINODES, NEW i \in Inums
  PROVE  LET H == {h \in Pointers : Pointer(l, c, h) = i}
         IN  IsFiniteSet(H) /\ Cardinality(H) = Mine(l, c, i)
<1>. DEFINE b1 == l.pc # "chdir" /\ c = i
            b2 == l.pc # "iget" /\ l.ip = i
            b3 == l.dp = i
            b4 == l.old = i
            b5 == l.puts # <<>> /\ l.puts[1] = i
            b6 == Len(l.puts) >= 2 /\ l.puts[2] = i
            H0 == {}
            H1 == {h \in {"cwd"} : b1}
            H2 == {h \in {"cwd", "ip"} : IF h = "ip" THEN b2 ELSE h \in H1}
            H3 == {h \in {"cwd", "ip", "dp"} : IF h = "dp" THEN b3 ELSE h \in H2}
            H4 == {h \in {"cwd", "ip", "dp", "old"} : IF h = "old" THEN b4 ELSE h \in H3}
            H5 == {h \in {"cwd", "ip", "dp", "old", "put"} : IF h = "put" THEN b5 ELSE h \in H4}
            H6 == {h \in Pointers : IF h = "next" THEN b6 ELSE h \in H5}
            H == {h \in Pointers : Pointer(l, c, h) = i}
<1>1. IsFiniteSet(H0) /\ Cardinality(H0) = 0
  BY FS_EmptySet
<1>b. b1 \in BOOLEAN /\ b2 \in BOOLEAN /\ b3 \in BOOLEAN /\ b4 \in BOOLEAN
      /\ b5 \in BOOLEAN /\ b6 \in BOOLEAN
  BY ZenonT(40)
<1>c. /\ "cwd" \notin H0 /\ H1 = IF b1 THEN H0 \cup {"cwd"} ELSE H0
      /\ "ip" \notin H1 /\ H2 = IF b2 THEN H1 \cup {"ip"} ELSE H1
      /\ "dp" \notin H2 /\ H3 = IF b3 THEN H2 \cup {"dp"} ELSE H2
      /\ "old" \notin H3 /\ H4 = IF b4 THEN H3 \cup {"old"} ELSE H3
      /\ "put" \notin H4 /\ H5 = IF b5 THEN H4 \cup {"put"} ELSE H4
      /\ "next" \notin H5 /\ H6 = IF b6 THEN H5 \cup {"next"} ELSE H5
  <2>. HIDE DEF b1, b2, b3, b4, b5, b6
  <2>1. "cwd" \notin H0 /\ H1 = IF b1 THEN H0 \cup {"cwd"} ELSE H0
    BY ZenonT(40)
  <2>2. "ip" \notin H1 /\ H2 = IF b2 THEN H1 \cup {"ip"} ELSE H1
    <3>1. H1 \subseteq {"cwd"}
      BY ZenonT(40)
    <3>. HIDE DEF H1
    <3>. QED BY ZenonT(40), <3>1
  <2>3. "dp" \notin H2 /\ H3 = IF b3 THEN H2 \cup {"dp"} ELSE H2
    <3>1. H2 \subseteq {"cwd", "ip"}
      BY ZenonT(40)
    <3>. HIDE DEF H2
    <3>. QED BY ZenonT(40), <3>1
  <2>4. "old" \notin H3 /\ H4 = IF b4 THEN H3 \cup {"old"} ELSE H3
    <3>1. H3 \subseteq {"cwd", "ip", "dp"}
      BY ZenonT(40)
    <3>. HIDE DEF H3
    <3>. QED BY ZenonT(40), <3>1
  <2>5. "put" \notin H4 /\ H5 = IF b5 THEN H4 \cup {"put"} ELSE H4
    <3>1. H4 \subseteq {"cwd", "ip", "dp", "old"}
      BY ZenonT(40)
    <3>. HIDE DEF H4
    <3>. QED BY ZenonT(40), <3>1
  <2>6. "next" \notin H5 /\ H6 = IF b6 THEN H5 \cup {"next"} ELSE H5
    <3>1. H5 \subseteq {"cwd", "ip", "dp", "old", "put"}
      BY ZenonT(40)
    <3>. HIDE DEF H5
    <3>. QED BY ZenonT(40), <3>1 DEF Pointers
  <2>. QED BY ZenonT(40), <2>1, <2>2, <2>3, <2>4, <2>5, <2>6
<1>o. \A b \in BOOLEAN : One(b) \in Nat
  BY ZenonT(40) DEF One
<1>2. H = H6
  <2>1. i # 0
    BY DEF Inums
  <2>2. /\ Pointer(l, c, "cwd") = i <=> b1
        /\ Pointer(l, c, "ip") = i <=> b2
        /\ Pointer(l, c, "dp") = i <=> b3
        /\ Pointer(l, c, "old") = i <=> b4
        /\ Pointer(l, c, "put") = i <=> b5
        /\ Pointer(l, c, "next") = i <=> b6
    BY <2>1 DEF Pointer, Locs
  <2>. HIDE DEF b1, b2, b3, b4, b5, b6
  <2>. QED BY <2>2 DEF Pointers
<1>3. Mine(l, c, i) = One(b1) + One(b2) + One(b3) + One(b4) + One(b5) + One(b6)
  BY ZenonT(40) DEF Mine
<1>. HIDE DEF b1, b2, b3, b4, b5, b6, H0, H1, H2, H3, H4, H5, H6
<1>4. IsFiniteSet(H1) /\ Cardinality(H1) = 0 + One(b1)
  BY ZenonT(40), <1>1, <1>b, <1>c, AddOne
<1>5. IsFiniteSet(H2) /\ Cardinality(H2) = Cardinality(H1) + One(b2)
  BY SMTT(30), <1>4, <1>b, <1>c, AddOne
<1>6. IsFiniteSet(H3) /\ Cardinality(H3) = Cardinality(H2) + One(b3)
  BY SMTT(30), <1>5, <1>b, <1>c, AddOne
<1>7. IsFiniteSet(H4) /\ Cardinality(H4) = Cardinality(H3) + One(b4)
  BY SMTT(30), <1>6, <1>b, <1>c, AddOne
<1>8. IsFiniteSet(H5) /\ Cardinality(H5) = Cardinality(H4) + One(b5)
  BY SMTT(30), <1>7, <1>b, <1>c, AddOne
<1>9. IsFiniteSet(H6) /\ Cardinality(H6) = Cardinality(H5) + One(b6)
  BY <1>8, <1>b, <1>c, AddOne
<1>. QED
  <2>1. Cardinality(H6) = One(b1) + One(b2) + One(b3) + One(b4) + One(b5) + One(b6)
    BY SMTT(30), <1>b, <1>o, <1>4, <1>5, <1>6, <1>7, <1>8, <1>9
  <2>. QED BY ZenonT(40), <1>2, <1>3, <1>9, <2>1

\* Pairs of a process and one of finitely many things are finitely many.
LEMMA PairsFinite ==
  ASSUME NEW S, IsFiniteSet(S)
  PROVE  IsFiniteSet(Procs \X S)
BY ZenonT(40), FsAssumption, FS_Product DEF FsAssumption

\* A process has finitely many kinds of pointer.
LEMMA PointersFinite == IsFiniteSet(Pointers)
<1>1. IsFiniteSet({"cwd", "ip", "dp"}) /\ IsFiniteSet({"old", "put", "next"})
  <2>1. \A x, y, z : IsFiniteSet({x, y, z})
    <3>. TAKE x, y, z
    <3>1. IsFiniteSet({x} \cup {y})
      BY ZenonT(40), FS_Singleton, FS_AddElement
    <3>2. IsFiniteSet(({x} \cup {y}) \cup {z})
      BY ZenonT(40), <3>1, FS_AddElement
    <3>3. ({x} \cup {y}) \cup {z} = {x, y, z}
      BY ZenonT(40)
    <3>. QED BY ZenonT(40), <3>2, <3>3
  <2>. QED BY <2>1, Zenon
<1>2. Pointers = {"cwd", "ip", "dp"} \cup {"old", "put", "next"}
  BY ZenonT(40) DEF Pointers
<1>. QED BY ZenonT(40), <1>1, <1>2, FS_Union

\* A row of pairs <<p, x>> is as large as its second column.
LEMMA RowCounts ==
  ASSUME NEW S, IsFiniteSet(S), NEW p
  PROVE  LET R == {p} \X S IN IsFiniteSet(R) /\ Cardinality(R) = Cardinality(S)
<1>. DEFINE R == {p} \X S
            f == [x \in S |-> <<p, x>>]
<1>1. f \in Bijection(S, R)
  <2>1. f \in Injection(S, R)
    BY ZenonT(40) DEF Injection, IsInjective
  <2>2. f \in Surjection(S, R)
    <3>1. f \in [S -> R]
      BY ZenonT(40)
    <3>2. ASSUME NEW t \in R PROVE \E s \in S : f[s] = t
      <4>1. PICK s \in S : t = <<p, s>>
        OBVIOUS
      <4>. QED BY ZenonT(40), <4>1
    <3>. HIDE DEF f, R
    <3>. QED BY ZenonT(40), <3>1, <3>2, Zenon DEF Surjection
  <2>. QED BY <2>1, <2>2 DEF Bijection
<1>2. ExistsBijection(S, R)
  BY ZenonT(40), <1>1 DEF ExistsBijection
<1>. QED BY ZenonT(40), <1>2, FS_Bijection

\* The pairs of process p, and those of the others, make up all of them.
LEMMA RowOf ==
  ASSUME NEW X, IsFiniteSet(X), NEW S, IsFiniteSet(S), NEW p, Row(X, p) = {p} \X S
  PROVE  Cardinality(X) = Cardinality(Others(X, p)) + Cardinality(S)
         /\ Cardinality(Others(X, p)) \in Nat
<1>. DEFINE A == Others(X, p)
            B == Row(X, p)
<1>1. IsFiniteSet(A) /\ IsFiniteSet(B)
  BY ZenonT(40), FS_Subset DEF Row, Others
<1>2. A \cap B = {} /\ A \cup B = X
  BY DEF Row, Others
<1>3. Cardinality(B) = Cardinality(S)
  BY ZenonT(40), RowCounts
<1>. HIDE DEF A, B
<1>4. Cardinality(A) \in Nat /\ Cardinality(B) \in Nat /\ Cardinality(A \cap B) = 0
  BY ZenonT(40), <1>1, <1>2, FS_CardinalityType, FS_EmptySet
<1>5. Cardinality(A \cup B) = Cardinality(A) + Cardinality(B) - Cardinality(A \cap B)
  BY ZenonT(40), <1>1, FS_Union
<1>6. Cardinality(X) = Cardinality(A) + Cardinality(B) - Cardinality(A \cap B)
  BY ZenonT(40), <1>2, <1>5
<1>. QED BY <1>3, <1>4, <1>6 DEF A

\* A step of one process changes what is held by what that process holds.
LEMMA HeldMoves ==
  ASSUME NEW ls \in [Procs -> Locs], NEW cs \in [Procs -> 0 .. NINODES],
         NEW ms \in [Procs -> Locs], NEW ds \in [Procs -> 0 .. NINODES],
         NEW p \in Procs, NEW i \in Inums,
         \A q \in Procs \ {p} : ms[q] = ls[q] /\ ds[q] = cs[q]
  PROVE  /\ IsFiniteSet(Held(ms, ds, i)) /\ IsFiniteSet(Held(ls, cs, i))
         /\ Cardinality(Held(ms, ds, i)) + Mine(ls[p], cs[p], i)
              = Cardinality(Held(ls, cs, i)) + Mine(ms[p], ds[p], i)
         /\ Cardinality(Held(ls, cs, i)) >= Mine(ls[p], cs[p], i)
<1>. DEFINE X == Held(ls, cs, i)
            Y == Held(ms, ds, i)
            S == {h \in Pointers : Pointer(ls[p], cs[p], h) = i}
            T == {h \in Pointers : Pointer(ms[p], ds[p], h) = i}
<1>1. IsFiniteSet(X) /\ IsFiniteSet(Y)
  <2>1. X \in SUBSET (Procs \X Pointers) /\ Y \in SUBSET (Procs \X Pointers)
    BY ZenonT(40) DEF Held
  <2>. QED BY ZenonT(40), <2>1, PairsFinite, PointersFinite, FS_Subset
<1>2. ls[p] \in Locs /\ cs[p] \in 0 .. NINODES /\ ms[p] \in Locs /\ ds[p] \in 0 .. NINODES
  BY ZenonT(40)
<1>3. /\ IsFiniteSet(S) /\ Cardinality(S) = Mine(ls[p], cs[p], i)
      /\ IsFiniteSet(T) /\ Cardinality(T) = Mine(ms[p], ds[p], i)
  BY ZenonT(40), <1>2, MineCounts
<1>4. Row(X, p) = {p} \X S /\ Row(Y, p) = {p} \X T
  BY ZenonT(40) DEF Held, Row
<1>5. Others(X, p) = Others(Y, p)
  BY ZenonT(40) DEF Held, Others
<1>6. Cardinality(S) \in Nat /\ Cardinality(T) \in Nat
  BY <1>3, FS_CardinalityType
<1>b. IsFiniteSet(X) /\ IsFiniteSet(Y) /\ IsFiniteSet(S) /\ IsFiniteSet(T)
  BY ZenonT(40), <1>1, <1>3
<1>. HIDE DEF X, Y, S, T
<1>7. Cardinality(X) = Cardinality(Others(X, p)) + Cardinality(S)
      /\ Cardinality(Others(X, p)) \in Nat
  BY ZenonT(40), <1>b, <1>4, RowOf
<1>8. Cardinality(Y) = Cardinality(Others(Y, p)) + Cardinality(T)
  BY <1>b, <1>4, RowOf
<1>9. Cardinality(Y) + Cardinality(S) = Cardinality(X) + Cardinality(T)
      /\ Cardinality(X) >= Cardinality(S)
  BY SMTT(30), <1>5, <1>6, <1>7, <1>8
<1>. QED BY ZenonT(40), <1>1, <1>3, <1>9 DEF X, Y

\* The counts stay right if those of one process and of the files do.
LEMMA CountsKept ==
  ASSUME IInv, NEW p \in Procs, loc' \in [Procs -> Locs], cwd' \in [Procs -> 0 .. NINODES],
         \A q \in Procs \ {p} : loc'[q] = loc[q] /\ cwd'[q] = cwd[q],
         NEW i \in Inums,
         itable'[i].ref + Mine(loc[p], cwd[p], i) + Cardinality(Opens(ftable, i))
           = itable[i].ref + Mine(loc'[p], cwd'[p], i) + Cardinality(Opens(ftable', i)),
         itable'[i].ref \in Int
  PROVE  itable'[i].ref = Cardinality(Opens(ftable', i)) + Cardinality(Held(loc', cwd', i))
<1>1. \A fs : IsFiniteSet(Opens(fs, i)) /\ Cardinality(Opens(fs, i)) \in Nat
  <2>1. 1 \in Int /\ NFILE \in Int
    BY Sizes
  <2>2. IsFiniteSet(1 .. NFILE)
    BY ZenonT(40), <2>1, FS_Interval
  <2>. QED BY ZenonT(40), <2>2, FS_Subset, FS_CardinalityType DEF Opens
<1>2. loc \in [Procs -> Locs] /\ cwd \in [Procs -> 0 .. NINODES]
  BY ZenonT(40) DEF IInv, Shape
<1>3. /\ IsFiniteSet(Held(loc', cwd', i)) /\ IsFiniteSet(Held(loc, cwd, i))
      /\ Cardinality(Held(loc', cwd', i)) + Mine(loc[p], cwd[p], i)
           = Cardinality(Held(loc, cwd, i)) + Mine(loc'[p], cwd'[p], i)
  BY <1>2, HeldMoves
<1>4. Cardinality(Held(loc', cwd', i)) \in Nat /\ Cardinality(Held(loc, cwd, i)) \in Nat
  BY ZenonT(40), <1>3, FS_CardinalityType
<1>5. itable[i].ref = Cardinality(Opens(ftable, i)) + Cardinality(Held(loc, cwd, i))
  BY ZenonT(40) DEF IInv, RefsCounted
<1>6. \A l, c : Mine(l, c, i) \in Nat
  BY SMTT(30) DEF Mine, One
<1>. QED BY SMTT(30), <1>1, <1>3, <1>4, <1>5, <1>6

\* The sets counted are those of the new state.
LEMMA NotChanged ==
  ASSUME NEW j
  PROVE  Held(loc, cwd, j)' = Held(loc', cwd', j) /\ Opens(ftable, j)' = Opens(ftable', j)
         /\ Fds(ofile, j)' = Fds(ofile', j)
BY ZenonT(40) DEF Held, Opens, Fds

\* The open files of an inode are finitely many.
LEMMA OpensCount ==
  ASSUME NEW fs, NEW i
  PROVE  IsFiniteSet(Opens(fs, i)) /\ Cardinality(Opens(fs, i)) \in Nat
<1>1. IsFiniteSet(1 .. NFILE)
  BY FsAssumption, FS_Interval DEF FsAssumption
<1>2. Opens(fs, i) \in SUBSET (1 .. NFILE)
  BY ZenonT(40) DEF Opens
<1>. QED BY ZenonT(40), <1>1, <1>2, FS_Subset, FS_CardinalityType

-----------------------------------------------------------------------------
(* The other calls on files and directories.                               *)

\* Every step of a process but those of iput() keeps the invariant: the steps of
\* CallsStep, and open(), close(), dup(), write(), chdir(), fork() and exit().
LEMMA StepsKept ==
  \A p \in Procs : IInv /\ Step(p) /\ prog' = prog => iput(p) \/ IInv'
\* The locks stay in line with the places of the processes.
<1>LocksKept. ASSUME IInv, NEW p \in Procs, NEW m, NEW s \in 0 .. NINODES, NEW a \in 0 .. NINODES,
                     NEW b \in 0 .. NINODES, Acts(p, s, a, b), Moves(p, m, a, b)
              PROVE  Locks'
  <2>. USE <1>LocksKept
  <2>. USE DEF Inums
  <2>1. /\ \A q \in Procs \ {p} : loc'[q] = loc[q]
        /\ loc'[p] = m /\ m.stage = "drop"
    BY ZenonT(40) DEF Moves, IInv, Shape
  <2>2. \A j \in Inums : LockedAt(m, j) <=> j = a \/ (LockedAt(loc[p], j) /\ j # b)
    BY ZenonT(40) DEF Moves
  <2>3. /\ \A j \in Inums : j # a /\ j # b => itable'[j].lock = itable[j].lock
        /\ \A j \in Inums : itable[j].valid => itable'[j].valid
        /\ a # 0 => itable[a].lock = {} /\ itable'[a].lock = {p} /\ itable'[a].valid
        /\ b # 0 => itable'[b].lock = {} /\ LockedAt(loc[p], b)
    BY ZenonT(40) DEF Acts
  <2>4. /\ \A i \in Inums, q \in Procs : q \in itable[i].lock <=> LockedAt(loc[q], i)
        /\ \A i \in Inums, q, r \in Procs : q \in itable[i].lock /\ r \in itable[i].lock => q = r
        /\ \A i \in Inums, q \in Procs : q \in itable[i].lock => itable[i].valid
        /\ \A q \in Procs, i \in Inums :
             loc[q].stage \in {"trunc", "invalid"} /\ Putting(loc[q], i) =>
             loc[q].dp # i /\ (loc[q].pc \in {"unlinked", "created"} => loc[q].ip # i)
    BY ZenonT(40) DEF IInv, Locks
  <2>5. ASSUME NEW i \in Inums, NEW q \in Procs
        PROVE  q \in itable'[i].lock <=> LockedAt(loc'[q], i)
    <3>1. CASE q = p
      BY SMTT(30), <2>1, <2>2, <2>3, <2>4, <3>1
    <3>2. CASE q # p
      BY SMTT(30), <2>1, <2>3, <2>4, <3>2
    <3>. QED BY ZenonT(40), <3>1, <3>2
  <2>6. ASSUME NEW i \in Inums, NEW q \in Procs, NEW r \in Procs,
               q \in itable'[i].lock, r \in itable'[i].lock
        PROVE  q = r
    BY SMTT(30), <2>3, <2>4, <2>6
  <2>7. ASSUME NEW i \in Inums, NEW q \in Procs, q \in itable'[i].lock
        PROVE  itable'[i].valid
    BY SMTT(30), <2>3, <2>4, <2>7
  <2>8. ASSUME NEW q \in Procs, NEW i \in Inums,
               loc'[q].stage \in {"trunc", "invalid"}, Putting(loc'[q], i)
        PROVE  loc'[q].dp # i /\ (loc'[q].pc \in {"unlinked", "created"} => loc'[q].ip # i)
    <3>1. q # p
      BY ZenonT(40), <2>1, <2>8
    <3>. QED BY SMTT(30), <2>1, <2>4, <2>8, <3>1
  <2>. QED BY ZenonT(40), <2>5, <2>6, <2>7, <2>8 DEF Locks
\* The valid entries stay what is on disk.
<1>CoherentKept. ASSUME IInv, NEW p \in Procs, NEW m, NEW s \in 0 .. NINODES, NEW a \in 0 .. NINODES,
                        NEW b \in 0 .. NINODES, Acts(p, s, a, b), Moves(p, m, a, b), booted, booted'
                 PROVE  Coherent'
  <2>. USE <1>CoherentKept
  <2>1. /\ \A q \in Procs \ {p} : loc'[q] = loc[q]
        /\ loc[p].stage = "drop"
    BY ZenonT(40) DEF Moves, IInv, Shape
  <2>2. \A j \in Inums : itable'[j].valid => Synced(j)
    BY ZenonT(40) DEF Acts
  <2>3. \A j \in Inums : itable[j].valid =>
          \/ itable[j].mem = disk.inode[j] /\ disk.inode[j].type # "none"
          \/ \E q \in Procs : loc[q].stage = "invalid" /\ Putting(loc[q], j)
    BY ZenonT(40) DEF IInv, Coherent
  <2>4. ASSUME NEW j \in Inums, itable'[j].valid
        PROVE  \/ itable'[j].mem = disk'.inode[j] /\ disk'.inode[j].type # "none"
               \/ \E q \in Procs : loc'[q].stage = "invalid" /\ Putting(loc'[q], j)
    <3>1. CASE \E q \in Procs : loc[q].stage = "invalid" /\ Putting(loc[q], j)
      <4>1. PICK q \in Procs : loc[q].stage = "invalid" /\ Putting(loc[q], j)
        BY <3>1
      <4>2. q # p
        BY ZenonT(40), <2>1, <4>1
      <4>. QED BY ZenonT(40), <2>1, <4>1, <4>2
    <3>2. CASE ~\E q \in Procs : loc[q].stage = "invalid" /\ Putting(loc[q], j)
      BY ZenonT(40), <2>2, <2>3, <2>4, <3>2 DEF Synced
    <3>. QED BY ZenonT(40), <3>1, <3>2
  <2>. QED BY ZenonT(40), <2>4 DEF Coherent
\* What every step of a process shares: if the table, the locks and the counts
\* move together with the place of the process, the invariant is kept.
<1>Kept. ASSUME IInv, NEW p \in Procs, NEW m, NEW s \in 0 .. NINODES, NEW a \in 0 .. NINODES,
                NEW b \in 0 .. NINODES, Acts(p, s, a, b), Moves(p, m, a, b), Stays, Files(p, m),
                durable' = durable \/ durable' = disk, OwnedIn(disk'),
                \A j \in Inums : Mine(m, cwd'[p], j) + Cardinality(Opens(ftable', j))
                                 = Mine(loc[p], cwd[p], j) + Cardinality(Opens(ftable, j)) + One(j = s)
         PROVE  IInv'
  <2>. USE <1>Kept
  <2>1. /\ loc \in [Procs -> Locs] /\ cwd \in [Procs -> 0 .. NINODES] /\ disk \in AnyImage
        /\ durable \in AnyImage /\ prog \in Programs /\ booted
    BY ZenonT(40) DEF IInv, Shape, Stays
  <2>2. /\ loc' \in [Procs -> Locs] /\ loc'[p] = m
        /\ \A q \in Procs \ {p} : loc'[q] = loc[q]
    BY <2>1 DEF Moves
  <2>3. Shape'
    <3>1. itable' \in Tables /\ disk' \in AnyImage
      BY ZenonT(40) DEF Acts
    <3>2. durable' \in AnyImage /\ booted' \in BOOLEAN /\ prog' \in Programs
      BY <2>1 DEF Stays
    <3>. QED BY ZenonT(40), <2>2, <3>1, <3>2 DEF Shape, Files
  <2>4. Roles'
    <3>1. \A q \in Procs : RolesOf(loc'[q])
      BY ZenonT(40), <2>2 DEF Moves, IInv, Roles
    <3>2. ASSUME NEW q \in Procs, cwd'[q] = 0
          PROVE  loc'[q].pc \in {"idle", "end", "exit"} /\ \A fd \in 1 .. NOFILE : ofile'[q][fd] = 0
      <4>1. CASE q = p
        BY ZenonT(40), <2>2, <3>2, <4>1 DEF Files
      <4>2. CASE q # p
        <5>1. cwd'[q] = cwd[q] /\ ofile'[q] = ofile[q] /\ loc'[q] = loc[q]
          BY ZenonT(40), <2>2, <4>2 DEF Files
        <5>. QED BY <3>2, <5>1 DEF IInv, Roles
      <4>. QED BY ZenonT(40), <4>1, <4>2
    <3>3. \A f \in 1 .. NFILE : ftable'[f].ref > 0 => ftable'[f].ip # 0
      BY ZenonT(40) DEF Files
    <3>4. booted'
      BY ZenonT(40) DEF Stays
    <3>. QED BY ZenonT(40), <3>1, <3>2, <3>3, <3>4 DEF Roles
  <2>5. RefsCounted'
    <3>1. ASSUME NEW j \in Inums
          PROVE  itable'[j].ref = Cardinality(Opens(ftable', j)) + Cardinality(Held(loc', cwd', j))
      <4>1. itable'[j].ref = itable[j].ref + One(j = s)
        BY ZenonT(40) DEF Acts
      <4>2. itable[j].ref \in Int /\ One(j = s) \in Int
        BY SMTT(30) DEF IInv, Shape, Tables, One
      <4>3. /\ Mine(loc[p], cwd[p], j) \in Int /\ Mine(m, cwd'[p], j) \in Int
        BY DEF Mine, One
      <4>4. Cardinality(Opens(ftable, j)) \in Int /\ Cardinality(Opens(ftable', j)) \in Int
        BY OpensCount
      <4>h. Mine(m, cwd'[p], j) + Cardinality(Opens(ftable', j))
              = Mine(loc[p], cwd[p], j) + Cardinality(Opens(ftable, j)) + One(j = s)
        BY ZenonT(40)
      <4>5. /\ itable'[j].ref + Mine(loc[p], cwd[p], j) + Cardinality(Opens(ftable, j))
               = itable[j].ref + Mine(loc'[p], cwd'[p], j) + Cardinality(Opens(ftable', j))
            /\ itable'[j].ref \in Int
        BY <2>2, <4>1, <4>2, <4>3, <4>4, <4>h, SMTT(30)
      <4>6. cwd' \in [Procs -> 0 .. NINODES] /\ \A q \in Procs \ {p} : loc'[q] = loc[q] /\ cwd'[q] = cwd[q]
        BY ZenonT(40), <2>2 DEF Files
      <4>. QED BY ZenonT(40), <2>2, <4>5, <4>6, CountsKept
    <3>2. \A f \in 1 .. NFILE : ftable'[f].ref = Cardinality(Fds(ofile', f))
      BY ZenonT(40) DEF Files
    <3>. QED BY ZenonT(40), <3>1, <3>2, NotChanged DEF RefsCounted
  <2>6. Locks'
    BY ZenonT(40), <1>LocksKept
  <2>7. Coherent'
    BY ZenonT(40), <1>CoherentKept DEF Stays
  <2>8. Owned'
    <3>1. OwnedIn(durable')
      BY ZenonT(40) DEF IInv, Owned
    <3>. QED BY ZenonT(40), <3>1 DEF Owned, OwnedIn, Blk
  <2>. QED BY ZenonT(40), <2>3, <2>4, <2>5, <2>6, <2>7, <2>8 DEF IInv
\* A step that leaves the open files and the current directories alone.
<1>PlainKept. ASSUME IInv, NEW p \in Procs, NEW m, NEW s \in 0 .. NINODES, NEW a \in 0 .. NINODES,
                     NEW b \in 0 .. NINODES, Acts(p, s, a, b), Moves(p, m, a, b), Stays,
                     ftable' = ftable, ofile' = ofile, cwd' = cwd,
                     cwd[p] = 0 => m.pc \in {"idle", "end", "exit"},
                     durable' = durable \/ durable' = disk, OwnedIn(disk'),
                     \A j \in Inums : Mine(m, cwd[p], j) = Mine(loc[p], cwd[p], j) + One(j = s)
              PROVE  IInv'
  <2>. USE <1>PlainKept
  <2>1. /\ ftable \in [1 .. NFILE -> [ref : Int, ip : 0 .. NINODES, writable : BOOLEAN]]
        /\ ofile \in [Procs -> [1 .. NOFILE -> 0 .. NFILE]]
        /\ cwd \in [Procs -> 0 .. NINODES]
    BY ZenonT(40) DEF IInv, Shape
  <2>2. /\ cwd[p] = 0 => \A fd \in 1 .. NOFILE : ofile[p][fd] = 0
        /\ \A f \in 1 .. NFILE : ftable[f].ref > 0 => ftable[f].ip # 0
        /\ \A f \in 1 .. NFILE : ftable[f].ref = Cardinality(Fds(ofile, f))
    BY ZenonT(40) DEF IInv, Roles, RefsCounted
  <2>3. Files(p, m)
    BY ZenonT(40), <2>1, <2>2 DEF Files
  <2>4. ASSUME NEW j \in Inums
        PROVE  Mine(m, cwd'[p], j) + Cardinality(Opens(ftable', j))
               = Mine(loc[p], cwd[p], j) + Cardinality(Opens(ftable, j)) + One(j = s)
    <3>1. Mine(m, cwd'[p], j) = Mine(loc[p], cwd[p], j) + One(j = s)
      BY ZenonT(40)
    <3>2. Cardinality(Opens(ftable', j)) = Cardinality(Opens(ftable, j))
      BY ZenonT(40)
    <3>3. /\ Mine(loc[p], cwd[p], j) \in Int /\ One(j = s) \in Int
          /\ Cardinality(Opens(ftable, j)) \in Nat
      BY OpensCount DEF Mine, One
    <3>. QED BY SMTT(30), <3>1, <3>2, <3>3
  <2>. QED BY SMTT(30), <2>3, <2>4, <1>Kept
<1>CountEnd. ASSUME NEW c, NEW q, NEW j, j # 0
             PROVE  Count("end", c, 0, 0, 0, q, j) = One(c = j) + Puts(q, j)
  <2>. USE <1>CountEnd
  <2>1. One("end" # "iget" /\ 0 = j) = 0 /\ One(0 = j) = 0 /\ One("end" # "chdir" /\ c = j) = One(c = j)
    BY DEF One
  <2>2. \A b : One(b) \in Nat
    BY ZenonT(40) DEF One
  <2>3. Puts(q, j) \in Nat
    BY <2>2 DEF Puts
  <2>. QED BY SMTT(30), <2>1, <2>2, <2>3 DEF Count
\* The pointers of a process, from its place.
<1>MineIs. ASSUME NEW l, NEW m, NEW pc, NEW ip, NEW dp, NEW old, NEW rest, NEW puts,
                  Is(m, l, pc, ip, dp, old, rest, puts)
           PROVE  \A c, j : Mine(m, c, j) = Count(pc, c, ip, dp, old, puts, j)
  <2>. USE <1>MineIs
  <2>1. m.pc = pc /\ m.ip = ip /\ m.dp = dp /\ m.old = old /\ m.puts = puts
    BY ZenonT(40) DEF Is
  <2>2. ASSUME NEW c, NEW j PROVE Mine(m, c, j) = Count(pc, c, ip, dp, old, puts, j)
    <3>1. \A b : One(b) \in Nat
      BY ZenonT(40) DEF One
    <3>. QED BY SMTT(30), <2>1, <3>1 DEF Mine, Count, Puts
  <2>. QED BY ZenonT(40), <2>2
\* A process with no iput() to do goes on to another place of its call.
<1>MovesTo. ASSUME IInv, NEW p \in Procs, loc[p].puts = <<>>, NEW m,
                   NEW pc, NEW ip, NEW dp, NEW old, NEW rest, NEW puts,
                   Is(m, loc[p], pc, ip, dp, old, rest, puts), loc' = [loc EXCEPT ![p] = m], RolesOf(m),
                   NEW a, NEW b,
                   \A j \in Inums : Atop(pc, ip, dp, j)
                                    <=> j = a \/ (Atop(loc[p].pc, loc[p].ip, loc[p].dp, j) /\ j # b)
            PROVE  Moves(p, m, a, b)
  <2>. USE <1>MovesTo
  <2>1. loc[p].stage = "drop"
    BY ZenonT(40) DEF IInv, Roles, RolesOf
  <2>2. m \in Locs /\ m.stage = "drop"
    BY ZenonT(40), <2>1 DEF Is
  <2>3. \A j : LockedAt(loc[p], j) <=> Atop(loc[p].pc, loc[p].ip, loc[p].dp, j)
    BY ZenonT(40), <2>1 DEF LockedAt, Atop
  <2>4. \A j : LockedAt(m, j) <=> Atop(pc, ip, dp, j)
    BY SMTT(30), <2>2 DEF LockedAt, Atop, Is
  <2>. QED BY ZenonT(40), <2>1, <2>2, <2>3, <2>4 DEF Moves
<1>StepKept. ASSUME IInv, NEW p \in Procs, NEW m, NEW pc, NEW ip, NEW dp, NEW old, NEW rest, NEW puts,
                    NEW s, NEW a, NEW b, Advances(p, m, pc, ip, dp, old, rest, puts, s, a, b),
                    Acts(p, s, a, b), Still, OwnedIn(disk')
             PROVE  IInv'
  <2>. USE <1>StepKept
  <2>. SUFFICES ASSUME loc[p].puts = <<>>, Is(m, loc[p], pc, ip, dp, old, rest, puts),
                       loc' = [loc EXCEPT ![p] = m], RolesOf(m),
                       s \in 0 .. NINODES, a \in 0 .. NINODES, b \in 0 .. NINODES,
                       cwd[p] = 0 => pc \in {"idle", "end", "exit"},
                       \A j \in Inums : Atop(pc, ip, dp, j)
                         <=> j = a \/ (Atop(loc[p].pc, loc[p].ip, loc[p].dp, j) /\ j # b),
                       \A j \in Inums : Count(pc, cwd[p], ip, dp, old, puts, j)
                         = Count(loc[p].pc, cwd[p], loc[p].ip, loc[p].dp, loc[p].old, <<>>, j)
                           + One(j = s)
                PROVE  IInv'
    BY ZenonT(40) DEF Advances
  <2>1. Moves(p, m, a, b)
    BY ZenonT(40), <1>MovesTo
  <2>2. \A j : Mine(m, cwd[p], j) = Count(pc, cwd[p], ip, dp, old, puts, j)
    BY SMTT(30), <1>MineIs
  <2>3. \A j : Mine(loc[p], cwd[p], j)
               = Count(loc[p].pc, cwd[p], loc[p].ip, loc[p].dp, loc[p].old, <<>>, j)
    <3>1. Is(loc[p], loc[p], loc[p].pc, loc[p].ip, loc[p].dp, loc[p].old, loc[p].rest, <<>>)
      BY ZenonT(40) DEF Is, IInv, Shape
    <3>. QED BY SMTT(30), <3>1, <1>MineIs
  <2>4. \A j \in Inums : Mine(m, cwd[p], j) = Mine(loc[p], cwd[p], j) + One(j = s)
    BY SMTT(30), <2>2, <2>3
  <2>5. m.pc = pc
    BY ZenonT(40) DEF Is
  <2>. QED BY SMTT(30), <2>1, <2>4, <2>5, <1>PlainKept DEF Still
\* The same, for the steps of the calls.
<1>SteppedKept. ASSUME IInv, NEW p \in Procs, Stepped(p)
                PROVE  IInv'
    BY <1>SteppedKept, ZenonT(40), <1>StepKept DEF Stepped
\* Two sets that differ in one element at most.
<1>SwapOne. ASSUME NEW S, NEW T, NEW r, IsFiniteSet(S), S \ {r} = T \ {r}
            PROVE  /\ IsFiniteSet(T) /\ Cardinality(S) \in Nat /\ Cardinality(T) \in Nat
                   /\ Cardinality(T) + One(r \in S) = Cardinality(S) + One(r \in T)
  <2>. USE <1>SwapOne
  <2>. DEFINE W == S \ {r}
  <2>1. IsFiniteSet(W)
    BY ZenonT(40), FS_Difference
  <2>2. S = IF r \in S THEN W \cup {r} ELSE W
    BY ZenonT(40)
  <2>3. T = IF r \in T THEN W \cup {r} ELSE W
    BY ZenonT(40)
  <2>4. r \notin W
    BY ZenonT(40)
  <2>. HIDE DEF W
  <2>5. IsFiniteSet(S) /\ Cardinality(S) = Cardinality(W) + One(r \in S)
    <3>. DEFINE b == r \in S
    <3>1. b \in BOOLEAN /\ S = IF b THEN W \cup {r} ELSE W
      BY <2>2
    <3>. HIDE DEF b
    <3>2. IsFiniteSet(S) /\ Cardinality(S) = Cardinality(W) + One(b)
      BY ZenonT(40), <2>1, <2>4, <3>1, AddOne
    <3>. QED BY ZenonT(40), <3>2 DEF b
  <2>6. IsFiniteSet(T) /\ Cardinality(T) = Cardinality(W) + One(r \in T)
    <3>. DEFINE b == r \in T
    <3>1. b \in BOOLEAN /\ T = IF b THEN W \cup {r} ELSE W
      BY <2>3
    <3>. HIDE DEF b
    <3>2. IsFiniteSet(T) /\ Cardinality(T) = Cardinality(W) + One(b)
      BY ZenonT(40), <2>1, <2>4, <3>1, AddOne
    <3>. QED BY ZenonT(40), <3>2 DEF b
  <2>7. Cardinality(W) \in Nat /\ Cardinality(S) \in Nat /\ Cardinality(T) \in Nat
    BY ZenonT(40), <2>1, <2>5, <2>6, FS_CardinalityType
  <2>. QED BY SMTT(30), <2>5, <2>6, <2>7 DEF One
\* The descriptors that stand for a file are finitely many.
<1>FdsFinite. ASSUME NEW os, NEW f
              PROVE  IsFiniteSet(Fds(os, f)) /\ Cardinality(Fds(os, f)) \in Nat
  <2>. USE <1>FdsFinite
  <2>1. IsFiniteSet(Procs) /\ IsFiniteSet(1 .. NOFILE)
    BY FsAssumption, FS_Interval DEF FsAssumption
  <2>2. IsFiniteSet(Procs \X (1 .. NOFILE))
    BY ZenonT(40), <2>1, FS_Product
  <2>3. Fds(os, f) \in SUBSET (Procs \X (1 .. NOFILE))
    BY ZenonT(40) DEF Fds
  <2>. QED BY SMTT(30), <2>2, <2>3, FS_Subset, FS_CardinalityType
<1>RefdsIs. ASSUME IInv, NEW p \in Procs, NEW fd \in 1 .. NOFILE, NEW x \in 0 .. NFILE,
                   ofile' = [ofile EXCEPT ![p][fd] = x]
            PROVE  Refds(p, fd, x)
  <2>. USE <1>RefdsIs
  <2>1. ofile \in [Procs -> [1 .. NOFILE -> 0 .. NFILE]]
    BY ZenonT(40) DEF IInv, Shape
  <2>. QED BY ZenonT(40), <2>1 DEF Refds
\* One descriptor changes the file it stands for.
<1>FdMoves. ASSUME NEW p \in Procs, NEW fd \in 1 .. NOFILE, NEW x, Refds(p, fd, x), NEW f
            PROVE  /\ Cardinality(Fds(ofile', f)) \in Nat /\ Cardinality(Fds(ofile, f)) \in Nat
                   /\ Cardinality(Fds(ofile', f)) + One(ofile[p][fd] = f)
                      = Cardinality(Fds(ofile, f)) + One(x = f)
  <2>. USE <1>FdMoves
  <2>. DEFINE r == <<p, fd>>
              S == Fds(ofile, f)
              T == Fds(ofile', f)
  <2>1. r \in Procs \X (1 .. NOFILE) /\ r[1] = p /\ r[2] = fd
    BY ZenonT(40)
  <2>2. (r \in S <=> ofile[p][fd] = f) /\ (r \in T <=> x = f)
    BY ZenonT(40), <2>1 DEF Fds, Refds
  <2>3. ASSUME NEW s \in Procs \X (1 .. NOFILE), s # r PROVE s \in S <=> s \in T
    <3>1. s[1] \in Procs /\ s[2] \in 1 .. NOFILE /\ (s[1] # p \/ s[2] # fd)
      BY <2>3
    <3>2. ofile'[s[1]][s[2]] = ofile[s[1]][s[2]]
      BY ZenonT(40), <3>1 DEF Refds
    <3>. QED BY ZenonT(40), <3>2 DEF Fds
  <2>4. S \subseteq Procs \X (1 .. NOFILE) /\ T \subseteq Procs \X (1 .. NOFILE)
    BY ZenonT(40) DEF Fds
  <2>5. IsFiniteSet(S)
    BY ZenonT(40), <1>FdsFinite
  <2>. HIDE DEF r, S, T
  <2>6. S \ {r} = T \ {r}
    BY ZenonT(40), <2>3, <2>4
  <2>7. /\ Cardinality(S) \in Nat /\ Cardinality(T) \in Nat
        /\ Cardinality(T) + One(r \in S) = Cardinality(S) + One(r \in T)
    BY ZenonT(40), <2>5, <2>6, <1>SwapOne
  <2>8. One(r \in S) = One(ofile[p][fd] = f) /\ One(r \in T) = One(x = f)
    BY ZenonT(40), <2>2 DEF One
  <2>. QED BY ZenonT(40), <2>7, <2>8 DEF S, T
<1>OpensMove. ASSUME NEW fs, NEW gs, NEW f \in 1 .. NFILE, Apart(fs, gs, f), NEW i
              PROVE  /\ Cardinality(Opens(fs, i)) \in Nat /\ Cardinality(Opens(gs, i)) \in Nat
                     /\ Cardinality(Opens(gs, i)) + One(fs[f].ref > 0 /\ fs[f].ip = i)
                        = Cardinality(Opens(fs, i)) + One(gs[f].ref > 0 /\ gs[f].ip = i)
  <2>. USE <1>OpensMove
  <2>. DEFINE S == Opens(fs, i)
              T == Opens(gs, i)
  <2>1. (f \in S <=> fs[f].ref > 0 /\ fs[f].ip = i) /\ (f \in T <=> gs[f].ref > 0 /\ gs[f].ip = i)
    BY ZenonT(40) DEF Opens
  <2>2. S \ {f} = T \ {f}
    BY ZenonT(40) DEF Opens, Apart
  <2>3. IsFiniteSet(S)
    BY OpensCount
  <2>. HIDE DEF S, T
  <2>4. /\ Cardinality(S) \in Nat /\ Cardinality(T) \in Nat
        /\ Cardinality(T) + One(f \in S) = Cardinality(S) + One(f \in T)
    BY ZenonT(40), <2>2, <2>3, <1>SwapOne
  <2>5. One(f \in S) = One(fs[f].ref > 0 /\ fs[f].ip = i)
        /\ One(f \in T) = One(gs[f].ref > 0 /\ gs[f].ip = i)
    BY ZenonT(40), <2>1 DEF One
  <2>. QED BY ZenonT(40), <2>4, <2>5 DEF S, T
<1>FilesMoved. ASSUME IInv, NEW p \in Procs, NEW fd \in 1 .. NOFILE, NEW x, NEW f \in 1 .. NFILE, NEW g,
                      FileMoves(p, fd, x, f, g), NEW m
               PROVE  Files(p, m)
  <2>. USE <1>FilesMoved
  <2>1. /\ Refds(p, fd, x) /\ cwd' = cwd /\ cwd[p] # 0
        /\ ftable' = [ftable EXCEPT ![f] = g] /\ g \in File /\ (g.ref > 0 => g.ip # 0)
        /\ g.ref + One(ofile[p][fd] = f) = ftable[f].ref + One(x = f)
        /\ \A h \in 1 .. NFILE : h # f => x # h /\ ofile[p][fd] # h
    BY ZenonT(40) DEF FileMoves
  <2>2. ftable \in [1 .. NFILE -> File] /\ cwd \in [Procs -> 0 .. NINODES]
    BY DEF IInv, Shape, File
  <2>3. /\ ftable' \in [1 .. NFILE -> File] /\ ftable'[f] = g
        /\ \A h \in 1 .. NFILE : h # f => ftable'[h] = ftable[h]
    BY ZenonT(40), <2>1, <2>2
  <2>4. \A h \in 1 .. NFILE : ftable'[h].ref > 0 => ftable'[h].ip # 0
    BY ZenonT(40), <2>1, <2>3 DEF IInv, Roles
  <2>5. ASSUME NEW h \in 1 .. NFILE
        PROVE  ftable'[h].ref = Cardinality(Fds(ofile', h))
    <3>1. /\ Cardinality(Fds(ofile', h)) \in Nat /\ Cardinality(Fds(ofile, h)) \in Nat
          /\ Cardinality(Fds(ofile', h)) + One(ofile[p][fd] = h)
             = Cardinality(Fds(ofile, h)) + One(x = h)
      BY SMTT(30), <2>1, <1>FdMoves
    <3>2. ftable[h].ref = Cardinality(Fds(ofile, h))
      BY ZenonT(40) DEF IInv, RefsCounted
    <3>3. CASE h = f
      <4>1. ftable'[h].ref \in Int
        BY ZenonT(40), <2>3 DEF File
      <4>. QED BY SMTT(30), <2>1, <2>3, <3>1, <3>2, <3>3, <4>1 DEF One
    <3>4. CASE h # f
      BY SMTT(30), <2>1, <2>3, <3>1, <3>2, <3>4 DEF One
    <3>. QED BY SMTT(30), <3>3, <3>4
  <2>6. /\ ofile' \in [Procs -> [1 .. NOFILE -> 0 .. NFILE]]
        /\ \A q \in Procs \ {p} : ofile'[q] = ofile[q]
    BY ZenonT(40), <2>1 DEF Refds
  <2>. QED BY ZenonT(40), <2>1, <2>2, <2>3, <2>4, <2>5, <2>6 DEF Files, File
<1>ActsOpen. ASSUME IInv, NEW p \in Procs, NEW i \in Inums, Wrote(i), Fetched(i), NEW b, Unlocks(p, i, b)
             PROVE  Acts(p, 0, 0, b)
  <2>. USE <1>ActsOpen
  <2>1. itable \in Tables /\ disk \in AnyImage /\ 0 \notin Inums
    BY DEF IInv, Shape, Inums
  <2>2. /\ \A j \in Inums : itable[j].ref \in Int /\ j # 0
        /\ disk' \in AnyImage /\ disk'.inode[i].type # "none"
        /\ \A j \in Inums : j # i => disk'.inode[j] = disk.inode[j]
    BY ZenonT(40), <2>1 DEF Tables, Wrote
  <2>3. CASE b = 0 /\ itable[i].lock = {}
    <3>1. \A j \in Inums : itable'[j].lock = itable[j].lock
      BY ZenonT(40), <2>3 DEF Fetched
    <3>. QED BY SMTT(30), <2>1, <2>2, <2>3, <3>1 DEF Acts, Synced, One, Fetched
  <2>4. CASE b = i /\ LockedAt(loc[p], i)
    BY SMTT(30), <2>1, <2>2, <2>4 DEF Acts, Synced, One, Fetched
  <2>. QED BY ZenonT(40), <2>3, <2>4, Reads DEF Unlocks
<1>FetchedIs. ASSUME IInv, NEW p \in Procs, NEW i \in Inums, NEW b, Unlocks(p, i, b)
              PROVE  /\ disk.inode[i].type # "none" /\ iunlock(Loaded(itable, i), i)[i].mem = disk.inode[i]
                     /\ itable' = iunlock(Loaded(itable, i), i) /\ disk'.inode[i] = disk.inode[i] => Fetched(i)
                     /\ itable' = InMemory(iunlock(Loaded(itable, i), i), i, disk'.inode[i])
                        /\ disk'.inode[i] \in AnyInode => Fetched(i)
  <2>. USE <1>FetchedIs
  <2>. DEFINE t == Loaded(itable, i)
              u == iunlock(t, i)
              v == InMemory(u, i, disk'.inode[i])
  <2>1. itable \in Tables /\ disk \in AnyImage
    BY ZenonT(40) DEF IInv, Shape
  <2>2. disk.inode[i].type # "none" /\ (itable[i].valid => itable[i].mem = disk.inode[i])
    BY ZenonT(40), Reads, ReadsLocked DEF Unlocks
  <2>3. /\ t \in Tables
        /\ \A j \in Inums : /\ t[j].ref = itable[j].ref
                            /\ t[j].valid <=> itable[j].valid \/ j = i
                            /\ t[j].lock = itable[j].lock
                            /\ t[j].mem = IF j = i /\ ~itable[j].valid THEN disk.inode[j]
                                                                       ELSE itable[j].mem
    BY <2>1, LoadedIs
  <2>. HIDE DEF t
  <2>4. /\ u \in Tables
        /\ \A j \in Inums : /\ u[j].ref = t[j].ref
                            /\ u[j].valid = t[j].valid
                            /\ u[j].lock = IF j = i THEN {} ELSE t[j].lock
                            /\ u[j].mem = t[j].mem
    BY ZenonT(40), <2>3, IunlockIs
  <2>. HIDE DEF u
  <2>5. /\ \A j \in Inums : /\ u[j].ref = itable[j].ref
                            /\ u[j].valid <=> itable[j].valid \/ j = i
                            /\ j # i => u[j].lock = itable[j].lock
                            /\ j # i => u[j].mem = itable[j].mem
        /\ u[i].lock = {} /\ u[i].mem = disk.inode[i]
    BY SMTT(30), <2>2, <2>3, <2>4
  <2>6. itable' = u /\ disk'.inode[i] = disk.inode[i] => Fetched(i)
    BY ZenonT(40), <2>4, <2>5 DEF Fetched
  <2>7. ASSUME itable' = v, disk'.inode[i] \in AnyInode PROVE Fetched(i)
    <3>1. /\ v \in Tables
          /\ \A j \in Inums : /\ v[j].ref = u[j].ref
                              /\ v[j].valid = u[j].valid
                              /\ v[j].lock = u[j].lock
                              /\ v[j].mem = IF j = i THEN disk'.inode[i] ELSE u[j].mem
      BY SMTT(30), <2>4, <2>7, InMemoryIs
    <3>. HIDE DEF v
    <3>. QED BY SMTT(30), <2>5, <2>7, <3>1 DEF Fetched
  <2>. QED BY ZenonT(40), <2>2, <2>5, <2>6, <2>7 DEF t, u, v
\* Where sys_open() is when it has its inode: found, or created and locked.
<1>OpenAt. ASSUME IInv, NEW p \in Procs, sys_open(p)
           PROVE  /\ loc[p] \in Locs /\ RolesOf(loc[p]) /\ loc[p].pc \in {"found", "created"}
                  /\ loc[p].puts = <<>> /\ loc[p].stage = "drop" /\ booted /\ cwd[p] \in Inums
                  /\ loc[p].ip \in Inums /\ loc[p].dp = 0 /\ loc[p].old = 0
                  /\ \E b \in 0 .. NINODES : /\ Unlocks(p, loc[p].ip, b)
                                             /\ \A j \in Inums : Atop(loc[p].pc, loc[p].ip, loc[p].dp, j)
                                                                 <=> j = b
  <2>. USE <1>OpenAt
  <2>. DEFINE l == loc[p]
  <2>1. CASE Found(p, {"open"})
    <3>1. /\ l \in Locs /\ RolesOf(l) /\ l.pc = "found" /\ l.puts = <<>> /\ l.stage = "drop"
          /\ booted /\ cwd[p] \in Inums /\ l.call.op = "open" /\ l.dp = 0 /\ l.ip \in Inums
          /\ CanLock(l.ip)
      BY <2>1, AtFound
    <3>2. l.old = 0
      BY ZenonT(40), <3>1 DEF RolesOf
    <3>3. Unlocks(p, l.ip, 0) /\ 0 \in 0 .. NINODES
      BY ZenonT(40), <3>1, Holding DEF Unlocks
    <3>4. \A j \in Inums : Atop(l.pc, l.ip, l.dp, j) <=> j = 0
      BY ZenonT(40), <3>1, Holding DEF Atop
    <3>. QED BY ZenonT(40), <3>1, <3>2, <3>3, <3>4
  <2>2. CASE Runs(p, "created")
    <3>1. /\ l \in Locs /\ RolesOf(l) /\ l.pc = "created" /\ l.puts = <<>> /\ l.stage = "drop"
          /\ booted /\ cwd[p] # 0
      BY SMTT(30), <2>2, At
    <3>2. l.old = 0 /\ l.dp = 0 /\ l.ip # 0 /\ LockedAt(l, l.ip)
      BY ZenonT(40), <3>1 DEF RolesOf, LockedAt
    <3>3. l.ip \in Inums /\ cwd[p] \in Inums /\ l.ip \in 0 .. NINODES
      BY ZenonT(40), <3>1, <3>2, Holding
    <3>4. Unlocks(p, l.ip, l.ip)
      BY ZenonT(40), <3>1, <3>2 DEF Unlocks
    <3>5. \A j \in Inums : Atop(l.pc, l.ip, l.dp, j) <=> j = l.ip
      BY ZenonT(40), <3>1, <3>2, Holding DEF Atop
    <3>. QED BY SMTT(30), <3>1, <3>2, <3>3, <3>4, <3>5
  <2>. QED BY ZenonT(40), <2>1, <2>2 DEF sys_open
\* O_TRUNC, or not, leaves the inode in the table as on the disk.
<1>OpenFetches. ASSUME IInv, NEW p \in Procs, NEW i \in Inums, NEW b, Unlocks(p, i, b), NEW trunc, NEW t, NEW d,
                       t = iunlock(Loaded(itable, i), i), d = itrunc(disk, i, t[i].mem),
                       disk' = IF trunc THEN d ELSE disk,
                       itable' = IF trunc THEN InMemory(t, i, d.inode[i]) ELSE t
                PROVE  Wrote(i) /\ Fetched(i) /\ OwnedIn(disk')
  <2>. USE <1>OpenFetches
  <2>1. disk \in AnyImage /\ OwnedIn(disk)
    BY ZenonT(40) DEF IInv, Shape, Owned
  <2>2. disk.inode[i].type # "none" /\ t[i].mem = disk.inode[i]
    BY ZenonT(40), <1>FetchedIs
  <2>3. CASE ~trunc
    <3>1. disk' = disk /\ itable' = iunlock(Loaded(itable, i), i)
      BY ZenonT(40), <2>3
    <3>. QED BY SMTT(30), <2>1, <2>2, <3>1, <1>FetchedIs DEF Wrote
  <2>4. CASE trunc
    <3>. DEFINE m == disk.inode[i]
    <3>1. m \in AnyInode
      BY ZenonT(40), InodeIs
    <3>2. disk' = itrunc(disk, i, m)
      BY ZenonT(40), <2>2, <2>4
    <3>. HIDE DEF m
    <3>3. /\ disk' \in AnyImage /\ disk'.ind = disk.ind
          /\ disk'.used = disk.used \ {BlockAt(disk, m, k) : k \in Slots(disk, m)}
          /\ \A j \in Inums : j # i => disk'.inode[j] = disk.inode[j]
          /\ disk'.inode[i].type = m.type
          /\ disk'.inode[i].size = 0 /\ disk'.inode[i].addrs = NoInode.addrs
      BY SMTT(30), <2>1, <3>1, <3>2, ItruncIs
    <3>4. Truncated(disk', disk, i)
      BY ZenonT(40), <3>3 DEF Truncated, m
    <3>5. OwnedIn(disk')
      BY ZenonT(40), <2>1, <3>4, TruncOwned
    <3>6. Wrote(i)
      BY SMTT(30), <2>2, <3>3 DEF Wrote, m
    <3>7. disk'.inode[i] \in AnyInode
      <4>1. disk'.inode \in [Inums -> AnyInode]
        BY ZenonT(40), <3>3 DEF AnyImage
      <4>. QED BY ZenonT(40), <4>1
    <3>8. itable' = InMemory(iunlock(Loaded(itable, i), i), i, disk'.inode[i])
      BY <2>4
    <3>9. Fetched(i)
      BY ZenonT(40), <3>7, <3>8, <1>FetchedIs
    <3>. QED BY SMTT(30), <3>5, <3>6, <3>9
  <2>. QED BY SMTT(30), <2>3, <2>4
\* sys_open() with its inode: filealloc(), fdalloc(), O_TRUNC, or an error path.
<1>OpenKept. ASSUME IInv, NEW p \in Procs, sys_open(p), prog' = prog
             PROVE  IInv'
  <2>. USE <1>OpenKept
  <2>. DEFINE l == loc[p]
              i == l.ip
              t == iunlock(Loaded(itable, i), i)
              f == Min(FreeFiles)
              fd == Min(FreeFds(p))
              d == itrunc(disk, i, t[i].mem)
              trunc == l.call.mode = "trunc" /\ t[i].mem.type = "file"
              g == [ref |-> 1, ip |-> i, writable |-> l.call.mode # "read"]
  <2>1. /\ l \in Locs /\ RolesOf(l) /\ l.pc \in {"found", "created"}
        /\ l.puts = <<>> /\ l.stage = "drop" /\ booted /\ cwd[p] \in Inums
        /\ i \in Inums /\ l.dp = 0 /\ l.old = 0
    BY <1>OpenAt
  <2>2. PICK b \in 0 .. NINODES : /\ Unlocks(p, i, b)
                                  /\ \A j \in Inums : Atop(l.pc, i, l.dp, j) <=> j = b
    BY ZenonT(40), <1>OpenAt
  <2>3. \/ itable' = t /\ Ends(p, <<i>>) /\ disk' = disk /\ ftable' = ftable /\ ofile' = ofile
        \/ /\ FreeFiles # {} /\ FreeFds(p) # {} /\ ftable' = [ftable EXCEPT ![f] = g]
           /\ ofile' = [ofile EXCEPT ![p][fd] = f] /\ disk' = IF trunc THEN d ELSE disk
           /\ itable' = IF trunc THEN InMemory(t, i, d.inode[i]) ELSE t
           /\ Ends(p, <<>>)
    BY ZenonT(40) DEF sys_open
  <2>4. durable' = durable /\ cwd' = cwd /\ Stays
    BY ZenonT(40), <2>1 DEF sys_open, Stays
  <2>5. /\ <<i>> \in Seq(Inums) /\ Len(<<i>>) <= 2 /\ <<>> \in Seq(Inums) /\ Len(<<>>) <= 2
        /\ i # 0 /\ cwd[p] # 0 /\ 0 \in 0 .. NINODES /\ i \in 0 .. NINODES
    <3>1. i # 0 /\ cwd[p] # 0 /\ 0 \in 0 .. NINODES /\ i \in 0 .. NINODES
      BY ZenonT(40), <2>1, Holding
    <3>. QED BY SMTT(30), <2>1, <3>1, PutsIs
  <2>6. CASE itable' = t /\ Ends(p, <<i>>) /\ disk' = disk /\ ftable' = ftable /\ ofile' = ofile
    <3>1. disk.inode[i].type # "none" /\ Fetched(i)
      BY ZenonT(40), <2>1, <2>2, <2>6, <1>FetchedIs
    <3>2. Wrote(i) /\ OwnedIn(disk')
      BY SMTT(30), <2>6, <3>1 DEF Wrote, IInv, Shape, Owned
    <3>3. Acts(p, 0, 0, b)
      BY ZenonT(40), <2>1, <2>2, <3>1, <3>2, <1>ActsOpen
    <3>4. \A j \in Inums : One(cwd[p] = j) + Puts(<<i>>, j)
                           = Count(l.pc, cwd[p], l.ip, l.dp, l.old, <<>>, j)
      BY <2>1, PutsIs DEF Count, One, Inums
    <3>5. PICK m : Advances(p, m, "end", 0, 0, 0, <<>>, <<i>>, 0, 0, b)
      BY ZenonT(40), <2>1, <2>2, <2>5, <2>6, <3>4, EndsTo
    <3>6. Still
      BY ZenonT(40), <2>4, <2>6 DEF Still
    <3>. QED BY ZenonT(40), <3>2, <3>3, <3>5, <3>6, <1>StepKept
  <2>7. CASE /\ FreeFiles # {} /\ FreeFds(p) # {} /\ ftable' = [ftable EXCEPT ![f] = g]
             /\ ofile' = [ofile EXCEPT ![p][fd] = f] /\ disk' = IF trunc THEN d ELSE disk
             /\ itable' = IF trunc THEN InMemory(t, i, d.inode[i]) ELSE t
             /\ Ends(p, <<>>)
    <3>1. f \in 1 .. NFILE /\ ftable[f].ref = 0
      <4>1. FreeFiles \subseteq Nat
        BY DEF FreeFiles
      <4>2. f \in FreeFiles
        BY ZenonT(40), <2>7, <4>1, LeastIn
      <4>. HIDE DEF f
      <4>. QED BY ZenonT(40), <4>2 DEF FreeFiles
    <3>2. fd \in 1 .. NOFILE /\ ofile[p][fd] = 0
      <4>1. FreeFds(p) \subseteq Nat
        BY DEF FreeFds
      <4>2. fd \in FreeFds(p)
        BY ZenonT(40), <2>7, <4>1, LeastIn
      <4>. HIDE DEF fd
      <4>. QED BY ZenonT(40), <4>2 DEF FreeFds
    <3>3. Wrote(i) /\ Fetched(i) /\ OwnedIn(disk')
      <4>. HIDE DEF trunc
      <4>. QED BY ZenonT(40), <2>1, <2>2, <2>7, <1>OpenFetches
    <3>. HIDE DEF t, d, trunc, f, fd
    <3>4. Acts(p, 0, 0, b)
      BY ZenonT(40), <2>1, <2>2, <3>3, <1>ActsOpen
    <3>5. g \in File /\ g.ref = 1 /\ g.ip = i
      BY <2>5 DEF File
    <3>6. ftable' = [ftable EXCEPT ![f] = g] /\ ofile' = [ofile EXCEPT ![p][fd] = f] /\ Ends(p, <<>>)
      BY ZenonT(40), <2>7
    <3>. HIDE DEF g
    <3>7. Refds(p, fd, f)
      <4>1. f \in 0 .. NFILE
        BY <3>1
      <4>. QED BY ZenonT(40), <3>2, <3>6, <4>1, <1>RefdsIs
    <3>8. FileMoves(p, fd, f, f, g)
      BY SMTT(30), <2>4, <2>5, <3>1, <3>2, <3>5, <3>6, <3>7 DEF FileMoves, One
    <3>9. PICK m : /\ Is(m, l, "end", 0, 0, 0, <<>>, <<>>) /\ loc' = [loc EXCEPT ![p] = m]
                   /\ RolesOf(m)
      BY ZenonT(40), <2>1, <2>5, <3>6, EndsIs
    <3>10. Files(p, m)
      BY SMTT(30), <3>1, <3>2, <3>8, <1>FilesMoved
    <3>11. \A j \in Inums : Atop("end", 0, 0, j) <=> j = 0 \/ (Atop(l.pc, i, l.dp, j) /\ j # b)
      BY ZenonT(40), <2>2, Holding DEF Atop
    <3>12. Moves(p, m, 0, b)
      BY ZenonT(40), <2>1, <3>9, <3>11, <1>MovesTo
    <3>13. ASSUME NEW j \in Inums
           PROVE  Mine(m, cwd'[p], j) + Cardinality(Opens(ftable', j))
                  = Mine(l, cwd[p], j) + Cardinality(Opens(ftable, j)) + One(j = 0)
      <4>1. Mine(m, cwd'[p], j) = One(cwd[p] = j)
        <5>1. Mine(m, cwd[p], j) = Count("end", cwd[p], 0, 0, 0, <<>>, j)
          BY SMTT(30), <3>9, <1>MineIs
        <5>. QED BY SMTT(30), <2>4, <5>1, PutsIs DEF Count, One, Inums
      <4>2. Mine(l, cwd[p], j) = One(cwd[p] = j) + One(i = j) /\ One(j = 0) = 0
        BY SMTT(30), <2>1 DEF Mine, One, Inums
      <4>3. /\ Cardinality(Opens(ftable, j)) \in Nat /\ Cardinality(Opens(ftable', j)) \in Nat
            /\ Cardinality(Opens(ftable', j)) + One(ftable[f].ref > 0 /\ ftable[f].ip = j)
               = Cardinality(Opens(ftable, j)) + One(ftable'[f].ref > 0 /\ ftable'[f].ip = j)
        <5>1. Apart(ftable, ftable', f)
          BY ZenonT(40), <3>1, <3>6 DEF IInv, Shape, Apart
        <5>. QED BY SMTT(30), <3>1, <5>1, <1>OpensMove
      <4>4. ftable'[f] = g
        BY ZenonT(40), <3>1, <3>6 DEF IInv, Shape
      <4>5. /\ One(ftable[f].ref > 0 /\ ftable[f].ip = j) = 0
            /\ One(ftable'[f].ref > 0 /\ ftable'[f].ip = j) = One(i = j)
        BY SMTT(30), <3>1, <3>5, <4>4 DEF One
      <4>6. \A x : One(x) \in Nat
        BY ZenonT(40) DEF One
      <4>. QED BY SMTT(30), <4>1, <4>2, <4>3, <4>5, <4>6
    <3>. QED BY SMTT(30), <2>4, <2>5, <3>3, <3>4, <3>10, <3>12, <3>13, <1>Kept
  <2>. QED BY ZenonT(40), <2>3, <2>6, <2>7
\* Descriptors name files that are open, of processes that have a directory.
<1>FdOpen. ASSUME IInv, NEW p \in Procs, NEW fd \in 1 .. NOFILE, ofile[p][fd] # 0
           PROVE  LET f == ofile[p][fd]
                  IN  /\ f \in 1 .. NFILE /\ ftable[f].ref > 0 /\ ftable[f].ip \in Inums
                      /\ ftable[f] \in File /\ cwd[p] # 0
  <2>. USE <1>FdOpen
  <2>. DEFINE f == ofile[p][fd]
  <2>1. /\ f \in 1 .. NFILE /\ ftable[f].ref \in Int /\ ftable[f].ip \in 0 .. NINODES
        /\ ftable[f] \in File
    <3>1. f \in 0 .. NFILE /\ ftable \in [1 .. NFILE -> File]
      BY ZenonT(40) DEF IInv, Shape, File
    <3>2. f # 0
      BY ZenonT(40)
    <3>. HIDE DEF f
    <3>3. f \in 1 .. NFILE
      BY SMTT(30), <3>1, <3>2, Sizes
    <3>4. ftable[f] \in File
      BY ZenonT(40), <3>1, <3>3
    <3>. QED BY ZenonT(40), <3>3, <3>4 DEF File
  <2>2. <<p, fd>> \in Fds(ofile, f)
    BY ZenonT(40) DEF Fds
  <2>3. Cardinality(Fds(ofile, f)) # 0 /\ Cardinality(Fds(ofile, f)) \in Nat
    BY ZenonT(40), <2>2, <1>FdsFinite, FS_EmptySet
  <2>4. ftable[f].ref > 0 /\ ftable[f].ip # 0
    BY SMTT(30), <2>1, <2>3 DEF IInv, RefsCounted, Roles
  <2>5. ftable[f].ip \in Inums
    BY SMTT(30), <2>1, <2>4, Sizes DEF Inums
  <2>6. cwd[p] # 0
    BY DEF IInv, Roles
  <2>. QED BY ZenonT(40), <2>1, <2>4, <2>5, <2>6
\* A process between calls, or in kexit(), holds only its current directory.
<1>Resting. ASSUME IInv, NEW p \in Procs, NEW s \in {"idle", "exit"}, Runs(p, s)
            PROVE  /\ loc[p] \in Locs /\ loc[p].pc = s /\ loc[p].puts = <<>> /\ loc[p].stage = "drop"
                   /\ loc[p].ip = 0 /\ loc[p].dp = 0 /\ loc[p].old = 0 /\ booted
                   /\ \A c, j : j # 0 => Mine(loc[p], c, j) = One(c = j)
                   /\ \A c, j : j # 0 => Count(s, c, loc[p].ip, loc[p].dp, loc[p].old, <<>>, j) = One(c = j)
                   /\ \A j : j # 0 => ~Atop(loc[p].pc, loc[p].ip, loc[p].dp, j)
  <2>. USE <1>Resting
  <2>1. /\ loc[p] \in Locs /\ RolesOf(loc[p]) /\ loc[p].pc = s /\ loc[p].puts = <<>>
        /\ loc[p].stage = "drop" /\ booted
    BY At
  <2>2. loc[p].ip = 0 /\ loc[p].dp = 0 /\ loc[p].old = 0
    BY ZenonT(40), <2>1 DEF RolesOf
  <2>3. \A c, j : j # 0 => Mine(loc[p], c, j) = One(c = j)
    BY SMTT(30), <2>1, <2>2 DEF Mine, One
  <2>4. \A c, j : j # 0 => Count(s, c, loc[p].ip, loc[p].dp, loc[p].old, <<>>, j) = One(c = j)
    BY SMTT(30), <2>2, PutsIs DEF Count, One
  <2>5. \A j : j # 0 => ~Atop(loc[p].pc, loc[p].ip, loc[p].dp, j)
    BY ZenonT(40), <2>1, <2>2 DEF Atop
  <2>. QED BY ZenonT(40), <2>1, <2>2, <2>3, <2>4, <2>5
\* sys_chdir() sets the current directory (sysfile.c:430).
<1>ChdirDoneKept. ASSUME IInv, NEW p \in Procs, ChdirDone(p), prog' = prog
                  PROVE  IInv'
  <2>. USE <1>ChdirDoneKept
  <2>. DEFINE l == loc[p]
              i == l.ip
  <2>1. /\ l \in Locs /\ RolesOf(l) /\ l.pc = "chdir" /\ l.puts = <<>> /\ l.stage = "drop"
        /\ booted /\ cwd[p] # 0
    BY At DEF ChdirDone
  <2>2. l.dp = 0 /\ l.old = 0 /\ i # 0
    BY ZenonT(40), <2>1 DEF RolesOf
  <2>3. i \in Inums /\ i \in 0 .. NINODES /\ 0 \in 0 .. NINODES
    BY ZenonT(40), <2>2, Holding
  <2>4. /\ cwd' = [cwd EXCEPT ![p] = i] /\ loc' = [loc EXCEPT ![p] = Idle] /\ disk' = disk
        /\ itable' = itable /\ ftable' = ftable /\ ofile' = ofile /\ Stays
        /\ durable' = durable \/ durable' = disk
    BY ZenonT(40), <2>1 DEF ChdirDone, Goes, Stays, Commit
  <2>5. Acts(p, 0, 0, 0) /\ OwnedIn(disk')
    BY <2>4, ActsSame DEF SameDisk, IInv, Owned
  <2>6. Is(Idle, l, "idle", 0, 0, 0, <<>>, <<>>) /\ RolesOf(Idle)
    BY ZenonT(40), <2>1, IdleIs DEF Is
  <2>7. \A j \in Inums : Atop("idle", 0, 0, j) <=> j = 0 \/ (Atop(l.pc, i, l.dp, j) /\ j # 0)
    BY ZenonT(40), <2>1, <2>2, Holding DEF Atop
  <2>8. Moves(p, Idle, 0, 0)
    BY ZenonT(40), <2>1, <2>4, <2>6, <2>7, <1>MovesTo
  <2>9. cwd'[p] = i /\ cwd' \in [Procs -> 0 .. NINODES] /\ \A q \in Procs \ {p} : cwd'[q] = cwd[q]
    BY SMTT(30), <2>3, <2>4 DEF IInv, Shape
  <2>10. Files(p, Idle)
    <3>1. /\ ftable \in [1 .. NFILE -> File]
          /\ ofile \in [Procs -> [1 .. NOFILE -> 0 .. NFILE]]
          /\ \A f \in 1 .. NFILE : ftable[f].ref > 0 => ftable[f].ip # 0
          /\ \A f \in 1 .. NFILE : ftable[f].ref = Cardinality(Fds(ofile, f))
      BY DEF IInv, Shape, Roles, RefsCounted, File
    <3>. QED BY ZenonT(40), <2>2, <2>4, <2>9, <3>1 DEF Files, File
  <2>11. ASSUME NEW j \in Inums
         PROVE  Mine(Idle, cwd'[p], j) + Cardinality(Opens(ftable', j))
                = Mine(l, cwd[p], j) + Cardinality(Opens(ftable, j)) + One(j = 0)
    <3>1. Mine(Idle, i, j) = One(i = j) /\ Mine(l, cwd[p], j) = One(i = j) /\ One(j = 0) = 0
      BY SMTT(30), <2>1, <2>2, IdleIs DEF Mine, One, Inums
    <3>2. Cardinality(Opens(ftable, j)) \in Nat /\ One(i = j) \in Nat
      BY ZenonT(40), OpensCount DEF One
    <3>. QED BY SMTT(30), <2>4, <2>9, <3>1, <3>2
  <2>. QED BY SMTT(30), <2>3, <2>4, <2>5, <2>8, <2>10, <2>11, <1>Kept
\* filewrite() of one block, in a transaction of its own (file.c).
<1>FilewriteKept. ASSUME IInv, NEW p \in Procs, filewrite(p), prog' = prog
                  PROVE  IInv'
  <2>. USE <1>FilewriteKept
  <2>. DEFINE l == loc[p]
              m == [Idle EXCEPT !.pc = "end"]
  <2>1. /\ l \in Locs /\ l.pc = "idle" /\ l.puts = <<>> /\ l.stage = "drop" /\ booted
        /\ \A c, j : j # 0 => Count("idle", c, l.ip, l.dp, l.old, <<>>, j) = One(c = j)
        /\ \A j : j # 0 => ~Atop(l.pc, l.ip, l.dp, j)
    BY ZenonT(40), <1>Resting DEF filewrite
  <2>2. PICK fd \in 1 .. NOFILE, bn \in 0 .. MAXFILE - 1, copied \in BOOLEAN :
          LET f == ftable[ofile[p][fd]]
              t == Loaded(itable, f.ip)
              k == t[f.ip].mem
              d == writei(disk, f.ip, k, bn, copied)
          IN  /\ ofile[p][fd] # 0 /\ f.writable /\ CanLock(f.ip)
              /\ k.type = "file" /\ bn <= k.size
              /\ disk' = d
              /\ itable' = InMemory(t, f.ip, d.inode[f.ip])
    BY ZenonT(40) DEF filewrite
  <2>. DEFINE i == ftable[ofile[p][fd]].ip
              n == disk.inode[i]
  <2>3. i \in Inums
    BY ZenonT(40), <2>2, <1>FdOpen
  <2>4. /\ CanLock(i) /\ disk' = writei(disk, i, Loaded(itable, i)[i].mem, bn, copied)
        /\ itable' = InMemory(Loaded(itable, i), i, disk'.inode[i])
        /\ bn <= Loaded(itable, i)[i].mem.size
    BY ZenonT(40), <2>2
  <2>. HIDE DEF i
  <2>5. Loaded(itable, i)[i].mem = n /\ n.type # "none"
    BY ZenonT(40), <2>3, <2>4, Reads
  <2>6. disk \in AnyImage /\ OwnedIn(disk) /\ n \in AnyInode
    BY ZenonT(40), <2>3, InodeIs DEF IInv, Shape, Owned
  <2>7. disk' = writei(disk, i, n, bn, copied) /\ bn <= n.size
    BY <2>4, <2>5
  <2>8. Wrote(i) /\ OwnedIn(disk')
    <3>1. /\ disk' \in AnyImage /\ \A j \in Inums : j # i => disk'.inode[j] = disk.inode[j]
          /\ disk'.inode[i].type = n.type
      <4>. HIDE DEF n
      <4>. QED BY SMTT(30), <2>3, <2>6, <2>7, WriteiIs, Ordered
    <3>2. OwnedIn(disk')
      BY ZenonT(40), <2>3, <2>5, <2>6, <2>7, WriteiOwned, Ordered
    <3>. QED BY ZenonT(40), <2>5, <3>1, <3>2 DEF Wrote
  <2>9. Acts(p, 0, 0, 0)
    BY ZenonT(40), <2>3, <2>4, <2>8, ActsWrite
  <2>10. loc' = [loc EXCEPT ![p] = m] /\ Still
    BY ZenonT(40), <2>1 DEF filewrite, Goes, Still, Stays
  <2>11. Is(m, l, "end", 0, 0, 0, <<>>, <<>>)
    <3>1. "end" \in Places
      BY ZenonT(40) DEF Places
    <3>. QED BY ZenonT(40), <2>1, <3>1, IdleIs DEF Is, Locs
  <2>. HIDE DEF m
  <2>12. RolesOf(m)
    BY SMTT(30), <2>1, <2>11, PutsIs DEF RolesOf, Is, ForParent
  <2>13. \A j \in Inums : Atop("end", 0, 0, j) <=> j = 0 \/ (Atop(l.pc, l.ip, l.dp, j) /\ j # 0)
    BY ZenonT(40), <2>1, Holding DEF Atop
  <2>14. \A j \in Inums : Count("end", cwd[p], 0, 0, 0, <<>>, j)
                          = Count(l.pc, cwd[p], l.ip, l.dp, l.old, <<>>, j) + One(j = 0)
    <3>. SUFFICES ASSUME NEW j \in Inums
                  PROVE  Count("end", cwd[p], 0, 0, 0, <<>>, j)
                         = Count(l.pc, cwd[p], l.ip, l.dp, l.old, <<>>, j) + One(j = 0)
      BY ZenonT(40)
    <3>1. j # 0 /\ One(cwd[p] = j) \in Nat /\ One(j = 0) = 0
      BY DEF Inums, One
    <3>2. Count("end", cwd[p], 0, 0, 0, <<>>, j) = One(cwd[p] = j)
      BY <3>1, PutsIs DEF Count, One
    <3>. QED BY SMTT(30), <2>1, <3>1, <3>2
  <2>15. 0 \in 0 .. NINODES
    BY ZenonT(40), Holding
  <2>16. Advances(p, m, "end", 0, 0, 0, <<>>, <<>>, 0, 0, 0)
    BY ZenonT(40), <2>1, <2>10, <2>11, <2>12, <2>13, <2>14, <2>15 DEF Advances
  <2>. QED BY SMTT(30), <2>8, <2>9, <2>10, <2>16, <1>StepKept
\* A step that leaves a process where it is.
<1>Rests. ASSUME IInv, NEW p \in Procs, NEW s \in {"idle", "exit"}, Runs(p, s), loc' = loc
          PROVE  Moves(p, loc[p], 0, 0)
  <2>. USE <1>Rests
  <2>1. /\ loc[p] \in Locs /\ RolesOf(loc[p]) /\ loc[p].stage = "drop" /\ loc \in [Procs -> Locs]
    BY ZenonT(40), At DEF IInv, Shape
  <2>2. loc' = [loc EXCEPT ![p] = loc[p]]
    BY <2>1
  <2>3. \A j \in Inums : j # 0
    BY DEF Inums
  <2>. QED BY ZenonT(40), <2>1, <2>2, <2>3 DEF Moves
\* fileclose(): the last close of a file iput()s its inode (file.c).
<1>CloseKept. ASSUME IInv, NEW p \in Procs, NEW s \in {"idle", "exit"}, Runs(p, s), NEW fd \in 1 .. NOFILE,
                     NEW l, l = Idle \/ l = loc[p], CloseFd(p, fd, l), prog' = prog
              PROVE  IInv'
  <2>. USE <1>CloseKept
  <2>. DEFINE f == ofile[p][fd]
              i == ftable[f].ip
              c == cwd[p]
              m == [l EXCEPT !.pc = "end", !.puts = <<i>>]
              g == [ftable[f] EXCEPT !.ref = @ - 1]
  <2>1. /\ loc[p] \in Locs /\ loc[p].pc = s /\ loc[p].puts = <<>> /\ loc[p].stage = "drop" /\ booted
        /\ loc[p].ip = 0 /\ loc[p].dp = 0 /\ loc[p].old = 0
        /\ \A j : j # 0 => Mine(loc[p], c, j) = One(c = j)
        /\ \A j : j # 0 => ~Atop(loc[p].pc, loc[p].ip, loc[p].dp, j)
    <3>1. /\ loc[p] \in Locs /\ loc[p].pc = s /\ loc[p].puts = <<>> /\ loc[p].stage = "drop"
          /\ booted /\ loc[p].ip = 0 /\ loc[p].dp = 0 /\ loc[p].old = 0
      BY SMTT(30), <1>Resting
    <3>2. \A j : j # 0 => Mine(loc[p], c, j) = One(c = j)
      BY <3>1 DEF Mine, One
    <3>3. \A j : j # 0 => ~Atop(loc[p].pc, loc[p].ip, loc[p].dp, j)
      BY ZenonT(40), <3>1 DEF Atop
    <3>. QED BY ZenonT(40), <3>1, <3>2, <3>3
  <2>2. /\ f # 0 /\ ofile' = [ofile EXCEPT ![p][fd] = 0] /\ disk' = disk /\ durable' = durable
        /\ itable' = itable /\ cwd' = cwd /\ Stays
        /\ \/ ftable[f].ref > 1 /\ ftable' = [ftable EXCEPT ![f].ref = @ - 1] /\ loc' = loc
           \/ /\ ~(ftable[f].ref > 1) /\ ftable' = [ftable EXCEPT ![f] = NoFile]
              /\ loc' = [loc EXCEPT ![p] = m]
    BY ZenonT(40), <2>1 DEF CloseFd, Goes, Stays
  <2>3. /\ f \in 1 .. NFILE /\ ftable[f].ref > 0 /\ i \in Inums /\ ftable[f] \in File /\ c # 0
    BY ZenonT(40), <2>2, <1>FdOpen
  <2>4. ftable \in [1 .. NFILE -> File] /\ ofile \in [Procs -> [1 .. NOFILE -> 0 .. NFILE]]
        /\ ofile[p][fd] = f
    BY DEF IInv, Shape, File
  <2>5. Refds(p, fd, 0)
    <3>1. 0 \in 0 .. NFILE
      BY Sizes
    <3>. QED BY ZenonT(40), <2>2, <3>1, <1>RefdsIs
  <2>. HIDE DEF f
  <2>6. Acts(p, 0, 0, 0) /\ OwnedIn(disk') /\ 0 \in 0 .. NINODES
    BY ZenonT(40), <2>2, ActsSame, Holding DEF SameDisk, IInv, Owned
  <2>7. CASE ftable[f].ref > 1 /\ ftable' = [ftable EXCEPT ![f].ref = @ - 1] /\ loc' = loc
    <3>1. /\ g \in File /\ g.ref = ftable[f].ref - 1 /\ g.ip = i
          /\ ftable' = [ftable EXCEPT ![f] = g]
      BY SMTT(30), <2>3, <2>4, <2>7 DEF File
    <3>. HIDE DEF g
    <3>2. i # 0 /\ ftable[f].ref \in Int
      BY <2>3 DEF Inums, File
    <3>3. FileMoves(p, fd, 0, f, g)
      BY SMTT(30), <2>2, <2>3, <2>4, <2>5, <3>1, <3>2 DEF FileMoves, One
    <3>4. Files(p, loc[p])
      BY ZenonT(40), <2>3, <3>3, <1>FilesMoved
    <3>5. Moves(p, loc[p], 0, 0)
      BY SMTT(30), <2>7, <1>Rests
    <3>6. ASSUME NEW j \in Inums
          PROVE  Mine(loc[p], cwd'[p], j) + Cardinality(Opens(ftable', j))
                 = Mine(loc[p], cwd[p], j) + Cardinality(Opens(ftable, j)) + One(j = 0)
      <4>1. Apart(ftable, ftable', f) /\ ftable'[f] = g
        BY ZenonT(40), <2>3, <2>4, <3>1 DEF Apart
      <4>2. /\ Cardinality(Opens(ftable, j)) \in Nat /\ Cardinality(Opens(ftable', j)) \in Nat
            /\ Cardinality(Opens(ftable', j)) + One(ftable[f].ref > 0 /\ ftable[f].ip = j)
               = Cardinality(Opens(ftable, j)) + One(ftable'[f].ref > 0 /\ ftable'[f].ip = j)
        BY SMTT(30), <2>3, <4>1, <1>OpensMove
      <4>3. One(ftable[f].ref > 0 /\ ftable[f].ip = j) = One(ftable'[f].ref > 0 /\ ftable'[f].ip = j)
        <5>1. ftable'[f].ip = ftable[f].ip
          BY ZenonT(40), <3>1, <4>1
        <5>2. ftable'[f].ref > 0 /\ ftable[f].ref > 0
          BY SMTT(30), <2>3, <2>7, <3>1, <3>2, <4>1
        <5>. QED BY ZenonT(40), <5>1, <5>2
      <4>4. One(j = 0) = 0 /\ Mine(loc[p], cwd[p], j) \in Nat /\ \A x : One(x) \in Nat
        BY SMTT(30) DEF One, Mine, Inums
      <4>5. Cardinality(Opens(ftable', j)) = Cardinality(Opens(ftable, j))
        BY SMTT(30), <4>2, <4>3, <4>4
      <4>. QED BY SMTT(30), <2>2, <4>2, <4>4, <4>5
    <3>. QED BY SMTT(30), <2>2, <2>6, <3>4, <3>5, <3>6, <1>Kept
  <2>8. CASE /\ ~(ftable[f].ref > 1) /\ ftable' = [ftable EXCEPT ![f] = NoFile]
             /\ loc' = [loc EXCEPT ![p] = m]
    <3>1. /\ l \in Locs /\ l.ip = 0 /\ l.dp = 0 /\ l.old = 0 /\ l.stage = "drop"
      BY ZenonT(40), <2>1, IdleIs
    <3>2. <<i>> \in Seq(Inums) /\ Len(<<i>>) = 1 /\ <<i>> # <<>> /\ \A j : Puts(<<i>>, j) = One(i = j)
      BY ZenonT(40), <2>3, PutsIs
    <3>3. Is(m, loc[p], "end", 0, 0, 0, l.rest, <<i>>)
      <4>1. "end" \in Places
        BY ZenonT(40) DEF Places
      <4>. QED BY ZenonT(40), <2>1, <3>1, <3>2, <4>1 DEF Is, Locs
    <3>l. loc' = [loc EXCEPT ![p] = m]
      BY SMTT(30), <2>8
    <3>. HIDE DEF m
    <3>4. RolesOf(m)
      BY SMTT(30), <2>1, <3>2, <3>3 DEF RolesOf, Is, ForParent
    <3>5. \A j \in Inums : Atop("end", 0, 0, j)
                           <=> j = 0 \/ (Atop(loc[p].pc, loc[p].ip, loc[p].dp, j) /\ j # 0)
      BY ZenonT(40), <2>1, Holding DEF Atop
    <3>6. Moves(p, m, 0, 0)
      <4>. DEFINE r == l.rest
      <4>1. Is(m, loc[p], "end", 0, 0, 0, r, <<i>>)
        BY <3>3
      <4>2. loc[p].puts = <<>>
        BY ZenonT(40), <2>1
      <4>. DEFINE q == <<i>>
      <4>3. Is(m, loc[p], "end", 0, 0, 0, r, q)
        BY ZenonT(40), <4>1
      <4>. HIDE DEF r, q
      <4>. QED BY ZenonT(40), <3>l, <3>4, <3>5, <4>2, <4>3, <1>MovesTo
    <3>7. NoFile \in File /\ NoFile.ref = 0 /\ ftable[f].ref = 1
      <4>1. ftable[f].ref \in Int
        BY ZenonT(40), <2>3 DEF File
      <4>. QED BY SMTT(30), <2>3, <2>8, <4>1, Sizes DEF File, NoFile
    <3>8. FileMoves(p, fd, 0, f, NoFile)
      BY SMTT(30), <2>2, <2>3, <2>4, <2>5, <2>8, <3>7 DEF FileMoves, One
    <3>9. Files(p, m)
      BY ZenonT(40), <2>3, <3>8, <1>FilesMoved
    <3>10. ASSUME NEW j \in Inums
           PROVE  Mine(m, cwd'[p], j) + Cardinality(Opens(ftable', j))
                  = Mine(loc[p], cwd[p], j) + Cardinality(Opens(ftable, j)) + One(j = 0)
      <4>1. Apart(ftable, ftable', f) /\ ftable'[f] = NoFile
        BY ZenonT(40), <2>3, <2>4, <2>8 DEF Apart
      <4>2. /\ Cardinality(Opens(ftable, j)) \in Nat /\ Cardinality(Opens(ftable', j)) \in Nat
            /\ Cardinality(Opens(ftable', j)) + One(ftable[f].ref > 0 /\ ftable[f].ip = j)
               = Cardinality(Opens(ftable, j)) + One(ftable'[f].ref > 0 /\ ftable'[f].ip = j)
        BY SMTT(30), <2>3, <4>1, <1>OpensMove
      <4>3. /\ One(ftable[f].ref > 0 /\ ftable[f].ip = j) = One(i = j)
            /\ One(ftable'[f].ref > 0 /\ ftable'[f].ip = j) = 0
        BY SMTT(30), <2>3, <3>7, <4>1 DEF One
      <4>4. One(j = 0) = 0 /\ j # 0 /\ \A x : One(x) \in Nat
        BY DEF One, Inums
      <4>5. Mine(m, cwd'[p], j) = One(c = j) + One(i = j)
        <5>1. Mine(m, c, j) = Count("end", c, 0, 0, 0, <<i>>, j)
          <6>. DEFINE r == l.rest
                      q == <<i>>
          <6>1. Is(m, loc[p], "end", 0, 0, 0, r, q)
            BY ZenonT(40), <3>3
          <6>. HIDE DEF r, q
          <6>2. \A x, k : Mine(m, x, k) = Count("end", x, 0, 0, 0, q, k)
            BY SMTT(30), <6>1, <1>MineIs
          <6>3. Mine(m, c, j) = Count("end", c, 0, 0, 0, q, j)
            BY ZenonT(40), <6>2
          <6>. QED BY ZenonT(40), <6>3 DEF q
        <5>2. Count("end", c, 0, 0, 0, <<i>>, j) = One(c = j) + Puts(<<i>>, j)
          BY SMTT(30), <4>4, <1>CountEnd
        <5>. QED BY ZenonT(40), <2>2, <3>2, <5>1, <5>2
      <4>6. Mine(loc[p], cwd[p], j) = One(c = j)
        BY ZenonT(40), <2>1, <4>4
      <4>. QED BY SMTT(30), <4>2, <4>3, <4>4, <4>5, <4>6
    <3>. QED BY SMTT(30), <2>2, <2>6, <3>6, <3>9, <3>10, <1>Kept
  <2>. QED BY ZenonT(40), <2>2, <2>7, <2>8
\* sys_close() of any descriptor.
<1>SysCloseKept. ASSUME IInv, NEW p \in Procs, sys_close(p), prog' = prog
                 PROVE  IInv'
  <2>. USE <1>SysCloseKept
  <2>1. PICK fd \in 1 .. NOFILE : CloseFd(p, fd, Idle)
    BY DEF sys_close
  <2>2. Runs(p, "idle")
    BY ZenonT(40) DEF sys_close
  <2>. QED BY ZenonT(40), <2>1, <2>2, <1>CloseKept
\* sys_dup(): one more descriptor for a file (filedup()).
<1>DupKept. ASSUME IInv, NEW p \in Procs, sys_dup(p), prog' = prog
            PROVE  IInv'
  <2>. USE <1>DupKept
  <2>1. Runs(p, "idle") /\ FreeFds(p) # {}
    BY ZenonT(40) DEF sys_dup
  <2>2. PICK fd \in 1 .. NOFILE :
          /\ ofile[p][fd] # 0
          /\ ftable' = [ftable EXCEPT ![ofile[p][fd]].ref = @ + 1]
          /\ ofile' = [ofile EXCEPT ![p][Min(FreeFds(p))] = ofile[p][fd]]
    BY ZenonT(40) DEF sys_dup
  <2>. DEFINE f == ofile[p][fd]
              x == Min(FreeFds(p))
              g == [ftable[f] EXCEPT !.ref = @ + 1]
  <2>3. /\ f \in 1 .. NFILE /\ ftable[f].ref > 0 /\ ftable[f].ip \in Inums /\ ftable[f] \in File
        /\ cwd[p] # 0
    BY ZenonT(40), <2>2, <1>FdOpen
  <2>4. ftable \in [1 .. NFILE -> File] /\ f \in 0 .. NFILE
    BY <2>3 DEF IInv, Shape, File
  <2>5. x \in 1 .. NOFILE /\ ofile[p][x] = 0
    <3>1. FreeFds(p) \subseteq Nat
      BY DEF FreeFds
    <3>2. x \in FreeFds(p)
      BY ZenonT(40), <2>1, <3>1, LeastIn
    <3>. HIDE DEF x
    <3>. QED BY ZenonT(40), <3>2 DEF FreeFds
  <2>6. ftable' = [ftable EXCEPT ![f].ref = @ + 1] /\ ofile' = [ofile EXCEPT ![p][x] = f]
    BY <2>2
  <2>. HIDE DEF f, x
  <2>7. Refds(p, x, f)
    BY ZenonT(40), <2>4, <2>5, <2>6, <1>RefdsIs
  <2>8. /\ g \in File /\ g.ref = ftable[f].ref + 1 /\ g.ip = ftable[f].ip
        /\ ftable' = [ftable EXCEPT ![f] = g]
    BY SMTT(30), <2>3, <2>4, <2>6 DEF File
  <2>. HIDE DEF g
  <2>9. ftable[f].ip # 0 /\ ftable[f].ref \in Int
    BY <2>3 DEF Inums, File
  <2>10. /\ disk' = disk /\ durable' = durable /\ itable' = itable /\ cwd' = cwd /\ loc' = loc
         /\ Stays
    BY ZenonT(40), <2>1 DEF sys_dup, Stays, Runs
  <2>11. FileMoves(p, x, f, f, g)
    BY SMTT(30), <2>3, <2>5, <2>7, <2>8, <2>9, <2>10 DEF FileMoves, One
  <2>12. Files(p, loc[p])
    BY ZenonT(40), <2>3, <2>5, <2>11, <1>FilesMoved
  <2>13. Moves(p, loc[p], 0, 0)
    BY SMTT(30), <2>1, <2>10, <1>Rests
  <2>14. Acts(p, 0, 0, 0) /\ OwnedIn(disk') /\ 0 \in 0 .. NINODES
    BY ZenonT(40), <2>10, ActsSame, Holding DEF SameDisk, IInv, Owned
  <2>15. ASSUME NEW j \in Inums
         PROVE  Mine(loc[p], cwd'[p], j) + Cardinality(Opens(ftable', j))
                = Mine(loc[p], cwd[p], j) + Cardinality(Opens(ftable, j)) + One(j = 0)
    <3>1. Apart(ftable, ftable', f) /\ ftable'[f] = g
      BY ZenonT(40), <2>3, <2>4, <2>8 DEF Apart
    <3>2. /\ Cardinality(Opens(ftable, j)) \in Nat /\ Cardinality(Opens(ftable', j)) \in Nat
          /\ Cardinality(Opens(ftable', j)) + One(ftable[f].ref > 0 /\ ftable[f].ip = j)
             = Cardinality(Opens(ftable, j)) + One(ftable'[f].ref > 0 /\ ftable'[f].ip = j)
      BY SMTT(30), <2>3, <3>1, <1>OpensMove
    <3>3. One(ftable[f].ref > 0 /\ ftable[f].ip = j) = One(ftable'[f].ref > 0 /\ ftable'[f].ip = j)
      <4>1. ftable'[f].ip = ftable[f].ip
        BY ZenonT(40), <2>8, <3>1
      <4>2. ftable'[f].ref > 0 /\ ftable[f].ref > 0
        BY SMTT(30), <2>3, <2>8, <2>9, <3>1
      <4>. QED BY ZenonT(40), <4>1, <4>2
    <3>4. One(j = 0) = 0 /\ Mine(loc[p], cwd[p], j) \in Nat /\ \A y : One(y) \in Nat
      BY SMTT(30) DEF One, Mine, Inums
    <3>5. Cardinality(Opens(ftable', j)) = Cardinality(Opens(ftable, j))
      BY SMTT(30), <3>2, <3>3, <3>4
    <3>. QED BY SMTT(30), <2>10, <3>2, <3>4, <3>5
  <2>. QED BY SMTT(30), <2>10, <2>12, <2>13, <2>14, <2>15, <1>Kept
\* The descriptors of p that name f, once more for its child q.
<1>ForkCounts. ASSUME IInv, NEW p \in Procs, NEW q \in Procs, p # q, \A fd \in 1 .. NOFILE : ofile[q][fd] = 0,
                      ofile' \in [Procs -> [1 .. NOFILE -> 0 .. NFILE]], ofile'[q] = ofile[p],
                      \A r \in Procs \ {q} : ofile'[r] = ofile[r], NEW f \in 1 .. NFILE
               PROVE  LET n == Cardinality({fd \in 1 .. NOFILE : ofile[p][fd] = f})
                      IN  /\ n \in Nat /\ Cardinality(Fds(ofile', f)) = Cardinality(Fds(ofile, f)) + n
                          /\ Cardinality(Fds(ofile, f)) = 0 => n = 0
  <2>. USE <1>ForkCounts
  <2>. DEFINE D == {fd \in 1 .. NOFILE : ofile[p][fd] = f}
              S == Fds(ofile, f)
              T == {q} \X D
  <2>1. IsFiniteSet(D) /\ Cardinality(D) \in Nat
    <3>1. IsFiniteSet(1 .. NOFILE) /\ D \in SUBSET (1 .. NOFILE)
      BY SMTT(30), FsAssumption, FS_Interval DEF FsAssumption
    <3>. HIDE DEF D
    <3>. QED BY ZenonT(40), <3>1, FS_Subset, FS_CardinalityType
  <2>2. IsFiniteSet(S) /\ Cardinality(S) \in Nat
    BY ZenonT(40), <1>FdsFinite
  <2>3. IsFiniteSet(T) /\ Cardinality(T) = Cardinality(D)
    <3>1. IsFiniteSet({q}) /\ Cardinality({q}) = 1
      BY ZenonT(40), FS_Singleton
    <3>. HIDE DEF D
    <3>2. IsFiniteSet(T) /\ Cardinality(T) = Cardinality({q}) * Cardinality(D)
      BY ZenonT(40), <2>1, <3>1, FS_Product
    <3>. QED BY SMTT(30), <2>1, <3>1, <3>2
  <2>4. S \cap T = {}
    <3>. SUFFICES ASSUME NEW r, r \in S, r \in T PROVE FALSE
      BY ZenonT(40)
    <3>1. r[1] = q /\ r[2] \in 1 .. NOFILE
      BY ZenonT(40)
    <3>2. ofile[r[1]][r[2]] = f
      BY ZenonT(40) DEF Fds
    <3>. QED BY SMTT(30), <3>1, <3>2
  <2>5. Fds(ofile', f) = S \cup T
    <3>1. ASSUME NEW r \in Procs \X (1 .. NOFILE)
          PROVE  r \in Fds(ofile', f) <=> r \in S \cup T
      <4>1. r[1] \in Procs /\ r[2] \in 1 .. NOFILE /\ r = <<r[1], r[2]>>
        BY SMTT(30), <3>1
      <4>2. CASE r[1] = q
        <5>1. ofile'[r[1]][r[2]] = ofile[p][r[2]] /\ ofile[r[1]][r[2]] = 0
          BY ZenonT(40), <4>1, <4>2
        <5>2. r \in T <=> ofile[p][r[2]] = f
          BY ZenonT(40), <4>1, <4>2
        <5>. QED BY SMTT(30), <4>1, <5>1, <5>2 DEF Fds
      <4>3. CASE r[1] # q
        <5>1. ofile'[r[1]] = ofile[r[1]] /\ r \notin T
          BY ZenonT(40), <4>1, <4>3
        <5>. QED BY <5>1 DEF Fds
      <4>. QED BY SMTT(30), <4>2, <4>3
    <3>2. Fds(ofile', f) \subseteq Procs \X (1 .. NOFILE) /\ S \subseteq Procs \X (1 .. NOFILE)
          /\ T \subseteq Procs \X (1 .. NOFILE)
      BY DEF Fds
    <3>. HIDE DEF S, T
    <3>. QED BY ZenonT(40), <3>1, <3>2
  <2>6. Cardinality(S) = 0 => Cardinality(D) = 0
    <3>1. SUFFICES ASSUME Cardinality(S) = 0 PROVE D = {}
      BY ZenonT(40), FS_EmptySet
    <3>2. S = {}
      BY SMTT(30), <2>2, <3>1, FS_EmptySet
    <3>3. \A fd \in D : <<p, fd>> \in S
      BY ZenonT(40) DEF Fds
    <3>. QED BY ZenonT(40), <3>2, <3>3
  <2>7. Cardinality(S \cup T) = Cardinality(S) + Cardinality(T)
    <3>. HIDE DEF S, T
    <3>1. Cardinality(S \cup T) = Cardinality(S) + Cardinality(T) - Cardinality(S \cap T)
      BY ZenonT(40), <2>2, <2>3, FS_Union
    <3>2. Cardinality(S \cap T) = 0
      BY ZenonT(40), <2>4, FS_EmptySet
    <3>. QED BY SMTT(30), <2>1, <2>2, <2>3, <3>1, <3>2
  <2>. HIDE DEF D, S, T
  <2>8. Cardinality(Fds(ofile', f)) = Cardinality(S) + Cardinality(D)
    BY ZenonT(40), <2>3, <2>5, <2>7
  <2>. QED BY ZenonT(40), <2>1, <2>6, <2>8 DEF D, S
\* kfork(): the child has the files and the current directory of its parent.
<1>ForkKept. ASSUME IInv, NEW p \in Procs, NEW q \in Procs, kfork(p, q), prog' = prog
             PROVE  IInv'
  <2>. USE <1>ForkKept
  <2>. DEFINE N(f) == Cardinality({fd \in 1 .. NOFILE : ofile[p][fd] = f})
              c == cwd[p]
  <2>1. /\ Runs(p, "idle") /\ c # 0 /\ Runs(q, "idle") /\ cwd[q] = 0
    BY ZenonT(40) DEF kfork
  <2>2. /\ ofile' = [ofile EXCEPT ![q] = ofile[p]] /\ cwd' = [cwd EXCEPT ![q] = c]
        /\ itable' = iget(itable, c) /\ disk' = disk /\ durable' = durable /\ loc' = loc /\ Stays
        /\ ftable' = [f \in DOMAIN ftable |-> [ftable[f] EXCEPT !.ref = @ + N(f)]]
    BY ZenonT(40) DEF kfork, Runs, Stays
  <2>. HIDE DEF N
  <2>3. p # q /\ c \in Inums /\ c \in 0 .. NINODES /\ 0 \in 0 .. NINODES
    BY SMTT(30), <2>1, Holding
  <2>4. /\ ofile \in [Procs -> [1 .. NOFILE -> 0 .. NFILE]] /\ cwd \in [Procs -> 0 .. NINODES]
        /\ ftable \in [1 .. NFILE -> File]
    BY ZenonT(40) DEF IInv, Shape, File
  <2>5. /\ ofile' \in [Procs -> [1 .. NOFILE -> 0 .. NFILE]] /\ ofile'[q] = ofile[p]
        /\ \A r \in Procs \ {q} : ofile'[r] = ofile[r]
    <3>1. ofile[p] \in [1 .. NOFILE -> 0 .. NFILE]
      BY ZenonT(40), <2>4
    <3>. QED BY ZenonT(40), <2>2, <2>4, <3>1
  <2>6. /\ cwd' \in [Procs -> 0 .. NINODES] /\ cwd'[q] = c
        /\ \A r \in Procs \ {q} : cwd'[r] = cwd[r]
    BY ZenonT(40), <2>2, <2>3, <2>4
  <2>7. \A fd \in 1 .. NOFILE : ofile[q][fd] = 0
    BY <2>1 DEF IInv, Roles
  <2>8. ASSUME NEW f \in 1 .. NFILE
        PROVE  /\ N(f) \in Nat /\ Cardinality(Fds(ofile', f)) = Cardinality(Fds(ofile, f)) + N(f)
               /\ Cardinality(Fds(ofile, f)) = 0 => N(f) = 0
    BY ZenonT(40), <2>3, <2>5, <2>7, <1>ForkCounts DEF N
  <2>9. ASSUME NEW f \in 1 .. NFILE
        PROVE  /\ ftable'[f] \in File /\ ftable'[f].ip = ftable[f].ip
               /\ ftable'[f].ref = ftable[f].ref + N(f)
               /\ ftable[f].ref = Cardinality(Fds(ofile, f)) /\ ftable[f].ref \in Nat
    <3>1. ftable'[f] = [ftable[f] EXCEPT !.ref = @ + N(f)] /\ ftable[f] \in File
      BY ZenonT(40), <2>2, <2>4
    <3>2. ftable[f].ref = Cardinality(Fds(ofile, f)) /\ ftable[f].ref \in Nat
      BY ZenonT(40), <1>FdsFinite DEF IInv, RefsCounted
    <3>. QED BY SMTT(30), <2>8, <3>1, <3>2 DEF File
  <2>10. ftable' \in [1 .. NFILE -> File]
    <3>1. ftable' = [f \in 1 .. NFILE |-> ftable'[f]]
      BY SMTT(30), <2>2, <2>4
    <3>. QED BY ZenonT(40), <2>9, <3>1
  <2>11. \A f \in 1 .. NFILE : /\ ftable'[f].ref = Cardinality(Fds(ofile', f))
                               /\ ftable'[f].ref > 0 <=> ftable[f].ref > 0
    BY SMTT(30), <2>8, <2>9
  <2>12. Files(q, loc[q])
    <3>1. \A f \in 1 .. NFILE : ftable'[f].ref > 0 => ftable'[f].ip # 0
      BY SMTT(30), <2>9, <2>11 DEF IInv, Roles
    <3>. QED BY ZenonT(40), <2>1, <2>5, <2>6, <2>10, <2>11, <3>1 DEF Files, File
  <2>13. Moves(q, loc[q], 0, 0)
    BY ZenonT(40), <2>1, <2>2, <1>Rests
  <2>14. Acts(q, c, 0, 0) /\ OwnedIn(disk')
    BY ZenonT(40), <2>2, <2>3, ActsSame, Holding DEF SameDisk, IInv, Owned
  <2>15. ASSUME NEW j \in Inums
         PROVE  Mine(loc[q], cwd'[q], j) + Cardinality(Opens(ftable', j))
                = Mine(loc[q], cwd[q], j) + Cardinality(Opens(ftable, j)) + One(j = c)
    <3>1. Opens(ftable', j) = Opens(ftable, j)
      BY ZenonT(40), <2>9, <2>11 DEF Opens
    <3>2. Cardinality(Opens(ftable, j)) \in Nat /\ j # 0
      BY SMTT(30), OpensCount DEF Inums
    <3>3. Mine(loc[q], c, j) = One(c = j) /\ Mine(loc[q], 0, j) = One(0 = j)
      <4>1. \A d, k : k # 0 => Mine(loc[q], d, k) = One(d = k)
        BY ZenonT(40), <2>1, <1>Resting
      <4>. QED BY SMTT(30), <3>2, <4>1
    <3>4. One(0 = j) = 0 /\ One(c = j) = One(j = c) /\ One(c = j) \in Nat
      BY ZenonT(40), <3>2 DEF One
    <3>. QED BY SMTT(30), <2>1, <2>6, <3>1, <3>2, <3>3, <3>4
  <2>. QED BY SMTT(30), <2>2, <2>3, <2>12, <2>13, <2>14, <2>15, <1>Kept
\* kexit(): the files are closed one by one, then the current directory.
<1>ExitKept. ASSUME IInv, NEW p \in Procs, kexit(p), prog' = prog
             PROVE  IInv'
  <2>. USE <1>ExitKept
  <2>. DEFINE l == loc[p]
              c == cwd[p]
              m == [Idle EXCEPT !.pc = "exit", !.call = ExitCall]
              n == [l EXCEPT !.pc = "end", !.puts = <<c>>]
  <2>1. \/ /\ Runs(p, "idle") /\ c # 0 /\ loc' = [loc EXCEPT ![p] = m]
           /\ disk' = disk /\ durable' = durable /\ itable' = itable /\ ftable' = ftable
           /\ ofile' = ofile /\ cwd' = cwd /\ booted' = booted
        \/ Runs(p, "exit") /\ \E fd \in 1 .. NOFILE : CloseFd(p, fd, l)
        \/ /\ Runs(p, "exit") /\ FreeFds(p) = 1 .. NOFILE
           /\ \/ c # 0 /\ loc' = [loc EXCEPT ![p] = n] /\ cwd' = [cwd EXCEPT ![p] = 0]
              \/ loc' = [loc EXCEPT ![p] = Idle] /\ cwd' = cwd
           /\ disk' = disk /\ durable' = durable /\ itable' = itable /\ ftable' = ftable
           /\ ofile' = ofile /\ booted' = booted
    BY ZenonT(40) DEF kexit, Goes
  <2>2. 0 \in 0 .. NINODES /\ 0 \notin Inums
    BY ZenonT(40), Holding
  <2>3. ASSUME NEW s \in {"idle", "exit"}, Runs(p, s), NEW k, NEW r \in {"idle", "exit"},
               loc' = [loc EXCEPT ![p] = k], Is(k, l, r, 0, 0, 0, <<>>, <<>>), RolesOf(k),
               disk' = disk, durable' = durable, itable' = itable, ftable' = ftable,
               ofile' = ofile, cwd' = cwd, booted' = booted
        PROVE  IInv'
    <3>1. /\ l.puts = <<>> /\ l.pc = s /\ booted
          /\ \A d, j : j # 0 => Count(s, d, l.ip, l.dp, l.old, <<>>, j) = One(d = j)
          /\ \A j : j # 0 => ~Atop(l.pc, l.ip, l.dp, j)
      BY ZenonT(40), <2>3, <1>Resting
    <3>2. \A j \in Inums : Atop(r, 0, 0, j) <=> j = 0 \/ (Atop(l.pc, l.ip, l.dp, j) /\ j # 0)
      BY ZenonT(40), <2>2, <2>3, <3>1 DEF Atop
    <3>3. \A j \in Inums : Count(r, c, 0, 0, 0, <<>>, j)
                           = Count(l.pc, c, l.ip, l.dp, l.old, <<>>, j) + One(j = 0)
      <4>. SUFFICES ASSUME NEW j \in Inums
                    PROVE  Count(r, c, 0, 0, 0, <<>>, j)
                           = Count(l.pc, c, l.ip, l.dp, l.old, <<>>, j) + One(j = 0)
        BY ZenonT(40)
      <4>1. j # 0 /\ One(c = j) \in Nat /\ One(j = 0) = 0
        BY DEF Inums, One
      <4>2. Count(r, c, 0, 0, 0, <<>>, j) = One(c = j)
        BY SMTT(30), <2>3, <4>1, PutsIs DEF Count, One
      <4>. QED BY <3>1, <4>1, <4>2
    <3>4. Advances(p, k, r, 0, 0, 0, <<>>, <<>>, 0, 0, 0)
      BY ZenonT(40), <2>2, <2>3, <3>1, <3>2, <3>3 DEF Advances
    <3>5. Acts(p, 0, 0, 0) /\ OwnedIn(disk') /\ Still
      BY ZenonT(40), <2>3, <3>1, ActsSame DEF SameDisk, IInv, Owned, Still, Stays
    <3>. QED BY ZenonT(40), <3>4, <3>5, <1>StepKept
  <2>4. CASE /\ Runs(p, "idle") /\ c # 0 /\ loc' = [loc EXCEPT ![p] = m]
             /\ disk' = disk /\ durable' = durable /\ itable' = itable /\ ftable' = ftable
             /\ ofile' = ofile /\ cwd' = cwd /\ booted' = booted
    <3>1. "exit" \in Places /\ ExitCall \in Calls /\ l.stage = "drop"
      <4>1. ExitCall \in Calls
        BY ZenonT(40), IdleIs DEF ExitCall, Calls
      <4>. QED BY SMTT(30), <2>4, <4>1, <1>Resting DEF Places
    <3>2. Is(m, l, "exit", 0, 0, 0, <<>>, <<>>)
      BY ZenonT(40), <3>1, IdleIs DEF Is, Locs
    <3>l. loc' = [loc EXCEPT ![p] = m]
      BY ZenonT(40), <2>4
    <3>. HIDE DEF m
    <3>3. RolesOf(m)
      BY SMTT(30), <3>1, <3>2, PutsIs DEF RolesOf, Is, ForParent
    <3>. QED BY ZenonT(40), <2>3, <2>4, <3>2, <3>3
  <2>5. CASE Runs(p, "exit") /\ \E fd \in 1 .. NOFILE : CloseFd(p, fd, l)
    BY ZenonT(40), <2>5, <1>CloseKept
  <2>6. CASE /\ Runs(p, "exit") /\ loc' = [loc EXCEPT ![p] = Idle] /\ cwd' = cwd
             /\ disk' = disk /\ durable' = durable /\ itable' = itable /\ ftable' = ftable
             /\ ofile' = ofile /\ booted' = booted
    <3>1. l.stage = "drop"
      BY ZenonT(40), <2>6, <1>Resting
    <3>2. Is(Idle, l, "idle", 0, 0, 0, <<>>, <<>>) /\ RolesOf(Idle)
      BY ZenonT(40), <3>1, IdleIs DEF Is
    <3>. QED BY ZenonT(40), <2>3, <2>6, <3>2
  <2>7. CASE /\ Runs(p, "exit") /\ FreeFds(p) = 1 .. NOFILE /\ c # 0
             /\ loc' = [loc EXCEPT ![p] = n] /\ cwd' = [cwd EXCEPT ![p] = 0]
             /\ disk' = disk /\ durable' = durable /\ itable' = itable /\ ftable' = ftable
             /\ ofile' = ofile /\ booted' = booted
    <3>1. /\ l \in Locs /\ l.pc = "exit" /\ l.puts = <<>> /\ l.stage = "drop" /\ booted
          /\ l.ip = 0 /\ l.dp = 0 /\ l.old = 0
          /\ \A d, j : j # 0 => Mine(l, d, j) = One(d = j)
      BY ZenonT(40), <2>7, <1>Resting
    <3>2. c \in Inums /\ <<c>> \in Seq(Inums) /\ Len(<<c>>) = 1 /\ <<c>> # <<>>
          /\ \A j : Puts(<<c>>, j) = One(c = j)
      <4>1. c \in Inums
        BY ZenonT(40), <2>7, Holding
      <4>. QED BY ZenonT(40), <4>1, PutsIs
    <3>3. Is(n, l, "end", 0, 0, 0, l.rest, <<c>>)
      <4>1. "end" \in Places
        BY ZenonT(40) DEF Places
      <4>. QED BY ZenonT(40), <3>1, <3>2, <4>1 DEF Is, Locs
    <3>l. loc' = [loc EXCEPT ![p] = n]
      BY ZenonT(40), <2>7
    <3>. HIDE DEF n
    <3>4. RolesOf(n)
      BY SMTT(30), <3>1, <3>2, <3>3 DEF RolesOf, Is, ForParent
    <3>5. \A j \in Inums : Atop("end", 0, 0, j) <=> j = 0 \/ (Atop(l.pc, l.ip, l.dp, j) /\ j # 0)
      BY ZenonT(40), <2>2, <3>1 DEF Atop
    <3>6. Moves(p, n, 0, 0)
      <4>1. l.puts = <<>>
        BY <3>1
      <4>. DEFINE r == l.rest
                  q == <<c>>
      <4>2. Is(n, l, "end", 0, 0, 0, r, q)
        BY ZenonT(40), <3>3
      <4>. HIDE DEF r, q
      <4>. QED BY ZenonT(40), <3>l, <3>4, <3>5, <4>1, <4>2, <1>MovesTo
    <3>7. cwd'[p] = 0 /\ cwd' \in [Procs -> 0 .. NINODES] /\ \A q \in Procs \ {p} : cwd'[q] = cwd[q]
      BY ZenonT(40), <2>2, <2>7 DEF IInv, Shape
    <3>8. Files(p, n)
      <4>1. /\ ftable \in [1 .. NFILE -> File]
            /\ ofile \in [Procs -> [1 .. NOFILE -> 0 .. NFILE]]
            /\ \A f \in 1 .. NFILE : ftable[f].ref > 0 => ftable[f].ip # 0
            /\ \A f \in 1 .. NFILE : ftable[f].ref = Cardinality(Fds(ofile, f))
        BY ZenonT(40) DEF IInv, Shape, Roles, RefsCounted, File
      <4>2. \A fd \in 1 .. NOFILE : ofile[p][fd] = 0
        BY <2>7 DEF FreeFds
      <4>3. n.pc = "end"
        BY ZenonT(40), <3>3 DEF Is
      <4>. QED BY ZenonT(40), <2>7, <3>7, <4>1, <4>2, <4>3 DEF Files, File
    <3>9. ASSUME NEW j \in Inums
          PROVE  Mine(n, cwd'[p], j) + Cardinality(Opens(ftable', j))
                 = Mine(l, cwd[p], j) + Cardinality(Opens(ftable, j)) + One(j = 0)
      <4>1. j # 0 /\ One(j = 0) = 0 /\ One(c = j) \in Nat /\ Cardinality(Opens(ftable, j)) \in Nat
        BY ZenonT(40), <2>2, OpensCount DEF One
      <4>2. Mine(n, cwd'[p], j) = One(c = j)
        <5>1. Mine(n, 0, j) = Count("end", 0, 0, 0, 0, <<c>>, j)
          <6>. DEFINE r == l.rest
                      q == <<c>>
          <6>1. Is(n, l, "end", 0, 0, 0, r, q)
            BY ZenonT(40), <3>3
          <6>. HIDE DEF r, q
          <6>2. \A x, k : Mine(n, x, k) = Count("end", x, 0, 0, 0, q, k)
            BY SMTT(30), <6>1, <1>MineIs
          <6>3. Mine(n, 0, j) = Count("end", 0, 0, 0, 0, q, j)
            BY ZenonT(40), <6>2
          <6>. QED BY ZenonT(40), <6>3 DEF q
        <5>2. Count("end", 0, 0, 0, 0, <<c>>, j) = One(0 = j) + Puts(<<c>>, j)
          BY SMTT(30), <4>1, <1>CountEnd
        <5>3. One(0 = j) = 0
          BY ZenonT(40), <4>1 DEF One
        <5>4. 0 + One(c = j) = One(c = j)
          BY SMTT(30), <4>1
        <5>. QED BY ZenonT(40), <3>2, <3>7, <5>1, <5>2, <5>3, <5>4
      <4>3. Mine(l, cwd[p], j) = One(c = j)
        BY SMTT(30), <3>1, <4>1
      <4>. QED BY SMTT(30), <2>7, <4>1, <4>2, <4>3
    <3>10. Acts(p, 0, 0, 0) /\ OwnedIn(disk') /\ Stays
      BY ZenonT(40), <2>7, <3>1, ActsSame DEF SameDisk, IInv, Owned, Stays
    <3>. QED BY SMTT(30), <2>2, <2>7, <3>6, <3>8, <3>9, <3>10, <1>Kept
  <2>. QED BY SMTT(30), <2>1, <2>4, <2>5, <2>6, <2>7
<1>. SUFFICES ASSUME NEW p \in Procs, IInv, Step(p), prog' = prog
              PROVE  iput(p) \/ IInv'
  BY Zenon
<1>1. CASE CallStep(p) BY ZenonT(40), <1>1, CallsStep, Ordered, <1>SteppedKept
<1>2. CASE sys_open(p) BY ZenonT(40), <1>2, <1>OpenKept
<1>3. CASE ChdirDone(p) BY ZenonT(40), <1>3, <1>ChdirDoneKept
<1>4. CASE filewrite(p) BY ZenonT(40), <1>4, <1>FilewriteKept
<1>5. CASE sys_close(p) BY ZenonT(40), <1>5, <1>SysCloseKept
<1>6. CASE sys_dup(p) BY ZenonT(40), <1>6, <1>DupKept
<1>7. CASE kexit(p) BY ZenonT(40), <1>7, <1>ExitKept
<1>8. CASE \E q \in Procs : kfork(p, q) BY ZenonT(40), <1>8, <1>ForkKept
<1>. QED BY ZenonT(40), <1>1, <1>2, <1>3, <1>4, <1>5, <1>6, <1>7, <1>8 DEF Step, CallStep

=============================================================================
