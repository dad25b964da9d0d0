--------------------------- MODULE ConsoleProofs ----------------------------
(* Proofs about the console and the UART driver (Console.tla).             *)
EXTENDS Console, WellFoundedInduction, SequenceTheorems, TLAPS

-----------------------------------------------------------------------------
(* The inductive invariant.                                                *)

Index == 0 .. UINT - 1
Calls == [state : {"idle", "copy", "running", "asleep"}, n : Nat, some : BOOLEAN, nn : Int,
          killed : BOOLEAN]

Bytes == [0 .. INPUT_BUF_SIZE - 1 -> Keys]
Rings == [buf : Bytes, r : Index, w : Index, e : Index]
Ports == [rx : Seq(Keys), fifo : Nat, thre : BOOLEAN]

\* What the console and the UART hold, and what the calls still ask for.
ConsoleTypeOK ==
  /\ cons \in Rings /\ uart \in Ports /\ Len(uart.rx) <= RXFIFO
  /\ tx_busy \in BOOLEAN /\ intr \in {"none", "transmit", "input"}
  /\ io \in [Readers \cup Writers -> Calls] /\ unread \in Seq(Keys)
  /\ \A p \in Readers \cup Writers : io[p].state # "idle" => io[p].n > 0

\* A full ring holds no unfinished line, and a busy transmitter has a character
\* on its way or an interrupt due.
Progress ==
  /\ Diff(cons.e, cons.r) = INPUT_BUF_SIZE => cons.e = cons.w
  /\ tx_busy => uart.fifo > 0 \/ uart.thre \/ intr = "transmit"

CInv == ConsoleTypeOK /\ InputInOrder /\ Progress /\ ConsoleSleepsForCause

-----------------------------------------------------------------------------
(* The indices.                                                            *)

\* Remainders of division by U are unique.
LEMMA UniqueRemainder ==
  ASSUME NEW U \in Nat \ {0}, NEW q \in Int, NEW s \in Int,
         NEW r \in 0 .. U - 1, NEW t \in 0 .. U - 1, U * q + r = U * s + t
  PROVE  r = t
<1>1. U * (q - s) = t - r
  OBVIOUS
<1>2. q - s >= 1 => U * (q - s) >= U
  OBVIOUS
<1>3. q - s <= -1 => U * (q - s) <= -U
  OBVIOUS
<1>. QED BY <1>1, <1>2, <1>3

\* What x % U is, for an x written as a multiple of U and a rest.
LEMMA RestOf ==
  ASSUME NEW U \in Nat \ {0}, NEW q \in Int, NEW r \in 0 .. U - 1
  PROVE  (U * q + r) % U = r
<1>. DEFINE x == U * q + r
<1>0. x \in Int /\ x = U * q + r
  OBVIOUS
<1>. HIDE DEF x
<1>1. x = U * (x \div U) + (x % U) /\ x % U \in 0 .. U - 1 /\ x \div U \in Int
  BY <1>0
<1>2. x % U = r
  BY ZenonT(40), <1>0, <1>1, UniqueRemainder
<1>. QED BY <1>2 DEF x

\* x % U is x, up to one turn of the counter.
LEMMA OneTurn ==
  ASSUME NEW U \in Nat \ {0}, NEW x \in Int
  PROVE  /\ x \in 0 .. U - 1 => x % U = x
         /\ x - U \in 0 .. U - 1 => x % U = x - U
         /\ x + U \in 0 .. U - 1 => x % U = x + U
<1>1. x = U * 0 + x /\ x = U * 1 + (x - U) /\ x = U * (-1) + (x + U)
  OBVIOUS
<1>2. 0 \in Int /\ 1 \in Int /\ -1 \in Int
  OBVIOUS
<1>3. ASSUME x \in 0 .. U - 1 PROVE x % U = x
  <2>1. (U * 0 + x) % U = x
    BY ZenonT(40), <1>3, <1>2, RestOf
  <2>. QED BY <1>1, <2>1
<1>4. ASSUME x - U \in 0 .. U - 1 PROVE x % U = x - U
  <2>1. (U * 1 + (x - U)) % U = x - U
    BY ZenonT(40), <1>4, <1>2, RestOf
  <2>. QED BY <1>1, <2>1
<1>5. ASSUME x + U \in 0 .. U - 1 PROVE x % U = x + U
  <2>1. (U * (-1) + (x + U)) % U = x + U
    BY ZenonT(40), <1>5, <1>2, RestOf
  <2>. QED BY <1>1, <2>1
<1>. QED BY <1>3, <1>4, <1>5

\* The distance between two indices of the ring (console.c:165).
LEMMA Distance ==
  ASSUME NEW a \in Index, NEW b \in Index
  PROVE  Diff(a, b) \in Index /\ (b + Diff(a, b) = a \/ b + Diff(a, b) = a + UINT)
<1>. USE ConsoleAssumption DEF Index
<1>1. UINT \in Nat \ {0} /\ a - b \in Int
  OBVIOUS
<1>2. /\ a - b \in 0 .. UINT - 1 => (a - b) % UINT = a - b
      /\ (a - b) + UINT \in 0 .. UINT - 1 => (a - b) % UINT = (a - b) + UINT
  BY ZenonT(40), <1>1, OneTurn
<1>. QED BY <1>2 DEF Diff

\* An index moved by n places, forwards or backwards.
LEMMA Moved ==
  ASSUME NEW i \in Index, NEW n \in Index
  PROVE  /\ (i + n) % UINT \in Index /\ ((i + n) % UINT = i + n \/ (i + n) % UINT = i + n - UINT)
         /\ (i - n) % UINT \in Index /\ ((i - n) % UINT = i - n \/ (i - n) % UINT = i - n + UINT)
<1>. USE ConsoleAssumption DEF Index
<1>1. UINT \in Nat \ {0} /\ i + n \in Int /\ i - n \in Int
  OBVIOUS
<1>2. /\ i + n \in 0 .. UINT - 1 => (i + n) % UINT = i + n
      /\ (i + n) - UINT \in 0 .. UINT - 1 => (i + n) % UINT = (i + n) - UINT
  BY ZenonT(40), <1>1, OneTurn
<1>3. /\ i - n \in 0 .. UINT - 1 => (i - n) % UINT = i - n
      /\ (i - n) + UINT \in 0 .. UINT - 1 => (i - n) % UINT = (i - n) + UINT
  BY ZenonT(40), <1>1, OneTurn
<1>. QED BY <1>2, <1>3

\* Two indices are equal when nothing lies between them, and the distance leads
\* from the one to the other.
LEMMA Reach ==
  ASSUME NEW a \in Index, NEW b \in Index
  PROVE  (Diff(a, b) = 0 <=> a = b) /\ (b + Diff(a, b)) % UINT = a
<1>. USE ConsoleAssumption DEF Index
<1>1. Diff(a, b) \in Index /\ (b + Diff(a, b) = a \/ b + Diff(a, b) = a + UINT)
  BY Distance
<1>. DEFINE k == (b + Diff(a, b)) % UINT
<1>2. k \in Index /\ (k = b + Diff(a, b) \/ k = b + Diff(a, b) - UINT)
  BY ZenonT(40), <1>1, Moved
<1>. HIDE DEF k
<1>3. k = a /\ (Diff(a, b) = 0 <=> a = b)
  BY <1>1, <1>2
<1>. QED BY <1>3 DEF k

\* The three indices of the ring when n characters are read, when one is added
\* and when n are erased.
LEMMA Indices ==
  ASSUME NEW r \in Index, NEW w \in Index, NEW e \in Index,
         Diff(w, r) + Diff(e, w) = Diff(e, r), Diff(e, r) <= INPUT_BUF_SIZE
  PROVE  /\ \A n \in 0 .. Diff(w, r) :
              /\ (r + n) % UINT \in Index
              /\ Diff(w, (r + n) % UINT) = Diff(w, r) - n
              /\ Diff(e, (r + n) % UINT) = Diff(e, r) - n
         /\ Diff(e, r) < INPUT_BUF_SIZE =>
              /\ (e + 1) % UINT \in Index
              /\ Diff((e + 1) % UINT, w) = Diff(e, w) + 1
              /\ Diff((e + 1) % UINT, r) = Diff(e, r) + 1
         /\ \A n \in 0 .. Diff(e, w) :
              /\ (e - n) % UINT \in Index
              /\ Diff((e - n) % UINT, w) = Diff(e, w) - n
              /\ Diff((e - n) % UINT, r) = Diff(e, r) - n
<1>0. UINT \in Nat /\ INPUT_BUF_SIZE \in Nat \ {0} /\ UINT > INPUT_BUF_SIZE
  BY ConsoleAssumption
<1>. USE <1>0 DEF Index
<1>1. /\ Diff(w, r) \in Index /\ (r + Diff(w, r) = w \/ r + Diff(w, r) = w + UINT)
      /\ Diff(e, w) \in Index /\ (w + Diff(e, w) = e \/ w + Diff(e, w) = e + UINT)
      /\ Diff(e, r) \in Index /\ (r + Diff(e, r) = e \/ r + Diff(e, r) = e + UINT)
  BY Distance
<1>2. ASSUME NEW n \in 0 .. Diff(w, r)
      PROVE  /\ (r + n) % UINT \in Index
             /\ Diff(w, (r + n) % UINT) = Diff(w, r) - n
             /\ Diff(e, (r + n) % UINT) = Diff(e, r) - n
  <2>. DEFINE k == (r + n) % UINT
  <2>1. n \in Index
    BY <1>1
  <2>2. k \in Index /\ (k = r + n \/ k = r + n - UINT)
    BY ZenonT(40), <2>1, Moved
  <2>. HIDE DEF k
  <2>3. /\ Diff(w, k) \in Index /\ (k + Diff(w, k) = w \/ k + Diff(w, k) = w + UINT)
        /\ Diff(e, k) \in Index /\ (k + Diff(e, k) = e \/ k + Diff(e, k) = e + UINT)
    BY ZenonT(40), <2>2, Distance
  <2>4. Diff(w, k) = Diff(w, r) - n /\ Diff(e, k) = Diff(e, r) - n
    BY <1>1, <2>2, <2>3
  <2>. QED BY <2>2, <2>4 DEF k
<1>3. ASSUME Diff(e, r) < INPUT_BUF_SIZE
      PROVE  /\ (e + 1) % UINT \in Index
             /\ Diff((e + 1) % UINT, w) = Diff(e, w) + 1
             /\ Diff((e + 1) % UINT, r) = Diff(e, r) + 1
  <2>. DEFINE k == (e + 1) % UINT
  <2>1. 1 \in Index
    OBVIOUS
  <2>2. k \in Index /\ (k = e + 1 \/ k = e + 1 - UINT)
    BY ZenonT(40), <2>1, Moved
  <2>. HIDE DEF k
  <2>3. /\ Diff(k, w) \in Index /\ (w + Diff(k, w) = k \/ w + Diff(k, w) = k + UINT)
        /\ Diff(k, r) \in Index /\ (r + Diff(k, r) = k \/ r + Diff(k, r) = k + UINT)
    BY ZenonT(40), <2>2, Distance
  <2>4. Diff(k, w) = Diff(e, w) + 1 /\ Diff(k, r) = Diff(e, r) + 1
    BY <1>1, <1>3, <2>2, <2>3
  <2>. QED BY <2>2, <2>4 DEF k
<1>4. ASSUME NEW n \in 0 .. Diff(e, w)
      PROVE  /\ (e - n) % UINT \in Index
             /\ Diff((e - n) % UINT, w) = Diff(e, w) - n
             /\ Diff((e - n) % UINT, r) = Diff(e, r) - n
  <2>. DEFINE k == (e - n) % UINT
  <2>1. n \in Index
    BY <1>1
  <2>2. k \in Index /\ (k = e - n \/ k = e - n + UINT)
    BY ZenonT(40), <2>1, Moved
  <2>. HIDE DEF k
  <2>3. /\ Diff(k, w) \in Index /\ (w + Diff(k, w) = k \/ w + Diff(k, w) = k + UINT)
        /\ Diff(k, r) \in Index /\ (r + Diff(k, r) = k \/ r + Diff(k, r) = k + UINT)
    BY ZenonT(40), <2>2, Distance
  <2>4. Diff(k, w) = Diff(e, w) - n /\ Diff(k, r) = Diff(e, r) - n
    BY <1>1, <2>2, <2>3
  <2>. QED BY <2>2, <2>4 DEF k
<1>. QED BY ZenonT(40), <1>2, <1>3, <1>4

\* Where x is in the ring: a whole turn of the counter is a number of turns of
\* the ring, so an index that wrapped finds the place it would have found.
Slot(x) == x % INPUT_BUF_SIZE

\* Where an index is in the ring: characters less than its size apart have
\* different slots, and an index that wraps keeps its slot.
LEMMA Slots ==
  ASSUME NEW x \in Int
  PROVE  /\ Slot(x) \in 0 .. INPUT_BUF_SIZE - 1
         /\ \A d \in 1 .. INPUT_BUF_SIZE - 1 : Slot(x + d) # Slot(x)
         /\ Slot(x - UINT) = Slot(x) /\ Slot(x + UINT) = Slot(x)
<1>. DEFINE S == INPUT_BUF_SIZE
            q == x \div S
            r == x % S
            m == UINT \div S
<1>0. S \in Nat \ {0} /\ UINT \in Nat
  BY ConsoleAssumption
<1>1. x = S * q + r /\ r \in 0 .. S - 1 /\ q \in Int
  BY <1>0
<1>2. UINT = S * m /\ m \in Int
  BY <1>0, ConsoleAssumption
<1>. HIDE DEF S, q, r, m
<1>3. ASSUME NEW d \in 1 .. S - 1 PROVE (x + d) % S # r
  <2>1. x + d = S * q + (r + d) /\ x + d = S * (q + 1) + (r + d - S)
    BY <1>0, <1>1
  <2>2. CASE r + d < S
    <3>1. r + d \in 0 .. S - 1 /\ x + d \in Int
      BY <1>0, <1>1, <2>2
    <3>2. (S * q + (r + d)) % S = r + d
      BY ZenonT(40), <1>0, <1>1, <3>1, RestOf
    <3>. QED BY <1>0, <1>1, <2>1, <3>2
  <2>3. CASE r + d >= S
    <3>1. r + d - S \in 0 .. S - 1 /\ x + d \in Int /\ q + 1 \in Int
      BY <1>0, <1>1, <2>3
    <3>2. (S * (q + 1) + (r + d - S)) % S = r + d - S
      BY ZenonT(40), <1>0, <3>1, RestOf
    <3>. QED BY <1>0, <1>1, <2>1, <3>2
  <2>. QED BY <1>0, <1>1, <2>2, <2>3
<1>4. (x + UINT) % S = r
  <2>1. x + UINT = S * (q + m) + r /\ q + m \in Int
    BY <1>0, <1>1, <1>2
  <2>2. (S * (q + m) + r) % S = r
    BY ZenonT(40), <1>0, <1>1, <2>1, RestOf
  <2>. QED BY ZenonT(40), <2>1, <2>2
<1>5. (x - UINT) % S = r
  <2>1. x - UINT = S * (q - m) + r /\ q - m \in Int
    BY <1>0, <1>1, <1>2
  <2>2. (S * (q - m) + r) % S = r
    BY ZenonT(40), <1>0, <1>1, <2>1, RestOf
  <2>. QED BY ZenonT(40), <2>1, <2>2
<1>. QED BY <1>1, <1>3, <1>4, <1>5 DEF r, S, Slot

\* The j-th character from index i on is in the slot of i + j - 1.
LEMMA Places ==
  ASSUME NEW i \in Index, NEW n \in 0 .. INPUT_BUF_SIZE, NEW j \in 1 .. INPUT_BUF_SIZE
  PROVE  /\ ((i + j - 1) % UINT) % INPUT_BUF_SIZE = Slot(i + j - 1)
         /\ Slot(((i + n) % UINT) + j - 1) = Slot(i + n + j - 1)
<1>. USE ConsoleAssumption DEF Index
<1>1. n \in Index /\ j - 1 \in Index /\ i + j - 1 \in Int /\ i + n + j - 1 \in Int
  OBVIOUS
<1>2. (i + (j - 1)) % UINT \in {i + j - 1, i + j - 1 - UINT} /\ i + (j - 1) = i + j - 1
  BY <1>1, Moved
<1>3. (i + n) % UINT \in {i + n, i + n - UINT}
  BY <1>1, Moved
<1>4. ((i + n) % UINT) + j - 1 \in {i + n + j - 1, i + n + j - 1 - UINT}
  BY <1>3
<1>5. Slot(i + j - 1 - UINT) = Slot(i + j - 1) /\ Slot(i + n + j - 1 - UINT) = Slot(i + n + j - 1)
  <2>1. \A x \in Int : Slot(x - UINT) = Slot(x)
    BY Slots
  <2>. QED BY <1>1, <2>1
<1>6. ((i + j - 1) % UINT) % INPUT_BUF_SIZE = Slot((i + (j - 1)) % UINT)
  BY <1>2 DEF Slot
<1>. HIDE DEF Slot
<1>. QED BY ZenonT(40), <1>2, <1>4, <1>5, <1>6

-----------------------------------------------------------------------------
(* The characters of the ring.                                             *)

\* The n characters from index i on.
LEMMA SpanIs ==
  ASSUME NEW c, c.buf \in Bytes, NEW i \in Index, NEW n \in 0 .. INPUT_BUF_SIZE
  PROVE  /\ Span(c, i, n) \in Seq(Keys) /\ Len(Span(c, i, n)) = n
         /\ \A j \in 1 .. n : Span(c, i, n)[j] = c.buf[Slot(i + j - 1)]
<1>. DEFINE f == [j \in 1 .. n |-> c.buf[Slot(i + j - 1)]]
<1>0. n \in Nat /\ INPUT_BUF_SIZE \in Nat /\ 0 \in 0 .. INPUT_BUF_SIZE
  BY ConsoleAssumption
<1>1. ASSUME NEW j \in 1 .. n
      PROVE  /\ ((i + j - 1) % UINT) % INPUT_BUF_SIZE = Slot(i + j - 1)
             /\ c.buf[Slot(i + j - 1)] \in Keys
  <2>1. j \in 1 .. INPUT_BUF_SIZE /\ i + j - 1 \in Int
    BY <1>0, ConsoleAssumption DEF Index
  <2>2. Slot(i + j - 1) \in 0 .. INPUT_BUF_SIZE - 1
    BY <2>1, Slots
  <2>3. ((i + j - 1) % UINT) % INPUT_BUF_SIZE = Slot(i + j - 1)
    BY ZenonT(40), <1>0, <2>1, Places
  <2>. QED BY ZenonT(40), <2>2, <2>3 DEF Bytes
<1>2. Span(c, i, n) = f
  BY ZenonT(40), <1>1 DEF Span
<1>3. f \in Seq(Keys) /\ Len(f) = n
  BY <1>0, <1>1
<1>. QED BY <1>2, <1>3

\* Two sequences of the same characters are the same.
LEMMA SameSpan ==
  ASSUME NEW s \in Seq(Keys), NEW t \in Seq(Keys), NEW n \in Nat, Len(s) = n, Len(t) = n,
         \A j \in 1 .. n : s[j] = t[j]
  PROVE  s = t
  BY SeqEqual

\* Reading the first m characters leaves the others.
LEMMA SpanTail ==
  ASSUME NEW c, c.buf \in Bytes, NEW i \in Index, NEW n \in 0 .. INPUT_BUF_SIZE, NEW m \in 0 .. n
  PROVE  Span(c, (i + m) % UINT, n - m) = SubSeq(Span(c, i, n), m + 1, n)
<1>. DEFINE s == Span(c, i, n)
            k == (i + m) % UINT
            t == Span(c, k, n - m)
            u == SubSeq(s, m + 1, n)
<1>0. n \in Nat /\ m \in Nat /\ n - m \in 0 .. INPUT_BUF_SIZE /\ n - m \in Nat
  BY ConsoleAssumption
<1>1. m \in Index /\ m \in 0 .. INPUT_BUF_SIZE
  BY ConsoleAssumption DEF Index
<1>a. k \in Index
  BY ZenonT(40), <1>1, Moved
<1>2. s \in Seq(Keys) /\ Len(s) = n /\ \A j \in 1 .. n : s[j] = c.buf[Slot(i + j - 1)]
  BY ZenonT(40), SpanIs
<1>3. t \in Seq(Keys) /\ Len(t) = n - m /\ \A j \in 1 .. n - m : t[j] = c.buf[Slot(k + j - 1)]
  BY ZenonT(40), <1>0, <1>a, SpanIs
<1>. HIDE DEF s, t
<1>4. u \in Seq(Keys) /\ Len(u) = n - m /\ \A j \in 1 .. n - m : u[j] = s[m + j]
  BY SMTT(30), <1>0, <1>2
<1>5. ASSUME NEW j \in 1 .. n - m PROVE t[j] = u[j]
  <2>1. /\ j \in 1 .. INPUT_BUF_SIZE /\ m + j \in 1 .. n /\ i + m + j - 1 = i + (m + j) - 1
    BY <1>0, ConsoleAssumption DEF Index
  <2>2. Slot(k + j - 1) = Slot(i + m + j - 1)
    BY ZenonT(40), <1>1, <2>1, Places
  <2>3. t[j] = c.buf[Slot(k + j - 1)] /\ u[j] = s[m + j]
    BY ZenonT(40), <1>3, <1>4
  <2>4. s[m + j] = c.buf[Slot(i + (m + j) - 1)]
    BY ZenonT(40), <1>2, <2>1
  <2>. QED BY ZenonT(40), <2>1, <2>2, <2>3, <2>4
<1>. HIDE DEF u
<1>6. t = u
  BY ZenonT(40), <1>0, <1>3, <1>4, <1>5, SameSpan
<1>. QED BY <1>6 DEF t, u, s

\* A completed line follows what is not read yet.
LEMMA SpanConcat ==
  ASSUME NEW c, c.buf \in Bytes, NEW i \in Index, NEW m \in Nat, NEW n \in Nat,
         m + n <= INPUT_BUF_SIZE
  PROVE  Span(c, i, m) \o Span(c, (i + m) % UINT, n) = Span(c, i, m + n)
<1>. DEFINE k == (i + m) % UINT
            s == Span(c, i, m)
            t == Span(c, k, n)
            u == Span(c, i, m + n)
            v == s \o t
<1>0. /\ m \in 0 .. INPUT_BUF_SIZE /\ n \in 0 .. INPUT_BUF_SIZE /\ m + n \in 0 .. INPUT_BUF_SIZE
      /\ m + n \in Nat
  BY ConsoleAssumption
<1>1. m \in Index
  BY ConsoleAssumption DEF Index
<1>a. k \in Index
  BY ZenonT(40), <1>1, Moved
<1>2. s \in Seq(Keys) /\ Len(s) = m /\ \A j \in 1 .. m : s[j] = c.buf[Slot(i + j - 1)]
  BY ZenonT(40), <1>0, SpanIs
<1>3. t \in Seq(Keys) /\ Len(t) = n /\ \A j \in 1 .. n : t[j] = c.buf[Slot(k + j - 1)]
  BY ZenonT(40), <1>0, <1>a, SpanIs
<1>4. u \in Seq(Keys) /\ Len(u) = m + n /\ \A j \in 1 .. m + n : u[j] = c.buf[Slot(i + j - 1)]
  BY ZenonT(40), <1>0, SpanIs
<1>. HIDE DEF s, t, u
<1>5. /\ v \in Seq(Keys) /\ Len(v) = m + n
      /\ \A j \in 1 .. m : v[j] = s[j]
      /\ \A j \in 1 .. m + n : j > m => v[j] = t[j - m]
  <2>1. /\ v \in Seq(Keys) /\ Len(v) = Len(s) + Len(t)
        /\ \A j \in 1 .. Len(s) + Len(t) : v[j] = IF j <= Len(s) THEN s[j] ELSE t[j - Len(s)]
    BY ZenonT(40), <1>2, <1>3, ConcatProperties
  <2>. HIDE DEF v
  <2>. QED BY <1>2, <1>3, <2>1
<1>6. ASSUME NEW j \in 1 .. m + n PROVE v[j] = u[j]
  <2>1. CASE j \in 1 .. m
    BY ZenonT(40), <2>1, <1>2, <1>4, <1>5
  <2>2. CASE j > m
    <3>1. j - m \in 1 .. n /\ j - m \in 1 .. INPUT_BUF_SIZE /\ i + m + (j - m) - 1 = i + j - 1
      BY <1>0, <2>2, ConsoleAssumption DEF Index
    <3>2. Slot(k + (j - m) - 1) = Slot(i + m + (j - m) - 1)
      BY ZenonT(40), <1>0, <1>1, <3>1, Places
    <3>3. v[j] = t[j - m] /\ t[j - m] = c.buf[Slot(k + (j - m) - 1)]
      BY SMTT(30), <1>3, <1>5, <2>2, <3>1
    <3>4. u[j] = c.buf[Slot(i + j - 1)]
      BY <1>4
    <3>. QED BY <3>1, <3>2, <3>3, <3>4
  <2>3. j \in 1 .. m \/ j > m
    BY <1>0
  <2>. QED BY ZenonT(40), <2>1, <2>2, <2>3
<1>. HIDE DEF v
<1>7. v = u
  BY ZenonT(40), <1>0, <1>4, <1>5, <1>6, SameSpan
<1>. QED BY <1>7 DEF v, u, s, t

\* A character put behind the first n leaves them alone.
LEMMA SpanKept ==
  ASSUME NEW c, NEW d, c.buf \in Bytes, NEW i \in Index, NEW n \in Nat, NEW k \in Nat,
         n <= k, k < INPUT_BUF_SIZE, d.buf \in Bytes,
         \A y \in 0 .. INPUT_BUF_SIZE - 1 : y # Slot((i + k) % UINT) => d.buf[y] = c.buf[y]
  PROVE  Span(d, i, n) = Span(c, i, n)
<1>. DEFINE s == Span(c, i, n)
            t == Span(d, i, n)
<1>0. n \in 0 .. INPUT_BUF_SIZE /\ k \in 0 .. INPUT_BUF_SIZE /\ 1 \in 1 .. INPUT_BUF_SIZE
  BY ConsoleAssumption
<1>1. Slot((i + k) % UINT) = Slot(i + k)
  <2>1. Slot(((i + k) % UINT) + 1 - 1) = Slot(i + k + 1 - 1)
    BY ZenonT(40), <1>0, Places
  <2>2. ((i + k) % UINT) + 1 - 1 = (i + k) % UINT /\ i + k + 1 - 1 = i + k
    BY ConsoleAssumption DEF Index
  <2>. QED BY <2>1, <2>2
<1>3. s \in Seq(Keys) /\ Len(s) = n /\ \A j \in 1 .. n : s[j] = c.buf[Slot(i + j - 1)]
  BY ZenonT(40), <1>0, SpanIs
<1>4. t \in Seq(Keys) /\ Len(t) = n /\ \A j \in 1 .. n : t[j] = d.buf[Slot(i + j - 1)]
  BY ZenonT(40), <1>0, SpanIs
<1>. HIDE DEF s, t
<1>5. ASSUME NEW j \in 1 .. n PROVE t[j] = s[j]
  <2>1. /\ i + j - 1 \in Int /\ k - j + 1 \in 1 .. INPUT_BUF_SIZE - 1
        /\ (i + j - 1) + (k - j + 1) = i + k
    BY ConsoleAssumption DEF Index
  <2>2. Slot((i + j - 1) + (k - j + 1)) # Slot(i + j - 1) /\ Slot(i + j - 1) \in 0 .. INPUT_BUF_SIZE - 1
    BY ZenonT(40), <2>1, Slots
  <2>3. d.buf[Slot(i + j - 1)] = c.buf[Slot(i + j - 1)]
    BY ZenonT(40), <1>1, <2>1, <2>2
  <2>. QED BY <1>3, <1>4, <2>3
<1>6. t = s
  BY ZenonT(40), <1>3, <1>4, <1>5, SameSpan
<1>. QED BY <1>6 DEF s, t

-----------------------------------------------------------------------------
(* What a step does to the ring.                                           *)

\* A set of numbers up to n has a least and a greatest element.
LEMMA Extremes ==
  ASSUME NEW n \in Nat, NEW T, T \subseteq 1 .. n, T # {}
  PROVE  /\ (CHOOSE i \in T : \A j \in T : i <= j) \in T
         /\ (CHOOSE i \in T : \A j \in T : j <= i) \in T
<1>. DEFINE R == {ss \in Nat \X Nat : ss[1] < ss[2]}
            V == {n - i : i \in T}
<1>1. IsWellFoundedOn(R, Nat)
  BY NatLessThanWellFounded DEF OpToRel
<1>2. \A x, y \in Nat : x < y => <<x, y>> \in R
  OBVIOUS
<1>3. T \subseteq Nat /\ V \subseteq Nat /\ V # {}
  <2>1. PICK t : t \in T
    BY ZenonT(40)
  <2>2. n - t \in V
    BY <2>1
  <2>. QED BY <2>2
<1>. HIDE DEF R, V
<1>4. PICK x \in T : \A y \in T : ~ (<<y, x>> \in R)
  BY ZenonT(40), <1>1, <1>3, WFMin
<1>5. PICK z \in V : \A y \in V : ~ (<<y, z>> \in R)
  BY ZenonT(40), <1>1, <1>3, WFMin
<1>6. \A y \in T : x <= y
  <2>. TAKE y \in T
  <2>1. ~ (y < x)
    BY ZenonT(40), <1>2, <1>3, <1>4
  <2>. QED BY <1>3, <2>1
<1>7. PICK g \in T : z = n - g
  BY DEF V
<1>8. \A y \in T : y <= g
  <2>. TAKE y \in T
  <2>1. n - y \in V /\ n - y \in Nat /\ z \in Nat
    BY <1>3 DEF V
  <2>2. ~ (n - y < z)
    BY ZenonT(40), <1>2, <1>5, <2>1
  <2>. QED BY <1>3, <1>7, <2>1, <2>2
<1>. QED BY ZenonT(40), <1>6, <1>8

\* consoleread() takes n characters of the completed lines and returns, or takes
\* them all and sleeps (console.c:102).
Takes(p, n) ==
  /\ io[p].state = "running"
  /\ cons' \in Rings /\ cons'.r = (cons.r + n) % UINT
  /\ cons'.buf = cons.buf /\ cons'.w = cons.w /\ cons'.e = cons.e
  /\ unread' = SubSeq(unread, n + 1, Len(unread))
  /\ \/ io' = [io EXCEPT ![p] = Idle]
     \/ /\ n = Diff(cons.w, cons.r)
        /\ \E c \in Calls : c.state = "asleep" /\ c.n > 0 /\ io' = [io EXCEPT ![p] = c]
  /\ UNCHANGED <<uart, tx_busy, intr>>

\* consoleread() takes as many characters as one of its conditions says.
LEMMA ReadCases ==
  ASSUME ConsoleTypeOK, InputInOrder, NEW p \in Readers, NEW bad \in 0 .. INPUT_BUF_SIZE,
         consoleread(p, bad)
  PROVE  \E n \in 0 .. Diff(cons.w, cons.r) : Takes(p, n)
<1>. DEFINE P     == io[p]
            k     == Diff(cons.w, cons.r)
            ready == Span(cons, cons.r, k)
            ends  == {i \in DOMAIN ready : i = P.n \/ ready[i] \in {"nl", "eof"} \/ i = bad}
            last  == CHOOSE i \in ends : \A j \in ends : i <= j
            put   == ready[last] = "eof" /\ (P.some \/ last > 1)
            n     == IF ends = {} THEN Len(ready) ELSE IF put THEN last - 1 ELSE last
            call  == [P EXCEPT !.state = "asleep", !.n = @ - n, !.some = @ \/ n > 0]
<1>1. /\ cons \in Rings /\ cons.buf \in Bytes /\ cons.r \in Index /\ cons.w \in Index /\ cons.e \in Index
      /\ P \in Calls /\ (P.state = "running" => P.n > 0)
  BY SMTT(30) DEF ConsoleTypeOK, Rings
<1>2. k \in Nat /\ k <= INPUT_BUF_SIZE /\ k \in 0 .. INPUT_BUF_SIZE /\ unread = ready
  <2>1. k \in Nat /\ Diff(cons.e, cons.w) \in Nat
    <3>1. k \in Index /\ Diff(cons.e, cons.w) \in Index
      BY ZenonT(40), <1>1, Distance
    <3>. QED BY <3>1 DEF Index
  <2>. QED BY <2>1, ConsoleAssumption DEF InputInOrder
<1>3. ready \in Seq(Keys) /\ Len(ready) = k /\ DOMAIN ready = 1 .. k
  BY <1>1, <1>2, SpanIs
<1>4. ends # {} => last \in ends
  BY ZenonT(40), <1>2, <1>3, Extremes
<1>5. /\ P.state = "running"
      /\ cons' = [cons EXCEPT !.r = (cons.r + n) % UINT]
      /\ unread' = SubSeq(unread, n + 1, Len(unread))
      /\ \/ io' = [io EXCEPT ![p] = Idle]
         \/ ends = {} /\ ~P.killed /\ io' = [io EXCEPT ![p] = call]
      /\ UNCHANGED <<uart, tx_busy, intr>>
  BY ZenonT(40) DEF consoleread
<1>. HIDE DEF ready, last
<1>6. n \in 0 .. k /\ (ends = {} => n = k)
  BY <1>2, <1>3, <1>4
<1>7. ends = {} /\ P.state = "running" => n < P.n
  <2>. SUFFICES ASSUME ends = {}, P.state = "running" PROVE k < P.n
    BY <1>6
  <2>1. P.n \notin 1 .. k
    BY <1>3
  <2>. QED BY <1>1, <1>2, <2>1 DEF Calls
<1>. HIDE DEF ends, n, k
<1>8. (cons.r + n) % UINT \in Index
  <2>1. k \in 0 .. k /\ Diff(cons.w, cons.r) = k
    BY <1>2 DEF k
  <2>. QED BY <1>1, <1>6, Indices DEF InputInOrder, k
<1>9. /\ cons' \in Rings /\ cons'.r = (cons.r + n) % UINT
      /\ cons'.buf = cons.buf /\ cons'.w = cons.w /\ cons'.e = cons.e
  BY <1>1, <1>5, <1>8 DEF Rings
<1>10. n < P.n => call \in Calls /\ call.state = "asleep" /\ call.n > 0
  <2>. SUFFICES ASSUME n < P.n PROVE call \in Calls /\ call.state = "asleep" /\ call.n > 0
    OBVIOUS
  <2>. HIDE DEF P
  <2>1. P.n - n \in Nat /\ P.n - n > 0
    BY <1>1, <1>2, <1>6 DEF Calls
  <2>2. (P.some \/ n > 0) \in BOOLEAN
    BY ZenonT(40)
  <2>3. call.state = "asleep" /\ call.n = P.n - n
    BY <1>1 DEF Calls
  <2>4. call \in Calls
    BY ZenonT(40), <1>1, <2>1, <2>2 DEF Calls
  <2>. QED BY <2>1, <2>3, <2>4
<1>. HIDE DEF P, call
<1>11. Takes(p, n)
  BY ZenonT(40), <1>5, <1>6, <1>7, <1>9, <1>10 DEF Takes, k, P
<1>. QED BY ZenonT(40), <1>6, <1>11 DEF k

\* consoleintr() erases n characters of the line being edited (console.c:150) ...
Erases(n) ==
  /\ cons' \in Rings /\ cons'.e = (cons.e - n) % UINT
  /\ cons'.buf = cons.buf /\ cons'.r = cons.r /\ cons'.w = cons.w
  /\ UNCHANGED <<io, unread>>
\* ... or stores one more, which may complete the line (console.c:165).
Stores(c) ==
  /\ Diff(cons.e, cons.r) < INPUT_BUF_SIZE
  /\ cons' \in Rings /\ cons'.buf = [cons.buf EXCEPT ![Slot(cons.e)] = c]
  /\ cons'.r = cons.r /\ cons'.e = (cons.e + 1) % UINT
  /\ \/ cons'.w = cons.w /\ Diff(cons'.e, cons.r) # INPUT_BUF_SIZE /\ UNCHANGED <<io, unread>>
     \/ /\ cons'.w = cons'.e /\ io' = Wake(Readers)
        /\ unread' = unread \o Span(cons', cons.w, Diff(cons'.e, cons.w))
\* The character leaves the receiver; its echo may enter the transmitter.
Echoes ==
  /\ uart' \in Ports /\ uart'.rx = Tail(uart.rx)
  /\ \/ uart'.fifo = 1 /\ uart'.thre = FALSE
     \/ uart'.fifo = uart.fifo /\ uart'.thre = uart.thre

\* The echo of a character leaves the ring.
LEMMA EchoCases ==
  ASSUME ConsoleTypeOK, uart.rx # << >>, Echo \/ NoEcho
  PROVE  Echoes
<1>1. uart \in Ports /\ Tail(uart.rx) \in Seq(Keys)
  <2>1. uart \in Ports /\ uart.rx \in Seq(Keys)
    BY DEF ConsoleTypeOK, Ports
  <2>. QED BY <2>1, HeadTailProperties
<1>2. ASSUME Echo PROVE Echoes
  BY ZenonT(40), <1>1, <1>2 DEF Echo, Echoes, Ports
<1>3. ASSUME NoEcho PROVE Echoes
  BY <1>1, <1>3 DEF NoEcho, Echoes, Ports
<1>. QED BY <1>2, <1>3

\* ^U erases no more than the line being edited.
LEMMA KillsEdit ==
  ASSUME ConsoleTypeOK, InputInOrder
  PROVE  Killed \in 0 .. Diff(cons.e, cons.w)
<1>. DEFINE k    == Diff(cons.e, cons.w)
            edit == Span(cons, cons.w, k)
            nls  == {i \in DOMAIN edit : edit[i] = "nl"}
            g    == CHOOSE i \in nls : \A j \in nls : j <= i
<1>1. cons.buf \in Bytes /\ cons.r \in Index /\ cons.w \in Index /\ cons.e \in Index
  BY DEF ConsoleTypeOK, Rings
<1>2. k \in Nat /\ k \in 0 .. INPUT_BUF_SIZE
  <2>1. k \in Index /\ Diff(cons.w, cons.r) \in Index
    BY ZenonT(40), <1>1, Distance
  <2>. QED BY <2>1, ConsoleAssumption DEF InputInOrder, Index
<1>3. edit \in Seq(Keys) /\ Len(edit) = k /\ DOMAIN edit = 1 .. k
  BY <1>1, <1>2, SpanIs
<1>4. nls # {} => g \in nls
  BY ZenonT(40), <1>2, <1>3, Extremes
<1>5. Killed = IF nls = {} THEN Len(edit) ELSE Len(edit) - g
  BY ZenonT(40) DEF Killed
<1>. HIDE DEF edit, g
<1>6. Len(edit) = k /\ (nls # {} => g \in 1 .. k)
  BY <1>3, <1>4
<1>. HIDE DEF nls, k
<1>7. Killed \in 0 .. k
  BY <1>2, <1>5, <1>6
<1>. QED BY <1>7 DEF k

\* Erasing moves e back, and e stays an index.
LEMMA EraseCases ==
  ASSUME ConsoleTypeOK, InputInOrder, NEW n \in 0 .. Diff(cons.e, cons.w), Erase(n)
  PROVE  Erases(n)
<1>1. cons \in Rings /\ cons.r \in Index /\ cons.w \in Index /\ cons.e \in Index
  BY DEF ConsoleTypeOK, Rings
<1>2. (cons.e - n) % UINT \in Index
  BY <1>1, Indices DEF InputInOrder
<1>3. cons' = [cons EXCEPT !.e = (cons.e - n) % UINT] /\ UNCHANGED <<io, unread>>
  BY ZenonT(40) DEF Erase
<1>. QED BY <1>1, <1>2, <1>3 DEF Erases, Rings

\* A character is stored, or dropped because the ring is full.
LEMMA InsertCases ==
  ASSUME ConsoleTypeOK, InputInOrder, NEW c \in Keys, Insert(c)
  PROVE  Stores(c) \/ UNCHANGED <<cons, io, unread>>
<1>. DEFINE new == Stored(c)
            at  == cons.e % INPUT_BUF_SIZE
            nxt == (cons.e + 1) % UINT
<1>1. /\ cons \in Rings /\ cons.buf \in Bytes
      /\ cons.r \in Index /\ cons.w \in Index /\ cons.e \in Index
  BY DEF ConsoleTypeOK, Rings
<1>. SUFFICES ASSUME Diff(cons.e, cons.r) < INPUT_BUF_SIZE PROVE Stores(c)
  BY ZenonT(40) DEF Insert
<1>2. nxt \in Index
  BY <1>1, Indices DEF InputInOrder
<1>3. at \in 0 .. INPUT_BUF_SIZE - 1 /\ at = Slot(cons.e)
  BY <1>1, Slots DEF Index, Slot
<1>4. \/ cons' = new /\ Diff(new.e, cons.r) # INPUT_BUF_SIZE /\ UNCHANGED <<io, unread>>
      \/ /\ cons' = [new EXCEPT !.w = new.e] /\ io' = Wake(Readers)
         /\ unread' = unread \o Span(new, cons.w, Diff(new.e, cons.w))
  BY ZenonT(40) DEF Insert
<1>5. new = [cons EXCEPT !.buf = [cons.buf EXCEPT ![at] = c], !.e = nxt]
  BY <1>1 DEF Stored, Rings
<1>. HIDE DEF at, nxt
<1>6. [cons.buf EXCEPT ![at] = c] \in Bytes
  BY <1>1, <1>3 DEF Bytes
<1>7. /\ new \in Rings /\ new.buf = [cons.buf EXCEPT ![at] = c]
      /\ new.r = cons.r /\ new.w = cons.w /\ new.e = nxt
  BY ZenonT(40), <1>1, <1>2, <1>5, <1>6 DEF Rings
<1>. HIDE DEF new
<1>8. CASE cons' = new /\ Diff(new.e, cons.r) # INPUT_BUF_SIZE /\ UNCHANGED <<io, unread>>
  BY ZenonT(40), <1>3, <1>7, <1>8 DEF Stores, nxt
<1>9. CASE /\ cons' = [new EXCEPT !.w = new.e] /\ io' = Wake(Readers)
           /\ unread' = unread \o Span(new, cons.w, Diff(new.e, cons.w))
  <2>1. /\ cons' \in Rings /\ cons'.buf = new.buf /\ cons'.r = new.r /\ cons'.e = new.e
        /\ cons'.w = new.e
    BY <1>7, <1>9 DEF Rings
  <2>2. Span(cons', cons.w, Diff(new.e, cons.w)) = Span(new, cons.w, Diff(new.e, cons.w))
    BY ZenonT(40), <2>1 DEF Span
  <2>. QED BY ZenonT(40), <1>3, <1>7, <1>9, <2>1, <2>2 DEF Stores, nxt
<1>. QED BY <1>4, <1>8, <1>9

\* consoleintr() erases, stores or drops.
LEMMA IntrCases ==
  ASSUME ConsoleTypeOK, InputInOrder, consoleintr
  PROVE  /\ Echoes /\ UNCHANGED <<tx_busy, intr>>
         /\ \/ \E n \in 0 .. Diff(cons.e, cons.w) : Erases(n)
            \/ \E c \in Keys : Stores(c)
            \/ UNCHANGED <<cons, io, unread>>
<1>. DEFINE c == Head(uart.rx)
<1>1. uart.rx # << >> /\ UNCHANGED <<tx_busy, intr>>
  BY ZenonT(40) DEF consoleintr
<1>2. c \in Keys
  <2>1. uart.rx \in Seq(Keys)
    BY DEF ConsoleTypeOK, Ports
  <2>. QED BY <1>1, <2>1, HeadTailProperties
<1>3. Erase(Killed) \/ Erase(IF cons.e # cons.w THEN 1 ELSE 0) \/ Insert(c)
  BY ZenonT(40) DEF consoleintr
<1>4. Echo \/ NoEcho
  BY ZenonT(40), <1>3 DEF Erase, Insert
<1>5. Echoes
  BY <1>1, <1>4, EchoCases
<1>6. (IF cons.e # cons.w THEN 1 ELSE 0) \in 0 .. Diff(cons.e, cons.w)
  <2>1. cons.e \in Index /\ cons.w \in Index
    BY DEF ConsoleTypeOK, Rings
  <2>2. Diff(cons.e, cons.w) \in Index /\ (Diff(cons.e, cons.w) = 0 <=> cons.e = cons.w)
    BY ZenonT(40), <2>1, Distance, Reach
  <2>. QED BY <2>2 DEF Index
<1>. HIDE DEF c
<1>. QED BY ZenonT(40), <1>1, <1>2, <1>3, <1>5, <1>6, KillsEdit, EraseCases, InsertCases

\* wakeup() makes those of ps that sleep run again and changes nothing else.
LEMMA WakeIs ==
  ASSUME ConsoleTypeOK, NEW ps
  PROVE  /\ Wake(ps) \in [Readers \cup Writers -> Calls]
         /\ \A q \in Readers \cup Writers :
              /\ Wake(ps)[q].n = io[q].n /\ (Wake(ps)[q].state = "idle" <=> io[q].state = "idle")
              /\ Wake(ps)[q].state = "asleep" => io[q].state = "asleep" /\ q \notin ps
<1>1. io \in [Readers \cup Writers -> Calls] /\ DOMAIN io = Readers \cup Writers
  BY DEF ConsoleTypeOK
<1>2. ASSUME NEW c \in Calls
      PROVE  /\ [c EXCEPT !.state = "running"] \in Calls
             /\ [c EXCEPT !.state = "running"].n = c.n
             /\ [c EXCEPT !.state = "running"].state = "running"
  BY DEF Calls
<1>. QED BY ZenonT(40), <1>1, <1>2 DEF Wake

\* What a step of the console is.
LEMMA ConsoleCases ==
  ASSUME ConsoleTypeOK, InputInOrder, ConsoleNext
  PROVE  \/ \E p \in Readers, n \in 0 .. Diff(cons.w, cons.r) : Takes(p, n)
         \/ \E p \in Readers \cup Writers : kkill(p)
         \/ \E p \in Writers : uartwrite(p)
         \/ \E p \in Writers, bad \in BOOLEAN : consolewrite(p, bad)
         \/ \E p \in Readers \cup Writers : \E n \in 1 .. MaxCount(p) : Call(p, n)
         \/ \E c \in Keys : Type(c)
         \/ Sent \/ Acknowledge \/ TransmitDone \/ consoleintr \/ NoMoreInput
<1>1. DOMAIN io = Readers \cup Writers
  BY DEF ConsoleTypeOK
<1>. QED BY ZenonT(40), <1>1, ReadCases DEF ConsoleNext

\* The types are kept ...
LEMMA TypeNext == CInv /\ [ConsoleNext]_consvars => ConsoleTypeOK'
<1>. SUFFICES ASSUME ConsoleTypeOK, InputInOrder, [ConsoleNext]_consvars PROVE ConsoleTypeOK'
  BY DEF CInv
<1>0. CASE UNCHANGED consvars
  BY <1>0 DEF ConsoleTypeOK, consvars
<1>. SUFFICES ASSUME ConsoleNext PROVE ConsoleTypeOK'
  BY <1>0
<1>. DEFINE U == Readers \cup Writers
            Asks == \A q \in U : io[q].state # "idle" => io[q].n > 0
<1>a. /\ cons \in Rings /\ uart \in Ports /\ Len(uart.rx) <= RXFIFO
      /\ tx_busy \in BOOLEAN /\ intr \in {"none", "transmit", "input"}
      /\ io \in [U -> Calls] /\ unread \in Seq(Keys) /\ Asks
  BY ZenonT(40) DEF ConsoleTypeOK
<1>b. Idle \in Calls /\ Idle.state = "idle"
  BY DEF Idle, Calls
<1>c. uart.rx \in Seq(Keys) /\ uart.fifo \in Nat /\ uart.thre \in BOOLEAN /\ RXFIFO \in Nat
  BY <1>a, ConsoleAssumption DEF Ports
<1>1. ASSUME NEW p \in Readers, NEW n \in 0 .. Diff(cons.w, cons.r), Takes(p, n)
      PROVE  ConsoleTypeOK'
  <2>1. unread' \in Seq(Keys)
    <3>1. n \in Nat /\ unread' = SubSeq(unread, n + 1, Len(unread))
      BY <1>1 DEF Takes
    <3>2. \A i \in n + 1 .. Len(unread) : unread[i] \in Keys
      BY <1>a, <3>1
    <3>. QED BY <1>a, <3>1, <3>2, SubSeqProperties
  <2>2. PICK c \in Calls : (c.state # "idle" => c.n > 0) /\ io' = [io EXCEPT ![p] = c]
    BY ZenonT(40), <1>1, <1>b DEF Takes
  <2>3. io' \in [U -> Calls] /\ Asks'
    BY <1>a, <2>2
  <2>. QED BY ZenonT(40), <1>1, <1>a, <2>1, <2>3 DEF Takes, ConsoleTypeOK
<1>2. ASSUME NEW p \in U, kkill(p) PROVE ConsoleTypeOK'
  <2>. DEFINE c == [Wake({p})[p] EXCEPT !.killed = TRUE]
  <2>1. io' = [Wake({p}) EXCEPT ![p] = c] /\ UNCHANGED <<cons, uart, tx_busy, intr, unread>>
    BY ZenonT(40), <1>2 DEF kkill
  <2>2. /\ Wake({p}) \in [U -> Calls]
        /\ \A q \in U : Wake({p})[q].state # "idle" => Wake({p})[q].n > 0
    BY <1>a, WakeIs
  <2>3. c \in Calls /\ (c.state # "idle" => c.n > 0)
    <3>1. Wake({p})[p] \in Calls /\ (Wake({p})[p].state # "idle" => Wake({p})[p].n > 0)
      BY ZenonT(40), <2>2
    <3>2. c.state = Wake({p})[p].state /\ c.n = Wake({p})[p].n
      BY <3>1 DEF Calls
    <3>3. c \in Calls
      BY ZenonT(40), <3>1 DEF Calls
    <3>. QED BY ZenonT(40), <3>1, <3>2, <3>3
  <2>. HIDE DEF c
  <2>4. io' \in [U -> Calls] /\ Asks'
    <3>1. ASSUME NEW f \in [U -> Calls], \A q \in U : f[q].state # "idle" => f[q].n > 0,
                 io' = [f EXCEPT ![p] = c]
          PROVE  io' \in [U -> Calls] /\ Asks'
      BY <2>3, <3>1
    <3>. QED BY ZenonT(40), <2>1, <2>2, <3>1
  <2>. QED BY ZenonT(40), <1>a, <2>1, <2>4 DEF ConsoleTypeOK
<1>3. ASSUME NEW p \in Writers, uartwrite(p) PROVE ConsoleTypeOK'
  <2>1. io[p] \in Calls /\ io[p].n \in Nat /\ io[p].n > 0
    BY <1>a, <1>3 DEF uartwrite, Calls
  <2>2. PICK c \in Calls : (c.state # "idle" => c.n > 0) /\ io' = [io EXCEPT ![p] = c]
    <3>1. CASE tx_busy
      <4>. DEFINE c == [io[p] EXCEPT !.state = "asleep"]
      <4>1. c \in Calls /\ c.n > 0
        BY <2>1 DEF Calls
      <4>2. io' = [io EXCEPT ![p] = c]
        BY ZenonT(40), <1>3, <3>1 DEF uartwrite
      <4>. QED BY ZenonT(40), <4>1, <4>2
    <3>2. CASE ~tx_busy /\ io[p].n = 1
      <4>1. io' = [io EXCEPT ![p] = Idle]
        BY <1>3, <3>2 DEF uartwrite
      <4>. QED BY ZenonT(40), <1>b, <4>1
    <3>3. CASE ~tx_busy /\ io[p].n # 1
      <4>. DEFINE st == IF io[p].nn = 1 THEN "copy" ELSE "asleep"
                  c  == [io[p] EXCEPT !.n = io[p].n - 1, !.nn = io[p].nn - 1, !.state = st]
      <4>1. /\ io[p].n - 1 \in Nat /\ io[p].n - 1 > 0 /\ io[p].nn - 1 \in Int
            /\ st \in {"idle", "copy", "running", "asleep"}
        BY <2>1, <3>3 DEF Calls
      <4>2. c \in Calls /\ c.n = io[p].n - 1
        BY ZenonT(40), <2>1, <4>1 DEF Calls
      <4>3. io' = [io EXCEPT ![p] = c]
        <5>1. io' = [io EXCEPT ![p] = IF io[p].n = 1 THEN Idle ELSE c]
          BY <1>3, <3>3 DEF uartwrite
        <5>2. (IF io[p].n = 1 THEN Idle ELSE c) = c
          BY ZenonT(40), <3>3
        <5>. QED BY ZenonT(40), <5>1, <5>2
      <4>. QED BY ZenonT(40), <4>1, <4>2, <4>3
    <3>. QED BY <1>a, <3>1, <3>2, <3>3
  <2>3. io' \in [U -> Calls] /\ Asks'
    BY <1>a, <2>2
  <2>4. uart' \in Ports /\ uart'.rx = uart.rx /\ tx_busy' \in BOOLEAN
    <3>1. \/ uart' = uart /\ tx_busy' = tx_busy
          \/ uart' = [uart EXCEPT !.fifo = uart.fifo + 1, !.thre = FALSE] /\ tx_busy' = TRUE
      BY ZenonT(40), <1>3 DEF uartwrite
    <3>2. uart.fifo + 1 \in Nat
      BY <1>c
    <3>. QED BY ZenonT(40), <1>a, <3>1, <3>2 DEF Ports
  <2>5. UNCHANGED <<cons, intr, unread>>
    BY <1>3 DEF uartwrite
  <2>. QED BY ZenonT(40), <1>a, <2>3, <2>4, <2>5 DEF ConsoleTypeOK
<1>3b. ASSUME NEW p \in Writers, NEW bad \in BOOLEAN, consolewrite(p, bad) PROVE ConsoleTypeOK'
  <2>. DEFINE k == IF WRITE_BUF > io[p].n THEN io[p].n ELSE WRITE_BUF
              b == [io[p] EXCEPT !.state = "running", !.nn = k]
              c == IF bad THEN Idle ELSE b
  <2>1. io' = [io EXCEPT ![p] = c] /\ UNCHANGED <<cons, uart, tx_busy, intr, unread>>
    BY ZenonT(40), <1>3b DEF consolewrite
  <2>2. io[p] \in Calls /\ io[p].n > 0
    BY <1>a, <1>3b DEF consolewrite
  <2>3. k \in Int
    BY <2>2, ConsoleAssumption DEF Calls
  <2>. HIDE DEF k
  <2>4. b \in Calls /\ b.n = io[p].n
    BY ZenonT(40), <2>2, <2>3 DEF Calls
  <2>. HIDE DEF b
  <2>5. c \in Calls /\ (c.state # "idle" => c.n > 0)
    BY ZenonT(40), <1>b, <2>2, <2>4
  <2>. HIDE DEF c
  <2>6. io' \in [U -> Calls] /\ Asks'
    BY <1>a, <2>1, <2>5
  <2>. QED BY ZenonT(40), <1>a, <2>1, <2>6 DEF ConsoleTypeOK
<1>4. ASSUME NEW p \in U, NEW n \in 1 .. MaxCount(p), Call(p, n) PROVE ConsoleTypeOK'
  <2>. DEFINE st == IF p \in Readers THEN "running" ELSE "copy"
              c  == [Idle EXCEPT !.state = st, !.n = n]
  <2>1. io' = [io EXCEPT ![p] = c] /\ UNCHANGED <<cons, uart, tx_busy, intr, unread>>
    BY ZenonT(40), <1>4 DEF Call
  <2>2. c \in Calls /\ c.n > 0
    <3>1. n \in Nat /\ n > 0 /\ 0 \in Nat /\ 0 \in Int
      BY ConsoleAssumption DEF MaxCount
    <3>2. st \in {"idle", "copy", "running", "asleep"}
      BY ZenonT(40)
    <3>. QED BY ZenonT(40), <3>1, <3>2 DEF Idle, Calls
  <2>. HIDE DEF c
  <2>3. io' \in [U -> Calls] /\ Asks'
    BY <1>a, <2>1, <2>2
  <2>. QED BY ZenonT(40), <1>a, <2>1, <2>3 DEF ConsoleTypeOK
<1>5. ASSUME NEW c \in Keys, Type(c) PROVE ConsoleTypeOK'
  <2>1. uart' = [uart EXCEPT !.rx = Append(uart.rx, c)] /\ Len(uart.rx) < RXFIFO
    BY <1>5 DEF Type
  <2>2. Append(uart.rx, c) \in Seq(Keys) /\ Len(Append(uart.rx, c)) <= RXFIFO
    BY <1>c, <2>1
  <2>3. uart' \in Ports /\ Len(uart'.rx) <= RXFIFO
    BY ZenonT(40), <1>a, <2>1, <2>2 DEF Ports
  <2>. QED BY ZenonT(40), <1>5, <1>a, <2>3 DEF Type, ConsoleTypeOK
<1>6. ASSUME Sent PROVE ConsoleTypeOK'
  <2>1. uart' = [uart EXCEPT !.fifo = uart.fifo - 1, !.thre = (uart.fifo = 1)] /\ uart.fifo > 0
    BY <1>6 DEF Sent
  <2>2. uart.fifo - 1 \in Nat /\ (uart.fifo = 1) \in BOOLEAN
    BY <1>c, <2>1
  <2>3. uart' \in Ports /\ uart'.rx = uart.rx
    BY ZenonT(40), <1>a, <2>1, <2>2 DEF Ports
  <2>. QED BY ZenonT(40), <1>6, <1>a, <2>3 DEF Sent, ConsoleTypeOK
<1>7. ASSUME Acknowledge PROVE ConsoleTypeOK'
  <2>1. uart' \in Ports /\ uart'.rx = uart.rx
    BY ZenonT(40), <1>7, <1>a DEF Acknowledge, Ports
  <2>. QED BY ZenonT(40), <1>7, <1>a, <2>1 DEF Acknowledge, ConsoleTypeOK
<1>8. ASSUME TransmitDone PROVE ConsoleTypeOK'
  <2>1. /\ Wake(Writers) \in [U -> Calls]
        /\ \A q \in U : Wake(Writers)[q].state # "idle" => Wake(Writers)[q].n > 0
    BY <1>a, WakeIs
  <2>. QED BY ZenonT(40), <1>8, <1>a, <2>1 DEF TransmitDone, ConsoleTypeOK
<1>9. ASSUME consoleintr PROVE ConsoleTypeOK'
  <2>1. Echoes /\ UNCHANGED <<tx_busy, intr>>
    BY <1>9, IntrCases
  <2>2. uart' \in Ports /\ Len(uart'.rx) <= RXFIFO
    <3>1. uart.rx # << >> /\ uart' \in Ports /\ uart'.rx = Tail(uart.rx)
      BY <1>9, <2>1 DEF consoleintr, Echoes
    <3>2. Len(Tail(uart.rx)) = Len(uart.rx) - 1 /\ Len(uart.rx) \in Nat
      BY <1>c, <3>1, HeadTailProperties
    <3>. QED BY <1>a, <1>c, <3>1, <3>2
  <2>3. cons' \in Rings
    BY ZenonT(40), <1>9, <1>a, IntrCases DEF Erases, Stores
  <2>4. io' \in [U -> Calls] /\ Asks'
    <3>1. io' = io \/ io' = Wake(Readers)
      BY ZenonT(40), <1>9, IntrCases DEF Erases, Stores
    <3>2. /\ Wake(Readers) \in [U -> Calls]
          /\ \A q \in U : Wake(Readers)[q].state # "idle" => Wake(Readers)[q].n > 0
      BY <1>a, WakeIs
    <3>. QED BY ZenonT(40), <1>a, <3>1, <3>2
  <2>5. unread' \in Seq(Keys)
    <3>1. CASE UNCHANGED unread
      BY <1>a, <3>1
    <3>2. ASSUME NEW t \in Seq(Keys), unread' = unread \o t PROVE unread' \in Seq(Keys)
      BY <1>a, <3>2
    <3>3. ASSUME NEW c \in Keys, Stores(c) PROVE Span(cons', cons.w, Diff(cons'.e, cons.w)) \in Seq(Keys)
      <4>1. /\ cons.r \in Index /\ cons.w \in Index /\ cons.e \in Index
            /\ cons' \in Rings /\ cons'.buf \in Bytes
        BY SMTT(30), <1>a, <3>3 DEF Stores, Rings
      <4>2. Diff(cons'.e, cons.w) = Diff(cons.e, cons.w) + 1
        BY <3>3, <4>1, Indices DEF Stores, InputInOrder
      <4>3. Diff(cons.e, cons.w) \in Index /\ Diff(cons.w, cons.r) \in Index
        BY ZenonT(40), <4>1, Distance
      <4>4. Diff(cons'.e, cons.w) \in 0 .. INPUT_BUF_SIZE
        BY <3>3, <4>2, <4>3, ConsoleAssumption DEF Stores, InputInOrder, Index
      <4>. QED BY ZenonT(40), <4>1, <4>4, SpanIs
    <3>. QED BY ZenonT(40), <1>9, <3>1, <3>2, <3>3, IntrCases DEF Erases, Stores
  <2>. QED BY ZenonT(40), <1>a, <2>1, <2>2, <2>3, <2>4, <2>5 DEF ConsoleTypeOK
<1>10. ASSUME NoMoreInput PROVE ConsoleTypeOK'
  BY ZenonT(40), <1>10, <1>a DEF NoMoreInput, ConsoleTypeOK
<1>. HIDE DEF U
<1>. QED BY ZenonT(40), <1>1, <1>2, <1>3, <1>3b, <1>4, <1>5, <1>6, <1>7, <1>8, <1>9, <1>10,
            ConsoleCases DEF U

\* What the steps leave alone.
LEMMA RingAlone ==
  ASSUME ConsoleTypeOK, InputInOrder, [ConsoleNext]_consvars
  PROVE  \/ UNCHANGED <<cons, unread>>
         \/ \E p \in Readers, n \in 0 .. Diff(cons.w, cons.r) : Takes(p, n)
         \/ \E n \in 0 .. Diff(cons.e, cons.w) : Erases(n)
         \/ \E c \in Keys : Stores(c)
<1>1. \/ UNCHANGED consvars
      \/ \E p \in Readers, n \in 0 .. Diff(cons.w, cons.r) : Takes(p, n)
      \/ \E p \in Readers \cup Writers : kkill(p)
      \/ \E p \in Writers : uartwrite(p)
      \/ \E p \in Writers, bad \in BOOLEAN : consolewrite(p, bad)
      \/ \E p \in Readers \cup Writers : \E n \in 1 .. MaxCount(p) : Call(p, n)
      \/ \E c \in Keys : Type(c)
      \/ Sent \/ Acknowledge \/ TransmitDone \/ consoleintr \/ NoMoreInput
  BY ZenonT(40), ConsoleCases
<1>2. ASSUME \/ UNCHANGED consvars
             \/ \E p \in Readers \cup Writers : kkill(p)
             \/ \E p \in Writers : uartwrite(p)
             \/ \E p \in Writers, bad \in BOOLEAN : consolewrite(p, bad)
             \/ \E p \in Readers \cup Writers : \E n \in 1 .. MaxCount(p) : Call(p, n)
      PROVE  UNCHANGED <<cons, unread>>
  BY ZenonT(40), <1>2 DEF consvars, kkill, uartwrite, consolewrite, Call
<1>3. ASSUME \/ \E c \in Keys : Type(c)
             \/ Sent \/ Acknowledge \/ TransmitDone \/ NoMoreInput
      PROVE  UNCHANGED <<cons, unread>>
  BY ZenonT(40), <1>3 DEF Type, Sent, Acknowledge, TransmitDone, NoMoreInput
<1>4. ASSUME consoleintr
      PROVE  \/ UNCHANGED <<cons, unread>>
             \/ \E n \in 0 .. Diff(cons.e, cons.w) : Erases(n)
             \/ \E c \in Keys : Stores(c)
  BY ZenonT(40), <1>4, IntrCases
<1>. QED BY ZenonT(40), <1>1, <1>2, <1>3, <1>4

\* ... the reads get what was typed, in order, and a full ring is read ...
LEMMA OrderNext ==
  ASSUME ConsoleTypeOK, InputInOrder, Progress, [ConsoleNext]_consvars
  PROVE  /\ InputInOrder'
         /\ Diff(cons'.e, cons'.r) = INPUT_BUF_SIZE => cons'.e = cons'.w
<1>. DEFINE r == cons.r
            w == cons.w
            e == cons.e
            S == INPUT_BUF_SIZE
            G == /\ InputInOrder'
                 /\ Diff(cons'.e, cons'.r) = S => cons'.e = cons'.w
<1>0. /\ r \in Index /\ w \in Index /\ e \in Index /\ cons.buf \in Bytes
      /\ S \in Nat \ {0} /\ UINT \in Nat /\ UINT > S
  BY ConsoleAssumption DEF ConsoleTypeOK, Rings
<1>1. /\ Diff(w, r) + Diff(e, w) = Diff(e, r) /\ Diff(e, r) <= S
      /\ unread = Span(cons, r, Diff(w, r)) /\ (Diff(e, r) = S => e = w)
  BY ZenonT(40) DEF InputInOrder, Progress
<1>2. Diff(w, r) \in Nat /\ Diff(e, w) \in Nat /\ Diff(e, r) \in Nat
  <2>1. Diff(w, r) \in Index /\ Diff(e, w) \in Index /\ Diff(e, r) \in Index
    BY ZenonT(40), <1>0, Distance
  <2>. QED BY <2>1 DEF Index
<1>3. w = (r + Diff(w, r)) % UINT /\ e = (r + Diff(e, r)) % UINT /\ (Diff(e, w) = 0 <=> e = w)
  BY ZenonT(40), <1>0, Reach
<1>. HIDE DEF r, w, e, S
<1>4. ASSUME UNCHANGED <<cons, unread>> PROVE G
  BY ZenonT(40), <1>4 DEF InputInOrder, Progress, S
<1>5. ASSUME NEW p \in Readers, NEW n \in 0 .. Diff(w, r), Takes(p, n) PROVE G
  <2>. DEFINE k == (r + n) % UINT
  <2>1. /\ cons'.r = k /\ cons'.buf = cons.buf /\ cons'.w = w /\ cons'.e = e
        /\ unread' = SubSeq(unread, n + 1, Len(unread))
    BY ZenonT(40), <1>5 DEF Takes, r, w, e
  <2>2. Diff(w, k) = Diff(w, r) - n /\ Diff(e, k) = Diff(e, r) - n
    BY <1>0, <1>1, Indices DEF S
  <2>3. Span(cons', k, Diff(w, r) - n) = unread'
    <3>1. Diff(w, r) \in 0 .. S
      BY <1>0, <1>1, <1>2
    <3>2. Len(unread) = Diff(w, r)
      BY ZenonT(40), <1>0, <1>1, <3>1, SpanIs DEF S
    <3>3. Span(cons, k, Diff(w, r) - n) = SubSeq(unread, n + 1, Diff(w, r))
      BY ZenonT(40), <1>0, <1>1, <3>1, SpanTail DEF S
    <3>4. Span(cons', k, Diff(w, r) - n) = Span(cons, k, Diff(w, r) - n)
      BY ZenonT(40), <2>1 DEF Span
    <3>. QED BY ZenonT(40), <2>1, <3>2, <3>3, <3>4
  <2>. HIDE DEF k
  <2>4. Diff(w, k) + Diff(e, w) = Diff(e, k) /\ Diff(e, k) <= S /\ (Diff(e, k) = S => e = w)
    BY <1>0, <1>1, <1>2, <2>2
  <2>. QED BY ZenonT(40), <2>1, <2>2, <2>3, <2>4 DEF InputInOrder, S
<1>6. ASSUME NEW n \in 0 .. Diff(e, w), Erases(n) PROVE G
  <2>. DEFINE k == (e - n) % UINT
  <2>1. cons'.e = k /\ cons'.buf = cons.buf /\ cons'.r = r /\ cons'.w = w /\ unread' = unread
    BY ZenonT(40), <1>6 DEF Erases, r, w, e
  <2>2. k \in Index /\ Diff(k, w) = Diff(e, w) - n /\ Diff(k, r) = Diff(e, r) - n
    BY <1>0, <1>1, Indices DEF S
  <2>3. Span(cons', r, Diff(w, r)) = unread'
    BY ZenonT(40), <1>1, <2>1 DEF Span
  <2>4. k = w <=> Diff(k, w) = 0
    BY ZenonT(40), <1>0, <2>2, Reach
  <2>. HIDE DEF k
  <2>5. Diff(w, r) + Diff(k, w) = Diff(k, r) /\ Diff(k, r) <= S /\ (Diff(k, r) = S => k = w)
    BY <1>0, <1>1, <1>2, <1>3, <2>2, <2>4
  <2>. QED BY ZenonT(40), <2>1, <2>3, <2>5 DEF InputInOrder, S
<1>7. ASSUME NEW c \in Keys, Stores(c) PROVE G
  <2>. DEFINE k == (e + 1) % UINT
  <2>1. Diff(e, r) < S /\ cons'.buf \in Bytes /\ cons'.r = r /\ cons'.e = k
    BY <1>7 DEF Stores, Rings, r, w, e, S
  <2>a. cons'.buf = [cons.buf EXCEPT ![Slot(e)] = c]
    BY ZenonT(40), <1>7 DEF Stores, e
  <2>2. k \in Index /\ Diff(k, w) = Diff(e, w) + 1 /\ Diff(k, r) = Diff(e, r) + 1
    BY <1>0, <1>1, <2>1, Indices DEF S
  <2>. HIDE DEF k
  <2>3. Span(cons', r, Diff(w, r)) = unread
    <3>1. Diff(w, r) <= Diff(e, r)
      BY <1>1, <1>2
    <3>2. \A y \in 0 .. S - 1 : y # Slot((r + Diff(e, r)) % UINT) => cons'.buf[y] = cons.buf[y]
      <4>1. \A y \in 0 .. S - 1 : y # Slot(e) => cons'.buf[y] = cons.buf[y]
        BY <1>0, <2>a DEF Bytes, S
      <4>. QED BY ZenonT(40), <1>3, <4>1
    <3>3. cons.buf \in Bytes /\ cons'.buf \in Bytes /\ r \in Index /\ Diff(e, r) < S
      BY ZenonT(40), <1>0, <2>1
    <3>4. Span(cons', r, Diff(w, r)) = Span(cons, r, Diff(w, r))
      BY ZenonT(40), <1>2, <3>1, <3>2, <3>3, SpanKept DEF S
    <3>. QED BY ZenonT(40), <1>1, <3>4
  <2>4. CASE cons'.w = w /\ Diff(k, r) # S /\ unread' = unread
    <3>1. Diff(w, r) + Diff(k, w) = Diff(k, r) /\ Diff(k, r) <= S
      BY <1>0, <1>1, <1>2, <2>1, <2>2
    <3>. QED BY ZenonT(40), <2>1, <2>3, <2>4, <3>1 DEF InputInOrder, S
  <2>5. CASE cons'.w = k /\ unread' = unread \o Span(cons', w, Diff(k, w))
    <3>1. /\ Diff(k, k) = 0 /\ Diff(k, r) <= S /\ Diff(k, w) \in Nat
          /\ Diff(w, r) + Diff(k, w) = Diff(k, r) /\ Diff(k, r) \in Nat
      <4>1. Diff(k, k) = 0
        BY ZenonT(40), <2>2, Reach
      <4>. QED BY <1>0, <1>1, <1>2, <2>1, <2>2, <4>1
    <3>2. Span(cons', r, Diff(w, r)) \o Span(cons', (r + Diff(w, r)) % UINT, Diff(k, w))
            = Span(cons', r, Diff(w, r) + Diff(k, w))
      <4>1. /\ Diff(w, r) + Diff(k, w) <= INPUT_BUF_SIZE
            /\ Diff(w, r) \in Nat /\ Diff(k, w) \in Nat
        BY <1>2, <3>1 DEF S
      <4>2. cons'.buf \in Bytes /\ r \in Index
        BY ZenonT(40), <1>0, <2>1
      <4>. QED BY ZenonT(40), <4>1, <4>2, SpanConcat
    <3>3. unread' = Span(cons', r, Diff(k, r))
      BY ZenonT(40), <1>3, <2>3, <2>5, <3>1, <3>2
    <3>4. Diff(k, r) + Diff(k, k) = Diff(k, r)
      BY <3>1
    <3>. QED BY ZenonT(40), <2>1, <2>5, <3>1, <3>3, <3>4 DEF InputInOrder, S
  <2>. QED BY ZenonT(40), <1>7, <2>1, <2>4, <2>5 DEF Stores, r, w, e, S
<1>. QED BY ZenonT(40), <1>4, <1>5, <1>6, <1>7, RingAlone DEF r, w, e, S

\* ... a busy transmitter has a character on its way or an interrupt due ...
LEMMA BusyNext ==
  ASSUME ConsoleTypeOK, InputInOrder, Progress, [ConsoleNext]_consvars
  PROVE  tx_busy' => uart'.fifo > 0 \/ uart'.thre \/ intr' = "transmit"
<1>. DEFINE G == tx_busy' => uart'.fifo > 0 \/ uart'.thre \/ intr' = "transmit"
<1>0. /\ uart \in Ports /\ uart.fifo \in Nat /\ tx_busy \in BOOLEAN
      /\ tx_busy => uart.fifo > 0 \/ uart.thre \/ intr = "transmit"
  BY DEF ConsoleTypeOK, Ports, Progress
<1>1. ASSUME UNCHANGED <<uart, tx_busy, intr>> PROVE G
  BY ZenonT(40), <1>0, <1>1
<1>2. ASSUME NEW p \in Writers, uartwrite(p) PROVE G
  <2>1. CASE tx_busy
    BY ZenonT(40), <1>1, <1>2, <2>1 DEF uartwrite
  <2>2. CASE ~tx_busy
    <3>1. uart' = [uart EXCEPT !.fifo = uart.fifo + 1, !.thre = FALSE]
      BY ZenonT(40), <1>2, <2>2 DEF uartwrite
    <3>2. uart'.fifo > 0
      BY <1>0, <3>1 DEF Ports
    <3>. QED BY <3>2
  <2>. QED BY <2>1, <2>2
<1>3. ASSUME NEW c \in Keys, Type(c) PROVE G
  <2>1. uart'.fifo = uart.fifo /\ uart'.thre = uart.thre /\ tx_busy' = tx_busy /\ intr' = intr
    BY <1>0, <1>3 DEF Type, Ports
  <2>. QED BY ZenonT(40), <1>0, <2>1
<1>4. ASSUME Sent PROVE G
  <2>1. uart.fifo > 0 /\ uart' = [uart EXCEPT !.fifo = uart.fifo - 1, !.thre = (uart.fifo = 1)]
    BY <1>4 DEF Sent
  <2>2. uart'.fifo = uart.fifo - 1 /\ (uart'.thre <=> uart.fifo = 1)
    BY ZenonT(40), <1>0, <2>1 DEF Ports
  <2>3. uart'.fifo > 0 \/ uart.fifo = 1
    BY <1>0, <2>1, <2>2
  <2>. QED BY ZenonT(40), <2>2, <2>3
<1>5. ASSUME Acknowledge PROVE G
  BY ZenonT(40), <1>5 DEF Acknowledge
<1>6. ASSUME TransmitDone PROVE G
  <2>1. CASE uart.fifo = 0
    BY ZenonT(40), <1>6, <2>1 DEF TransmitDone
  <2>2. CASE uart.fifo # 0
    BY <1>0, <1>6, <2>2 DEF TransmitDone
  <2>. QED BY <2>1, <2>2
<1>7. ASSUME consoleintr PROVE G
  <2>1. /\ tx_busy' = tx_busy /\ intr' = intr
        /\ \/ uart'.fifo = 1
           \/ uart'.fifo = uart.fifo /\ uart'.thre = uart.thre
    BY ZenonT(40), <1>7, IntrCases DEF Echoes
  <2>2. uart'.fifo = 1 => uart'.fifo > 0
    OBVIOUS
  <2>. QED BY ZenonT(40), <1>0, <2>1, <2>2
<1>8. ASSUME NoMoreInput PROVE G
  BY ZenonT(40), <1>0, <1>8 DEF NoMoreInput
<1>9. ASSUME \/ UNCHANGED consvars
             \/ \E p \in Writers, bad \in BOOLEAN : consolewrite(p, bad)
             \/ \E p \in Readers, n \in 0 .. Diff(cons.w, cons.r) : Takes(p, n)
             \/ \E p \in Readers \cup Writers : kkill(p)
             \/ \E p \in Readers \cup Writers : \E n \in 1 .. MaxCount(p) : Call(p, n)
      PROVE  UNCHANGED <<uart, tx_busy, intr>>
  BY ZenonT(40), <1>9 DEF consvars, Takes, kkill, consolewrite, Call
<1>. HIDE DEF G
<1>10. G
  BY ZenonT(40), <1>1, <1>2, <1>3, <1>4, <1>5, <1>6, <1>7, <1>8, <1>9, ConsoleCases
<1>. QED BY <1>10 DEF G

\* ... and nobody sleeps for nothing.
LEMMA SleepsNext ==
  ASSUME ConsoleTypeOK, InputInOrder, Progress, ConsoleSleepsForCause, ConsoleTypeOK',
         [ConsoleNext]_consvars
  PROVE  /\ \A q \in Readers : io'[q].state = "asleep" => cons'.r = cons'.w
         /\ \A q \in Writers : io'[q].state = "asleep" => tx_busy'
<1>. DEFINE U == Readers \cup Writers
            G == /\ \A q \in Readers : io'[q].state = "asleep" => cons'.r = cons'.w
                 /\ \A q \in Writers : io'[q].state = "asleep" => tx_busy'
<1>0. /\ io \in [U -> Calls] /\ DOMAIN io = U /\ Readers \cap Writers = {}
      /\ cons.r \in Index /\ cons.w \in Index
  BY ConsoleAssumption DEF ConsoleTypeOK, Rings
<1>1. /\ \A q \in Readers : io[q].state = "asleep" => cons.r = cons.w
      /\ \A q \in Writers : io[q].state = "asleep" => tx_busy
  BY ZenonT(40), <1>0 DEF ConsoleSleepsForCause
<1>2. ASSUME \A q \in U : io'[q].state = "asleep" => io[q].state = "asleep",
             cons'.r = cons.r, cons'.w = cons.w, tx_busy' = tx_busy
      PROVE  G
  BY ZenonT(40), <1>1, <1>2
<1>3. ASSUME NEW p \in Readers, NEW n \in 0 .. Diff(cons.w, cons.r), Takes(p, n) PROVE G
  <2>1. /\ cons'.r = (cons.r + n) % UINT /\ cons'.w = cons.w /\ tx_busy' = tx_busy
        /\ \/ io' = [io EXCEPT ![p] = Idle]
           \/ /\ n = Diff(cons.w, cons.r)
              /\ \E c \in Calls : io' = [io EXCEPT ![p] = c]
    BY ZenonT(40), <1>3 DEF Takes
  <2>2. \A q \in U : q # p => io'[q] = io[q]
    BY <1>0, <2>1
  <2>3. n = Diff(cons.w, cons.r) => cons'.r = cons'.w
    BY <1>0, <2>1, Reach
  <2>4. cons.r = cons.w => n = Diff(cons.w, cons.r)
    <3>1. cons.r = cons.w => Diff(cons.w, cons.r) = 0
      BY ZenonT(40), <1>0, Reach
    <3>. QED BY <3>1
  <2>5. io'[p].state = "asleep" => n = Diff(cons.w, cons.r)
    BY <1>0, <2>1 DEF Idle
  <2>. QED BY ZenonT(40), <1>0, <1>1, <2>1, <2>2, <2>3, <2>4, <2>5
<1>4. ASSUME NEW p \in U, kkill(p) PROVE G
  <2>. DEFINE c == [Wake({p})[p] EXCEPT !.killed = TRUE]
  <2>1. io' = [Wake({p}) EXCEPT ![p] = c] /\ cons' = cons /\ tx_busy' = tx_busy
    BY ZenonT(40), <1>4 DEF kkill
  <2>2. /\ Wake({p}) \in [U -> Calls]
        /\ \A q \in U : Wake({p})[q].state = "asleep" => io[q].state = "asleep"
    BY ZenonT(40), WakeIs
  <2>3. c.state = Wake({p})[p].state
    BY <2>2 DEF Calls
  <2>. HIDE DEF c
  <2>4. \A q \in U : io'[q].state = "asleep" => io[q].state = "asleep"
    BY ZenonT(40), <2>1, <2>2, <2>3
  <2>. QED BY ZenonT(40), <1>2, <2>1, <2>4
<1>5. ASSUME NEW p \in Writers, uartwrite(p) PROVE G
  <2>1. tx_busy' /\ cons' = cons
    BY ZenonT(40), <1>5 DEF uartwrite
  <2>2. \A q \in U : q # p => io'[q] = io[q]
    BY <1>0, <1>5 DEF uartwrite
  <2>. QED BY ZenonT(40), <1>0, <1>1, <2>1, <2>2
<1>5b. ASSUME NEW p \in Writers, NEW bad \in BOOLEAN, consolewrite(p, bad) PROVE G
  <2>. DEFINE b == [io[p] EXCEPT !.state = "running",
                                 !.nn = IF WRITE_BUF > io[p].n THEN io[p].n ELSE WRITE_BUF]
  <2>1. /\ io' = [io EXCEPT ![p] = IF bad THEN Idle ELSE b]
        /\ cons' = cons /\ tx_busy' = tx_busy
    BY ZenonT(40), <1>5b DEF consolewrite
  <2>2. b.state = "running" /\ Idle.state = "idle"
    BY <1>0 DEF Idle, Calls
  <2>. HIDE DEF b
  <2>3. \A q \in U : io'[q].state = "asleep" => io[q].state = "asleep"
    BY <1>0, <2>1, <2>2
  <2>. QED BY ZenonT(40), <1>2, <2>1, <2>3
<1>6. ASSUME NEW p \in U, NEW n \in 1 .. MaxCount(p), Call(p, n) PROVE G
  <2>1. /\ io' = [io EXCEPT ![p] = [Idle EXCEPT !.state = IF p \in Readers THEN "running"
                                                                           ELSE "copy", !.n = n]]
        /\ cons' = cons /\ tx_busy' = tx_busy
    BY ZenonT(40), <1>6 DEF Call
  <2>2. \A q \in U : io'[q].state = "asleep" => io[q].state = "asleep"
    BY <1>0, <2>1 DEF Idle
  <2>. QED BY ZenonT(40), <1>2, <2>1, <2>2
<1>7. ASSUME TransmitDone PROVE G
  <2>1. \A q \in U : Wake(Writers)[q].state = "asleep" => io[q].state = "asleep" /\ q \notin Writers
    BY ZenonT(40), WakeIs
  <2>2. CASE uart.fifo = 0
    BY ZenonT(40), <1>1, <1>7, <2>1, <2>2 DEF TransmitDone
  <2>3. CASE uart.fifo # 0
    BY ZenonT(40), <1>1, <1>7, <2>3 DEF TransmitDone
  <2>. QED BY <2>2, <2>3
<1>8. ASSUME consoleintr PROVE G
  <2>1. \A q \in U : Wake(Readers)[q].state = "asleep" => io[q].state = "asleep" /\ q \notin Readers
    BY ZenonT(40), WakeIs
  <2>2. /\ tx_busy' = tx_busy
        /\ \/ io' = io /\ cons'.r = cons.r /\ cons'.w = cons.w
           \/ io' = Wake(Readers)
    BY ZenonT(40), <1>8, IntrCases DEF Erases, Stores
  <2>. QED BY ZenonT(40), <1>1, <2>1, <2>2
<1>9. ASSUME \/ UNCHANGED consvars \/ \E c \in Keys : Type(c)
             \/ Sent \/ Acknowledge \/ NoMoreInput
      PROVE  UNCHANGED <<cons, io, tx_busy>>
  BY ZenonT(40), <1>9 DEF consvars, Type, Sent, Acknowledge, NoMoreInput
<1>10. ASSUME UNCHANGED <<cons, io, tx_busy>> PROVE G
  BY ZenonT(40), <1>1, <1>10
<1>. HIDE DEF G, U
<1>11. G
  BY ZenonT(40), <1>3, <1>4, <1>5, <1>5b, <1>6, <1>7, <1>8, <1>9, <1>10, ConsoleCases DEF U
<1>. QED BY <1>11 DEF G

-----------------------------------------------------------------------------
(* The theorems.                                                           *)

\* The invariant holds at first.
LEMMA ConsoleInvInit == ConsoleInit(Readers \cup Writers) => CInv
<1>. SUFFICES ASSUME ConsoleInit(Readers \cup Writers) PROVE CInv
  OBVIOUS
<1>1. /\ cons.buf \in Bytes /\ cons.r = 0 /\ cons.w = 0 /\ cons.e = 0 /\ 0 \in Index
      /\ cons \in Rings /\ unread = << >> /\ tx_busy = FALSE
      /\ io = [p \in Readers \cup Writers |-> Idle]
  BY ConsoleAssumption DEF ConsoleInit, Rings, Bytes, Index, Keys
<1>2. Diff(0, 0) = 0
  BY ZenonT(40), <1>1, Reach
<1>3. ConsoleTypeOK
  <2>1. Idle \in Calls /\ Idle.state = "idle"
    BY DEF Idle, Calls
  <2>2. uart \in Ports /\ Len(uart.rx) <= RXFIFO
    BY ConsoleAssumption DEF ConsoleInit, Ports
  <2>3. intr = "none" /\ unread \in Seq(Keys)
    BY <1>1 DEF ConsoleInit
  <2>4. io \in [Readers \cup Writers -> Calls] /\ \A p \in Readers \cup Writers : io[p].state = "idle"
    BY <1>1, <2>1
  <2>. QED BY ZenonT(40), <1>1, <2>2, <2>3, <2>4 DEF ConsoleTypeOK
<1>4. InputInOrder /\ Progress
  <2>1. 0 \in 0 .. INPUT_BUF_SIZE /\ INPUT_BUF_SIZE \in Nat \ {0}
    BY ConsoleAssumption
  <2>2. Span(cons, 0, 0) = << >>
    <3>1. Span(cons, 0, 0) \in Seq(Keys) /\ Len(Span(cons, 0, 0)) = 0
      BY ZenonT(40), <1>1, <2>1, SpanIs
    <3>. QED BY <3>1
  <2>3. InputInOrder
    BY <1>1, <1>2, <2>1, <2>2 DEF InputInOrder
  <2>. QED BY <1>1, <1>2, <2>1, <2>3 DEF Progress
<1>5. ConsoleSleepsForCause
  BY <1>1 DEF ConsoleSleepsForCause, Idle
<1>. QED BY <1>3, <1>4, <1>5 DEF CInv

\* The invariant is inductive.
LEMMA ConsoleInvNext == CInv /\ [ConsoleNext]_consvars => CInv'
<1>. SUFFICES ASSUME CInv, [ConsoleNext]_consvars PROVE CInv'
  OBVIOUS
<1>0. ConsoleTypeOK /\ InputInOrder /\ Progress /\ ConsoleSleepsForCause
  BY DEF CInv
<1>1. ConsoleTypeOK'
  BY TypeNext
<1>2. InputInOrder' /\ (Diff(cons'.e, cons'.r) = INPUT_BUF_SIZE => cons'.e = cons'.w)
  BY ZenonT(40), <1>0, OrderNext
<1>3. tx_busy' => uart'.fifo > 0 \/ uart'.thre \/ intr' = "transmit"
  BY ZenonT(40), <1>0, BusyNext
<1>4. /\ \A q \in Readers : io'[q].state = "asleep" => cons'.r = cons'.w
      /\ \A q \in Writers : io'[q].state = "asleep" => tx_busy'
  BY ZenonT(40), <1>0, <1>1, SleepsNext
<1>5. cons'.r = cons'.w => Diff(cons'.e, cons'.r) < INPUT_BUF_SIZE
  <2>1. cons'.r \in Index /\ cons'.e \in Index
    BY <1>1 DEF ConsoleTypeOK, Rings
  <2>2. Diff(cons'.e, cons'.r) \in Index /\ (Diff(cons'.e, cons'.r) = 0 <=> cons'.e = cons'.r)
    BY ZenonT(40), <2>1, Distance, Reach
  <2>3. Diff(cons'.e, cons'.r) <= INPUT_BUF_SIZE
    BY ZenonT(40), <1>2 DEF InputInOrder
  <2>. QED BY <1>2, <2>2, <2>3, ConsoleAssumption DEF Index
<1>6. Progress'
  BY ZenonT(40), <1>2, <1>3 DEF Progress
<1>7. ConsoleSleepsForCause'
  BY ZenonT(40), <1>3, <1>4, <1>5 DEF ConsoleSleepsForCause
<1>. QED BY <1>1, <1>2, <1>6, <1>7 DEF CInv

\* The inductive invariant of the console holds in every state.
THEOREM ConsoleInvariance == ConsoleSpec => []CInv
  BY ConsoleInvInit, ConsoleInvNext, PTL DEF ConsoleSpec

\* consoleread() and consoleintr() (console.c:86, 142): for a ring of any size
\* and indices that wrap, the reads together get every character of the
\* completed lines once and in the order typed, and the ring never overflows.
THEOREM ReadsAsTyped == ConsoleSpec => []InputInOrder
<1>1. CInv => InputInOrder
  BY DEF CInv
<1>. QED BY <1>1, ConsoleInvariance, PTL

\* sleep() and wakeup() of consoleread() and uartwrite() (console.c:102,
\* uart.c:89): no reader sleeps beside a completed line or a full ring and no
\* writer without a transmit interrupt to come, for any number of them.
THEOREM ConsoleWakeupsNotLost == ConsoleSpec => []ConsoleSleepsForCause
<1>1. CInv => ConsoleSleepsForCause
  BY DEF CInv
<1>. QED BY <1>1, ConsoleInvariance, PTL
=============================================================================
