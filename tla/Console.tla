------------------------------ MODULE Console ------------------------------
(* The console of xv6 (kernel/console.c) and the UART driver under it       *)
(* (kernel/uart.c): typed characters are edited in a ring and handed to     *)
(* read() line by line; write() sends one character per transmit interrupt. *)
(*                                                                         *)
(* cons.lock and tx_lock make consoleread() up to its sleep(), each          *)
(* consoleintr() and each turn of uartwrite() one step.  uartintr() is three *)
(* (acknowledge, look at the transmitter, take the input): the device and    *)
(* the processes run in between.  The device is a 16550 with its FIFO on.    *)
EXTENDS Integers, Sequences

CONSTANTS Readers, Writers,  \* processes in consoleread() and in consolewrite()
          INPUT_BUF_SIZE,
          UINT,              \* the indices are counted modulo UINT
          RXFIFO,            \* how many received characters the device keeps
          WRITE_BUF,         \* sizeof(buf) of consolewrite()
          MaxRead, MaxWrite  \* bounds on what one read() and write() asks for

ASSUME ConsoleAssumption ==
  /\ {INPUT_BUF_SIZE, UINT, RXFIFO, WRITE_BUF, MaxRead, MaxWrite} \subseteq Nat \ {0}
  /\ UINT % INPUT_BUF_SIZE = 0 /\ UINT > INPUT_BUF_SIZE
  /\ Readers \cap Writers = {}

VARIABLES cons,       \* buf, r, w, e
          uart,       \* rx: received, fifo: being sent, thre: the interrupt
          tx_busy, intr,
          io,         \* io[p]: the call p is in
          unread      \* history: completed lines, less what was read
consvars == <<cons, uart, tx_busy, intr, io, unread>>

Keys  == {"x", "nl", "eof", "kill", "erase"}
\* A call: n characters to go, some: it has read some, nn: to go of its batch.
Idle  == [state |-> "idle", n |-> 0, some |-> FALSE, nn |-> 0, killed |-> FALSE]
MaxCount(p) == IF p \in Readers THEN MaxRead ELSE MaxWrite
Diff(a, b) == (a - b) % UINT
\* The n characters of the ring from index i on.
Span(c, i, n) == [j \in 1 .. n |-> c.buf[((i + j - 1) % UINT) % INPUT_BUF_SIZE]]
Wake(ps) == [p \in DOMAIN io |-> IF p \in ps /\ io[p].state = "asleep"
                                 THEN [io[p] EXCEPT !.state = "running"] ELSE io[p]]

-----------------------------------------------------------------------------
(* consoleread(): n characters, or up to a newline or ^D.                   *)

\* ^D is left in the ring when characters were read before it.  bad: which
\* character cannot be copied out, 0 for none; it is gone.
consoleread(p, bad) ==
  LET P     == io[p]
      ready == Span(cons, cons.r, Diff(cons.w, cons.r))
      ends  == {i \in DOMAIN ready : i = P.n \/ ready[i] \in {"nl", "eof"} \/ i = bad}
      last  == CHOOSE i \in ends : \A j \in ends : i <= j
      put   == ready[last] = "eof" /\ (P.some \/ last > 1)
      n     == IF ends = {} THEN Len(ready) ELSE IF put THEN last - 1 ELSE last
  IN  /\ P.state = "running"
      /\ cons' = [cons EXCEPT !.r = (@ + n) % UINT]
      /\ unread' = SubSeq(unread, n + 1, Len(unread))
      /\ io' = [io EXCEPT ![p] = IF ends # {} \/ P.killed THEN Idle
                                 ELSE [P EXCEPT !.state = "asleep", !.n = @ - n,
                                                !.some = @ \/ n > 0]]
      /\ UNCHANGED <<uart, tx_busy, intr>>

\* kkill() wakes whoever sleeps, for no reason of the console's.
kkill(p) ==
  /\ io[p].state # "idle" /\ ~io[p].killed
  /\ io' = [Wake({p}) EXCEPT ![p].killed = TRUE]
  /\ UNCHANGED <<cons, uart, tx_busy, intr, unread>>

-----------------------------------------------------------------------------
(* consoleintr() for one character.  uartputc_sync() spins until the         *)
(* transmitter is idle and then leaves the echo in it.                       *)

Stored(c) == [cons EXCEPT !.buf[cons.e % INPUT_BUF_SIZE] = c, !.e = (@ + 1) % UINT]
Echo == uart.fifo = 0 /\ uart' = [uart EXCEPT !.rx = Tail(@), !.fifo = 1, !.thre = FALSE]
NoEcho == uart' = [uart EXCEPT !.rx = Tail(@)]

\* How many characters ^U erases: back to the last newline, within the edit.
Killed ==
  LET edit == Span(cons, cons.w, Diff(cons.e, cons.w))
      nls  == {i \in DOMAIN edit : edit[i] = "nl"}
  IN  IF nls = {} THEN Len(edit)
      ELSE Len(edit) - (CHOOSE i \in nls : \A j \in nls : j <= i)

Erase(n) ==
  /\ IF n = 0 THEN NoEcho ELSE Echo
  /\ cons' = [cons EXCEPT !.e = (@ - n) % UINT]
  /\ UNCHANGED <<io, unread>>

\* Mutant of Insert: a full ring does not complete the line.
InsertNeverFull(c) ==
  LET new == Stored(c)
  IN  IF Diff(cons.e, cons.r) < INPUT_BUF_SIZE
      THEN /\ Echo
           /\ IF c # "x"
              THEN /\ cons' = [new EXCEPT !.w = new.e]
                   /\ unread' = unread \o Span(new, cons.w, Diff(new.e, cons.w))
                   /\ io' = Wake(Readers)
              ELSE cons' = new /\ UNCHANGED <<io, unread>>
      ELSE NoEcho /\ UNCHANGED <<cons, io, unread>>

\* Mutant of Insert: room for one character more than the ring has.
InsertOneMore(c) ==
  LET new  == Stored(c)
      full == Diff(new.e, cons.r) >= INPUT_BUF_SIZE
  IN  IF Diff(cons.e, cons.r) <= INPUT_BUF_SIZE
      THEN /\ Echo
           /\ IF c # "x" \/ full
              THEN /\ cons' = [new EXCEPT !.w = new.e]
                   /\ unread' = unread \o Span(new, cons.w, Diff(new.e, cons.w))
                   /\ io' = Wake(Readers)
              ELSE cons' = new /\ UNCHANGED <<io, unread>>
      ELSE NoEcho /\ UNCHANGED <<cons, io, unread>>

\* Any other character: dropped when the ring is full; a newline, ^D or the
\* last place completes the line and wakes the readers.
Insert(c) ==
  LET new  == Stored(c)
      full == Diff(new.e, cons.r) = INPUT_BUF_SIZE
  IN  IF Diff(cons.e, cons.r) < INPUT_BUF_SIZE
      THEN /\ Echo
           /\ IF c # "x" \/ full
              THEN /\ cons' = [new EXCEPT !.w = new.e]
                   /\ unread' = unread \o Span(new, cons.w, Diff(new.e, cons.w))
                   /\ io' = Wake(Readers)
              ELSE cons' = new /\ UNCHANGED <<io, unread>>
      ELSE NoEcho /\ UNCHANGED <<cons, io, unread>>

consoleintr ==
  LET c == Head(uart.rx)
  IN  /\ intr = "input" /\ uart.rx # <<>>
      /\ CASE c = "kill"  -> Erase(Killed)
           [] c = "erase" -> Erase(IF cons.e # cons.w THEN 1 ELSE 0)
           [] OTHER       -> Insert(c)
      /\ UNCHANGED <<tx_busy, intr>>

-----------------------------------------------------------------------------
(* consolewrite() and the UART.                                             *)

\* consolewrite() copies the next batch in, or gives up the rest.
consolewrite(p, bad) ==
  /\ io[p].state = "copy"
  /\ io' = [io EXCEPT ![p] =
              IF bad THEN Idle
              ELSE [io[p] EXCEPT !.state = "running",
                                 !.nn = IF WRITE_BUF > io[p].n THEN io[p].n ELSE WRITE_BUF]]
  /\ UNCHANGED <<cons, uart, tx_busy, intr, unread>>

\* One turn of uartwrite()'s loop: the next one would find tx_busy set.  After
\* the last turn the call is done, or copies again.
uartwrite(p) ==
  /\ io[p].state = "running"
  /\ IF tx_busy THEN io' = [io EXCEPT ![p].state = "asleep"] /\ UNCHANGED <<uart, tx_busy>>
     ELSE /\ uart' = [uart EXCEPT !.fifo = @ + 1, !.thre = FALSE]
          /\ tx_busy' = TRUE
          /\ io' = [io EXCEPT ![p] =
                      IF io[p].n = 1 THEN Idle
                      ELSE [io[p] EXCEPT !.n = @ - 1, !.nn = @ - 1,
                                         !.state = IF io[p].nn = 1 THEN "copy" ELSE "asleep"]]
  /\ UNCHANGED <<cons, intr, unread>>

\* uartintr(): reading ISR takes the transmit interrupt back.
Acknowledge ==
  /\ intr = "none" /\ (uart.thre \/ uart.rx # <<>>)
  /\ uart' = [uart EXCEPT !.thre = FALSE] /\ intr' = "transmit"
  /\ UNCHANGED <<cons, tx_busy, io, unread>>

TransmitDone ==
  /\ intr = "transmit" /\ intr' = "input"
  /\ IF uart.fifo = 0 THEN tx_busy' = FALSE /\ io' = Wake(Writers) ELSE UNCHANGED <<tx_busy, io>>
  /\ UNCHANGED <<cons, uart, unread>>

NoMoreInput ==
  /\ intr = "input" /\ uart.rx = <<>> /\ intr' = "none"
  /\ UNCHANGED <<cons, uart, tx_busy, io, unread>>

\* The device: a key, and a character sent.  An empty FIFO interrupts.
Type(c) ==
  /\ Len(uart.rx) < RXFIFO
  /\ uart' = [uart EXCEPT !.rx = Append(@, c)]
  /\ UNCHANGED <<cons, tx_busy, intr, io, unread>>
Sent ==
  /\ uart.fifo > 0 /\ uart' = [uart EXCEPT !.fifo = @ - 1, !.thre = uart.fifo = 1]
  /\ UNCHANGED <<cons, tx_busy, intr, io, unread>>

\* A process calls read() or write() on the console.
Call(p, n) ==
  /\ io[p].state = "idle" /\ ~io[p].killed
  /\ io' = [io EXCEPT ![p] = [Idle EXCEPT !.state = IF p \in Readers THEN "running" ELSE "copy",
                                         !.n = n]]
  /\ UNCHANGED <<cons, uart, tx_busy, intr, unread>>

\* consoleinit() and uartinit(), for the processes that use the console.
ConsoleInit(users) ==
  /\ cons = [buf |-> [j \in 0 .. INPUT_BUF_SIZE - 1 |-> "x"], r |-> 0, w |-> 0, e |-> 0]
  /\ uart = [rx |-> <<>>, fifo |-> 0, thre |-> FALSE] /\ tx_busy = FALSE /\ intr = "none"
  /\ io = [p \in users |-> Idle]
  /\ unread = <<>>

ConsoleNext ==
  \/ \E p \in Readers \cap DOMAIN io, bad \in 0 .. INPUT_BUF_SIZE : consoleread(p, bad)
  \/ \E p \in Writers \cap DOMAIN io : uartwrite(p) \/ \E bad \in BOOLEAN : consolewrite(p, bad)
  \/ \E p \in DOMAIN io : kkill(p) \/ \E n \in 1 .. MaxCount(p) : Call(p, n)
  \/ \E c \in Keys : Type(c)
  \/ Sent \/ Acknowledge \/ TransmitDone \/ consoleintr \/ NoMoreInput

ConsoleSpec == ConsoleInit(Readers \cup Writers) /\ [][ConsoleNext]_consvars

-----------------------------------------------------------------------------
(* Properties.                                                             *)

\* consoleread() against consoleintr(): the reads together get every character
\* of the completed lines, once and in the order typed; the ring holds what is
\* not read yet, ahead of the line being edited, and never more than fits.
InputInOrder ==
  LET ready == Diff(cons.w, cons.r)
  IN  /\ ready + Diff(cons.e, cons.w) = Diff(cons.e, cons.r)
      /\ Diff(cons.e, cons.r) <= INPUT_BUF_SIZE
      /\ unread = Span(cons, cons.r, ready)

\* sleep() and wakeup() of consoleread(), uartwrite() and their interrupts: no
\* reader sleeps beside a completed line or a full ring, and whoever waits to
\* send waits for a character that is on its way or whose interrupt is due.
ConsoleSleepsForCause ==
  /\ \A p \in Readers \cap DOMAIN io : io[p].state = "asleep" =>
       cons.r = cons.w /\ Diff(cons.e, cons.r) < INPUT_BUF_SIZE
  /\ \A p \in Writers \cap DOMAIN io : io[p].state = "asleep" =>
       tx_busy /\ (uart.fifo > 0 \/ uart.thre \/ intr = "transmit")
=============================================================================
