-------------------------------- MODULE Fifo --------------------------------
(***************************************************************************)
(* What a pipe promises: bytes are delivered in the order they were put    *)
(* in, each to one reader, with at most Size of them in transit; nothing   *)
(* is put in once the read side is closed, or after the write side is.     *)
(***************************************************************************)
EXTENDS Naturals, Sequences

CONSTANTS Bytes, Size

VARIABLES queue,                \* the bytes in transit
          got,                  \* the byte last given to a reader
          readopen, writeopen

vars == <<queue, got, readopen, writeopen>>

Init ==
  /\ queue = <<>>
  /\ got \in Bytes
  /\ readopen = TRUE /\ writeopen = TRUE

Put(b) ==
  /\ readopen /\ writeopen
  /\ Len(queue) < Size
  /\ queue' = Append(queue, b)
  /\ UNCHANGED <<got, readopen, writeopen>>

Get ==
  /\ readopen
  /\ queue # <<>>
  /\ queue' = Tail(queue)
  /\ got' = Head(queue)
  /\ UNCHANGED <<readopen, writeopen>>

CloseRead ==
  /\ readopen
  /\ readopen' = FALSE
  /\ UNCHANGED <<queue, got, writeopen>>

CloseWrite ==
  /\ writeopen
  /\ writeopen' = FALSE
  /\ UNCHANGED <<queue, got, readopen>>

Next ==
  \/ \E b \in Bytes : Put(b)
  \/ Get
  \/ CloseRead \/ CloseWrite

Spec == Init /\ [][Next]_vars
=============================================================================
