-------------------------------- MODULE Fifo --------------------------------
(***************************************************************************)
(* What a pipe promises its readers and writers: the bytes come out in the *)
(* order in which they went in, none twice, at most Capacity of them are   *)
(* on the way, none goes in once either end is closed, and a reader is     *)
(* told of the end of the file only when nothing is left and nothing can   *)
(* come.  The one way to lose a byte is a reader's bad address.            *)
(***************************************************************************)
EXTENDS Naturals, Sequences

CONSTANTS Capacity, Byte, None

VARIABLES
  queue,      \* bytes on the way
  readopen,   \* some process can read
  writeopen,  \* some process can write
  res         \* what the last read that ended in something was told

fvars == <<queue, readopen, writeopen, res>>

FInit ==
  /\ queue = <<>>
  /\ readopen = TRUE /\ writeopen = TRUE
  /\ res = None

Put(b) ==
  /\ readopen /\ writeopen
  /\ Len(queue) < Capacity
  /\ queue' = Append(queue, b)
  /\ UNCHANGED <<readopen, writeopen, res>>

(* A byte reaches the reader, or is lost at its bad address. *)
Take(what) ==
  /\ readopen
  /\ queue # <<>>
  /\ queue' = Tail(queue)
  /\ res' = <<what, Head(queue)>>
  /\ UNCHANGED <<readopen, writeopen>>

EndOfFile ==
  /\ queue = <<>> /\ ~writeopen /\ readopen
  /\ res' = <<"eof">>
  /\ UNCHANGED <<queue, readopen, writeopen>>

CloseRead ==
  /\ readopen' = FALSE
  /\ UNCHANGED <<queue, writeopen, res>>

CloseWrite ==
  /\ writeopen' = FALSE
  /\ UNCHANGED <<queue, readopen, res>>

FNext ==
  \/ \E b \in Byte : Put(b)
  \/ Take("byte") \/ Take("lost")
  \/ EndOfFile \/ CloseRead \/ CloseWrite

FSpec == FInit /\ [][FNext]_fvars
=============================================================================
