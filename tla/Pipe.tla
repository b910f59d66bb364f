-------------------------------- MODULE Pipe --------------------------------
(***************************************************************************)
(* kernel/pipe.c, with the part of kernel/file.c that decides when an end  *)
(* of a pipe is closed: the ring of PIPESIZE bytes, the free-running       *)
(* counters nread and nwrite, sleeping on either, and the freeing of the   *)
(* pipe by whoever closes its second end.                                  *)
(*                                                                         *)
(* Grain.  One step is one iteration of a loop under pi->lock.  sleep()    *)
(* gives up pi->lock and falls asleep in one step (module Sched).  f->ref  *)
(* of an end is the number of processes that hold it.                      *)
(***************************************************************************)
EXTENDS Naturals, Sequences, FiniteSets

CONSTANTS
  Procs,     \* processes
  Readers,   \* those that have the read end open at first
  Writers,   \* those that have the write end open at first
  Killable,  \* those that some other process kills
  Byte,      \* values of a byte
  PIPESIZE,
  Counter,   \* number of values of a uint
  MaxN,      \* bound: largest n passed to read and write
  None

ASSUME ConstAssumption ==
  /\ Readers \subseteq Procs /\ Writers \subseteq Procs /\ Killable \subseteq Procs
  /\ Readers # {} /\ Writers # {} /\ None \notin Procs
  /\ PIPESIZE \in Nat \ {0} /\ Counter \in Nat /\ MaxN \in Nat
  /\ Counter > PIPESIZE /\ Counter % PIPESIZE = 0

VARIABLES
  data, nread, nwrite, readopen, writeopen,  \* struct pipe
  lock,     \* holder of pi->lock, a process or None
  freed,    \* pi was passed to kfree
  holds,    \* the processes that have each end open
  killed,   \* p->killed
  pc,       \* where each process is
  i, n,     \* local variables of piperead and pipewrite
  res,      \* history: what the last read that ended in something was told
  untold    \* history: a write has left bytes without a wakeup, and none came since

pipe == <<data, nread, nwrite, readopen, writeopen>>
vars == <<pipe, lock, freed, holds, killed, pc, i, n, res, untold>>

Slots == 0 .. PIPESIZE - 1
Inside == {"read_lock", "read", "read_sleep", "rasleep", "copy",
           "write_lock", "write", "write_sleep", "wasleep", "close_r", "close_w", "kfree"}

TypeOK ==
  /\ data \in [Slots -> Byte \cup {None}]
  /\ nread \in 0 .. Counter - 1 /\ nwrite \in 0 .. Counter - 1
  /\ readopen \in BOOLEAN /\ writeopen \in BOOLEAN /\ freed \in BOOLEAN /\ untold \in BOOLEAN
  /\ lock \in Procs \cup {None}
  /\ holds \in [{"r", "w"} -> SUBSET Procs]
  /\ killed \in [Procs -> BOOLEAN]
  /\ pc \in [Procs -> Inside \cup {"user"}]
  /\ i \in [Procs -> 0 .. MaxN] /\ n \in [Procs -> 0 .. MaxN]
  /\ res \in {None, <<"eof">>} \cup ({"byte", "lost"} \X Byte)

(* After pipealloc and the forks and closes of the program that made it. *)
Init ==
  /\ data = [s \in Slots |-> None] /\ nread = 0 /\ nwrite = 0
  /\ readopen = TRUE /\ writeopen = TRUE /\ freed = FALSE
  /\ lock = None
  /\ holds = [e \in {"r", "w"} |-> IF e = "r" THEN Readers ELSE Writers]
  /\ killed = [p \in Procs |-> FALSE]
  /\ pc = [p \in Procs |-> "user"]
  /\ i = [p \in Procs |-> 0] /\ n = [p \in Procs |-> 0]
  /\ res = None /\ untold = FALSE

Empty == nread = nwrite

(* Mutant: the counters are compared as indices into data. *)
BugFull == nwrite % PIPESIZE = nread % PIPESIZE /\ ~Empty /\ nwrite > nread

Full == nwrite = (nread + PIPESIZE) % Counter

(* wakeup(&pi->nread) and wakeup(&pi->nwrite). *)
WakeReaders(f) == [p \in Procs |-> IF f[p] = "rasleep" THEN "read_lock" ELSE f[p]]
WakeWriters(f) == [p \in Procs |-> IF f[p] = "wasleep" THEN "write_lock" ELSE f[p]]

Goto(p, next) == pc' = [pc EXCEPT ![p] = next]

(* release(&pi->lock) and return, after waking f says whom. *)
Return(p, f) ==
  /\ lock' = None
  /\ pc' = [f EXCEPT ![p] = "user"]
  /\ i' = [i EXCEPT ![p] = 0] /\ n' = [n EXCEPT ![p] = 0]

(* A system call on an open end; a killed process makes none. *)
Call(p, e, k, next) ==
  /\ pc[p] = "user" /\ ~killed[p] /\ p \in holds[e]
  /\ n' = [n EXCEPT ![p] = k]
  /\ Goto(p, next)
  /\ UNCHANGED <<pipe, lock, freed, holds, killed, i, res, untold>>

(* acquire(&pi->lock), on the way in and again in sleep(). *)
Lock(p, from, next) ==
  /\ pc[p] = from
  /\ lock = None
  /\ lock' = p
  /\ Goto(p, next)
  /\ UNCHANGED <<pipe, freed, holds, killed, i, n, res, untold>>

(* sleep(chan, &pi->lock). *)
Sleep(p, from, next) ==
  /\ pc[p] = from
  /\ lock' = None
  /\ Goto(p, next)
  /\ UNCHANGED <<pipe, freed, holds, killed, i, n, res, untold>>
-----------------------------------------------------------------------------
WriteCall(p) == \E k \in 0 .. MaxN : Call(p, "w", k, "write_lock")
WriteLock(p) == Lock(p, "write_lock", "write")

(* The reader is gone or this process is killed: return -1. *)
WriteFail(p) ==
  /\ pc[p] = "write" /\ i[p] < n[p]
  /\ ~readopen \/ killed[p]
  /\ Return(p, pc)
  /\ untold' = (untold \/ (i[p] > 0 /\ ~Empty))
  /\ UNCHANGED <<pipe, freed, holds, killed, res>>

(* No room: wakeup(&pi->nread), and then sleep. *)
WriteFull(p) ==
  /\ pc[p] = "write" /\ i[p] < n[p]
  /\ readopen /\ ~killed[p]
  /\ Full
  /\ pc' = [WakeReaders(pc) EXCEPT ![p] = "write_sleep"]
  /\ untold' = FALSE
  /\ UNCHANGED <<pipe, lock, freed, holds, killed, i, n, res>>

WriteSleep(p) == Sleep(p, "write_sleep", "wasleep")

WriteByte(p, b) ==
  /\ pc[p] = "write" /\ i[p] < n[p]
  /\ readopen /\ ~killed[p]
  /\ ~Full
  /\ data' = [data EXCEPT ![nwrite % PIPESIZE] = b]
  /\ nwrite' = (nwrite + 1) % Counter
  /\ i' = [i EXCEPT ![p] = @ + 1]
  /\ UNCHANGED <<nread, readopen, writeopen, lock, freed, holds, killed, pc, n, res, untold>>

(* Mutant: the readers are woken only when the pipe is full. *)
BugWriteEnd(p) ==
  /\ pc[p] = "write"
  /\ i[p] < n[p] => readopen /\ ~killed[p] /\ ~Full
  /\ Return(p, pc)
  /\ UNCHANGED <<pipe, freed, holds, killed, res, untold>>

(* All n bytes are written, or copyin() failed. *)
WriteEnd(p) ==
  /\ pc[p] = "write"
  /\ i[p] < n[p] => readopen /\ ~killed[p] /\ ~Full
  /\ Return(p, WakeReaders(pc))
  /\ untold' = FALSE
  /\ UNCHANGED <<pipe, freed, holds, killed, res>>
-----------------------------------------------------------------------------
ReadCall(p) == \E k \in 0 .. MaxN : Call(p, "r", k, "read_lock")
ReadLock(p) == Lock(p, "read_lock", "read")

(* The loop condition of piperead. *)
MustWait == Empty /\ writeopen

(* killed(pr): return -1. *)
ReadKilled(p) ==
  /\ pc[p] = "read" /\ MustWait
  /\ killed[p]
  /\ Return(p, pc)
  /\ UNCHANGED <<pipe, freed, holds, killed, res, untold>>

ReadEmpty(p) ==
  /\ pc[p] = "read" /\ MustWait
  /\ ~killed[p]
  /\ Goto(p, "read_sleep")
  /\ UNCHANGED <<pipe, lock, freed, holds, killed, i, n, res, untold>>

ReadSleep(p) == Sleep(p, "read_sleep", "rasleep")

ReadCopy(p) ==
  /\ pc[p] = "read" /\ ~MustWait
  /\ Goto(p, "copy")
  /\ UNCHANGED <<pipe, lock, freed, holds, killed, i, n, res, untold>>

(* ch = pi->data[pi->nread++ % PIPESIZE]. *)
NextByte(what) ==
  /\ nread' = (nread + 1) % Counter
  /\ res' = <<what, data[nread % PIPESIZE]>>

ReadByte(p) ==
  /\ pc[p] = "copy" /\ i[p] < n[p] /\ ~Empty
  /\ NextByte("byte")
  /\ i' = [i EXCEPT ![p] = @ + 1]
  /\ UNCHANGED <<data, nwrite, readopen, writeopen, lock, freed, holds, killed, pc, n, untold>>

(* copyout() fails; the byte has been taken.  (A caller whose address is   *)
(* bad for the first byte is told 0, as at the end of the file: res says   *)
(* what became of the byte.)                                               *)
ReadFault(p) ==
  /\ pc[p] = "copy" /\ i[p] < n[p] /\ ~Empty
  /\ NextByte("lost")
  /\ Return(p, WakeWriters(pc))
  /\ UNCHANGED <<data, nwrite, readopen, writeopen, freed, holds, killed, untold>>

(* n bytes are read, or all there were.  0 for n > 0 means end of file. *)
ReadEnd(p) ==
  /\ pc[p] = "copy"
  /\ i[p] = n[p] \/ Empty
  /\ res' = IF i[p] = 0 /\ n[p] > 0 THEN <<"eof">> ELSE res
  /\ Return(p, WakeWriters(pc))
  /\ UNCHANGED <<pipe, freed, holds, killed, untold>>
-----------------------------------------------------------------------------
(* Mutant: any close of a descriptor closes the end. *)
BugLast(e, p) == TRUE

(* fileclose(): --f->ref > 0 is false. *)
Last(e, p) == holds[e] = {p}

(* close(fd), or exit() of a killed process. *)
Close(p, e) ==
  /\ pc[p] = "user" /\ p \in holds[e]
  /\ holds' = [holds EXCEPT ![e] = @ \ {p}]
  /\ Goto(p, IF ~Last(e, p) THEN "user" ELSE IF e = "r" THEN "close_r" ELSE "close_w")
  /\ UNCHANGED <<pipe, lock, freed, killed, i, n, res, untold>>

(* pipeclose() up to the release of pi->lock. *)
PipeClose(p, f) ==
  /\ lock = None
  /\ pc' = [f EXCEPT ![p] = IF ~readopen' /\ ~writeopen' THEN "kfree" ELSE "user"]
  /\ UNCHANGED <<data, nread, nwrite, lock, freed, holds, killed, i, n, res>>

CloseRead(p) ==
  /\ pc[p] = "close_r"
  /\ readopen' = FALSE /\ UNCHANGED <<writeopen, untold>>
  /\ PipeClose(p, WakeWriters(pc))

CloseWrite(p) ==
  /\ pc[p] = "close_w"
  /\ writeopen' = FALSE /\ UNCHANGED readopen /\ untold' = FALSE
  /\ PipeClose(p, WakeReaders(pc))

(* kfree(pi), after the release. *)
Kfree(p) ==
  /\ pc[p] = "kfree"
  /\ freed' = TRUE
  /\ Goto(p, "user")
  /\ UNCHANGED <<pipe, lock, holds, killed, i, n, res, untold>>

(* kill(): the flag, and the end of a sleep. *)
Kill(p) ==
  /\ p \in Killable /\ ~killed[p]
  /\ killed' = [killed EXCEPT ![p] = TRUE]
  /\ Goto(p, CASE pc[p] = "rasleep" -> "read_lock"
               [] pc[p] = "wasleep" -> "write_lock"
               [] OTHER -> pc[p])
  /\ UNCHANGED <<pipe, lock, freed, holds, i, n, res, untold>>

(* A process in the kernel, with pi->lock or without a need for it. *)
Run(p) ==
  \/ WriteFail(p) \/ WriteFull(p) \/ WriteSleep(p) \/ WriteEnd(p)
  \/ \E b \in Byte : WriteByte(p, b)
  \/ ReadKilled(p) \/ ReadEmpty(p) \/ ReadSleep(p) \/ ReadCopy(p)
  \/ ReadByte(p) \/ ReadFault(p) \/ ReadEnd(p)
  \/ Kfree(p)

(* A process that needs pi->lock. *)
Acquire(p) == ReadLock(p) \/ WriteLock(p) \/ CloseRead(p) \/ CloseWrite(p)

(* The program does something else. *)
Compute(p) == pc[p] = "user" /\ UNCHANGED vars

Next ==
  \E p \in Procs :
    \/ ReadCall(p) \/ WriteCall(p) \/ Compute(p) \/ Kill(p)
    \/ \E e \in {"r", "w"} : Close(p, e)
    \/ Run(p) \/ Acquire(p)

Spec == Init /\ [][Next]_vars
-----------------------------------------------------------------------------
(* The pipe is freed once and nobody is inside it any more: pipeclose      *)
(* frees it only when both ends are closed, and a process inside read or   *)
(* write still holds its end.  (pipeclose, fileclose)                      *)
NoUseAfterFree ==
  freed => \A p \in Procs : pc[p] = "user" /\ p \notin holds["r"] \cup holds["w"]

(* A process sleeps only for what it has not got: a reader on an empty     *)
(* pipe that can still be written, a writer on a full one that can still   *)
(* be read, unless a writer was killed half-way, which tells nobody, and   *)
(* until the next write or close of the write end, which does.  (the       *)
(* wakeups of pipewrite, piperead and pipeclose, and pi->lock)             *)
NoLostWakeup ==
  \A p \in Procs :
    lock = None =>
      /\ pc[p] = "wasleep" => Full /\ readopen
      /\ pc[p] = "rasleep" => MustWait \/ untold

(* pipe.c:113, "while(pi->nread == pi->nwrite && pi->writeopen)  //DOC:    *)
(* pipe-empty": a reader sleeps only while the pipe is empty.              *)
SleepsOnlyOnEmpty ==
  \A p \in Procs : lock = None /\ pc[p] = "rasleep" => Empty /\ writeopen

(* The bytes from nread on, as the reader will get them. *)
Queue ==
  [k \in 1 .. (nwrite + Counter - nread) % Counter |-> data[(nread + k - 1) % PIPESIZE]]

Channel == INSTANCE Fifo WITH Capacity <- PIPESIZE, queue <- Queue

(* The ring with its free-running counters is a bounded FIFO queue that    *)
(* reports end of file at the right time (module Fifo), wherever the       *)
(* counters wrap and however readers, writers and closes interleave.       *)
IsFifo == Channel!FSpec
=============================================================================
