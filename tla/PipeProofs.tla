----------------------------- MODULE PipeProofs -----------------------------
(***************************************************************************)
(* Proofs about module Pipe, for any number of readers and writers and any *)
(* size of the ring: the pipe is freed once, with nobody in it, and no     *)
(* process sleeps on what is already there.                                *)
(***************************************************************************)
EXTENDS Pipe, SequenceTheorems, TLAPS

(* The time that the provers get for a step that does not say otherwise. *)
USE SMTT(20), ZenonT(20)

Reading == {"read_lock", "read", "read_sleep", "rasleep", "copy"}
Writing == {"write_lock", "write", "write_sleep", "wasleep"}
Critical == {"read", "read_sleep", "copy", "write", "write_sleep"}

(* The types the argument needs; the ring's contents do not matter to it. *)
Shape ==
  /\ readopen \in BOOLEAN /\ writeopen \in BOOLEAN /\ freed \in BOOLEAN
  /\ lock \in Procs \cup {None}
  /\ holds \in [{"r", "w"} -> SUBSET Procs] /\ holds["w"] \subseteq Writers
  /\ killed \in [Procs -> BOOLEAN]
  /\ pc \in [Procs -> Inside \cup {"user"}]
  /\ i \in [Procs -> Nat] /\ untold \in BOOLEAN

(* pi->lock is held by the process that is between acquire and release. *)
LockRight == \A p \in Procs : pc[p] \in Critical <=> lock = p

(* A process inside a call has its end open, and an end that somebody has  *)
(* open, or that is on its way through pipeclose, is not marked closed.    *)
EndsRight ==
  /\ \A p \in Procs : pc[p] \in Reading => p \in holds["r"]
  /\ \A p \in Procs : pc[p] \in Writing => p \in holds["w"]
  /\ holds["r"] # {} => readopen
  /\ holds["w"] # {} => writeopen

(* One process at most closes each end, and one frees the pipe. *)
ClosesOnce ==
  /\ \A p, q \in Procs :
       pc[p] = pc[q] /\ pc[p] \in {"close_r", "close_w", "kfree"} => p = q
  /\ \A p \in Procs :
       /\ pc[p] = "close_r" => readopen /\ holds["r"] = {}
       /\ pc[p] = "close_w" => writeopen /\ holds["w"] = {}
       /\ pc[p] = "kfree" => ~readopen /\ ~writeopen /\ ~freed
  /\ freed => ~readopen /\ ~writeopen

(* Who sleeps for room, or is about to, finds none, or the process with    *)
(* the lock is taking bytes out and will wake it.                          *)
WritersRight ==
  \A p \in Procs :
    /\ pc[p] = "write_sleep" => Full /\ readopen
    /\ pc[p] = "wasleep" => (Full /\ readopen) \/ (lock # None /\ pc[lock] = "copy")

(* Who sleeps for bytes, or is about to, finds none, or the process with   *)
(* the lock has put some in and will wake it, or one that did was killed.  *)
ReadersRight ==
  \A p \in Procs :
    /\ pc[p] = "read_sleep" => MustWait
    /\ pc[p] = "rasleep" => \/ MustWait
                            \/ lock # None /\ pc[lock] = "write" /\ i[lock] # 0
                            \/ untold

PipeInv == Shape /\ LockRight /\ EndsRight /\ ClosesOnce /\ WritersRight /\ ReadersRight
-----------------------------------------------------------------------------
(* The arithmetic of a ring that free-running indices select the slots of. *)

(* A multiple of s strictly between -s and s is 0. *)
LEMMA NoMultiple ==
  ASSUME NEW s \in Nat \ {0}, NEW k \in Int, s * k < s, 0 - s < s * k
  PROVE  k = 0
<1>1. CASE k >= 1
  <2>1. s * k >= s BY <1>1, SMT
  <2> QED BY <2>1
<1>2. CASE k <= -1
  <2>1. s * k <= 0 - s BY <1>2, SMT
  <2> QED BY <2>1
<1> QED BY <1>1, <1>2

(* Division with remainder, as C does it on unsigned numbers. *)
LEMMA Division ==
  ASSUME NEW s \in Nat \ {0}, NEW x \in Int
  PROVE  x \div s \in Int /\ x % s \in 0 .. s - 1 /\ x = s * (x \div s) + (x % s)
BY SMT

(* The remainder is the only number below s that differs from x by a      *)
(* multiple of s.                                                          *)
LEMMA ModUnique ==
  ASSUME NEW s \in Nat \ {0}, NEW x \in Nat, NEW q \in Int, NEW m \in 0 .. s - 1, x = s * q + m
  PROVE  x % s = m
<1> DEFINE d == x \div s
<1>1. d \in Int /\ x % s \in 0 .. s - 1 /\ x = s * d + (x % s) BY Division
<1> HIDE DEF d
<1>2. s * (d - q) = m - (x % s) BY <1>1, SMT
<1>3. d - q = 0 BY <1>1, <1>2, NoMultiple
<1>4. s * (d - q) = 0 BY <1>3
<1> QED BY <1>1, <1>2, <1>4

(* An index that is incremented, or an offset added to it, wraps at most   *)
(* once.                                                                   *)
LEMMA ModWrap ==
  ASSUME NEW c \in Nat \ {0}, NEW x \in Nat, x < 2 * c
  PROVE  x % c = IF x < c THEN x ELSE x - c
<1>1. CASE x < c
  <2>1. x = c * 0 + x BY SMT
  <2> QED BY <1>1, <2>1, ModUnique
<1>2. CASE x >= c
  <2>1. x = c * 1 + (x - c) BY SMT
  <2>2. x - c \in 0 .. c - 1 BY <1>2
  <2> QED BY <1>2, <2>1, <2>2, ModUnique
<1> QED BY <1>1, <1>2

(* Where an index with c values wraps, the slot it selects does not, since *)
(* the size of the ring divides c.                                         *)
LEMMA ModAdd ==
  ASSUME NEW s \in Nat \ {0}, NEW c \in Nat, c % s = 0, NEW x \in Nat
  PROVE  (x + c) % s = x % s
<1> DEFINE d == x \div s
           f == c \div s
           m == x % s
           y == x + c
<1>1. d \in Int /\ m \in 0 .. s - 1 /\ x = s * d + m BY Division
<1>2. f \in Int /\ c = s * f BY Division
<1>3. y \in Nat /\ y = x + c OBVIOUS
<1> HIDE DEF d, f, m, y
<1>4. s * (d + f) = s * d + s * f BY <1>1, <1>2, SMT
<1>5. d + f \in Int /\ y = s * (d + f) + m BY <1>1, <1>2, <1>3, <1>4
<1>6. y % s = m BY <1>1, <1>3, <1>5, ModUnique, ZenonT(30)
<1> QED BY <1>6, Zenon DEF m, y

(* Indices less than s apart select different slots of a ring of size s. *)
LEMMA ModDistinct ==
  ASSUME NEW s \in Nat \ {0}, NEW x \in Nat, NEW y \in Nat, x < y, y < x + s
  PROVE  x % s # y % s
<1> DEFINE d == x \div s
           f == y \div s
<1> SUFFICES ASSUME x % s = y % s PROVE FALSE OBVIOUS
<1>1. d \in Int /\ x % s \in 0 .. s - 1 /\ x = s * d + (x % s) BY Division
<1>2. f \in Int /\ y % s \in 0 .. s - 1 /\ y = s * f + (y % s) BY Division
<1> HIDE DEF d, f
<1>3. s * (f - d) = y - x BY <1>1, <1>2, SMT
<1>4. f - d = 0 BY <1>1, <1>2, <1>3, NoMultiple
<1>5. s * (f - d) = 0 BY <1>4
<1> QED BY <1>3, <1>5
-----------------------------------------------------------------------------
(* Whether the ring is full or empty depends on the counters alone. *)
LEMMA CountersDecide ==
  ASSUME UNCHANGED <<nread, nwrite>>
  PROVE  Full' = Full /\ Empty' = Empty
BY Zenon DEF Full, Empty

(* The invariant holds after pipealloc. *)
LEMMA PipeInit == Init => PipeInv
<1>1. Init => i \in [Procs -> Nat]
  BY DEF Init
<1> QED BY <1>1, ConstAssumption, ZenonT(30) DEF Init, PipeInv, Shape, LockRight, EndsRight, ClosesOnce,
  WritersRight, ReadersRight, Inside, Reading, Writing, Critical

(* Every step keeps the invariant.  The cases that carry the argument are  *)
(* WriteByte and ReadByte, which change the counters: nobody who sleeps    *)
(* for the other condition is left behind, since the process with the lock *)
(* is the one that will wake it; and WriteFail, the one way out of         *)
(* pipewrite that wakes nobody: either no reader is left, or the writer    *)
(* was killed.                                                             *)
LEMMA PipeStep == PipeInv /\ [Next]_vars => PipeInv'
<1> SUFFICES ASSUME PipeInv, [Next]_vars PROVE PipeInv'
  OBVIOUS
<1> USE ConstAssumption DEF PipeInv, Shape, LockRight, EndsRight, ClosesOnce,
      WritersRight, ReadersRight, Inside, Reading, Writing, Critical, MustWait
<1>1. ASSUME NEW p \in Procs,
             \/ ReadCall(p) \/ WriteCall(p) \/ Compute(p) \/ Kill(p)
             \/ \E e \in {"r", "w"} : Close(p, e)
             \/ Run(p) \/ Acquire(p)
      PROVE  PipeInv'
  <2>1. CASE ReadCall(p)
    BY <2>1, CountersDecide DEF ReadCall, Call, Goto, pipe
  <2>2. CASE WriteCall(p)
    BY <2>2, CountersDecide DEF WriteCall, Call, Goto, pipe
  <2>3. CASE Compute(p)
    BY <2>3, CountersDecide DEF Compute, vars, pipe
  <2>4. CASE Kill(p)
    BY <2>4, CountersDecide DEF Kill, Goto, pipe
  <2>5. CASE \E e \in {"r", "w"} : Close(p, e)
    BY <2>5, CountersDecide DEF Close, Last, Goto, pipe
  <2>6. CASE WriteFail(p)
    BY <2>6, CountersDecide DEF WriteFail, Return, pipe
  <2>7. CASE WriteFull(p)
    BY <2>7, CountersDecide, ZenonT(30) DEF WriteFull, WakeReaders, pipe
  <2>8. CASE WriteSleep(p)
    BY <2>8, CountersDecide DEF WriteSleep, Sleep, Goto, pipe
  <2>9. CASE WriteEnd(p)
    <3>1. i' \in [Procs -> Nat]
      BY <2>9 DEF WriteEnd, Return
    <3>2. /\ lock = p /\ pc[p] = "write" /\ lock' = None /\ pc' \in [Procs -> Inside \cup {"user"}] /\ pc'[p] = "user"
          /\ \A q \in Procs \ {p} : pc'[q] = IF pc[q] = "rasleep" THEN "read_lock" ELSE pc[q]
          /\ untold' = FALSE /\ UNCHANGED <<readopen, writeopen, freed, holds, killed>>
          /\ Full' = Full /\ Empty' = Empty
      BY <2>9, CountersDecide DEF WriteEnd, Return, WakeReaders, pipe
    <3>3. (Shape /\ LockRight)'
      BY <3>1, <3>2
    <3>4. (EndsRight /\ ClosesOnce)'
      BY <3>2
    <3>5. (WritersRight /\ ReadersRight)'
      BY <3>2
    <3> QED BY <3>3, <3>4, <3>5, Zenon
  <2>10. CASE \E b \in Byte : WriteByte(p, b)
    <3>1. PICK b \in Byte : WriteByte(p, b)
      BY <2>10, Zenon
    <3>2. i' \in [Procs -> Nat] /\ i'[p] # 0
      BY <3>1 DEF WriteByte
    <3> QED BY <3>1, <3>2, ZenonT(30) DEF WriteByte
  <2>11. CASE ReadKilled(p)
    BY <2>11, CountersDecide DEF ReadKilled, Return, pipe
  <2>12. CASE ReadEmpty(p)
    BY <2>12, CountersDecide DEF ReadEmpty, Goto, pipe
  <2>13. CASE ReadSleep(p)
    BY <2>13, CountersDecide DEF ReadSleep, Sleep, Goto, pipe
  <2>14. CASE ReadCopy(p)
    BY <2>14, CountersDecide DEF ReadCopy, Goto, pipe
  <2>15. CASE ReadByte(p)
    <3>1. i' \in [Procs -> Nat]
      BY <2>15 DEF ReadByte
    <3> QED BY <2>15, <3>1, ZenonT(30) DEF ReadByte, NextByte
  <2>16. CASE ReadFault(p)
    BY <2>16 DEF ReadFault, NextByte, Return, WakeWriters
  <2>17. CASE ReadEnd(p)
    BY <2>17, CountersDecide DEF ReadEnd, Return, WakeWriters, pipe
  <2>18. CASE Kfree(p)
    BY <2>18, CountersDecide DEF Kfree, Goto, pipe
  <2>19. CASE ReadLock(p)
    BY <2>19, CountersDecide DEF ReadLock, Lock, Goto, pipe
  <2>20. CASE WriteLock(p)
    BY <2>20, CountersDecide DEF WriteLock, Lock, Goto, pipe
  <2>21. CASE CloseRead(p)
    BY <2>21, CountersDecide, ZenonT(40) DEF CloseRead, PipeClose, WakeWriters
  <2>22. CASE CloseWrite(p)
    BY <2>22, CountersDecide, ZenonT(40) DEF CloseWrite, PipeClose, WakeReaders
  <2> QED
    BY <1>1, <2>1, <2>2, <2>3, <2>4, <2>5, <2>6, <2>7, <2>8, <2>9, <2>10, <2>11, <2>12, <2>13, <2>14, <2>15, <2>16, <2>17, <2>18, <2>19, <2>20, <2>21, <2>22, ZenonT(30) DEF Run, Acquire
<1>2. CASE UNCHANGED vars
  BY <1>2, CountersDecide DEF vars, pipe
<1> QED
  BY <1>1, <1>2, Zenon DEF Next
-----------------------------------------------------------------------------
(* The number of bytes in the ring. *)
Count == (nwrite + Counter - nread) % Counter

(* The counters, and when a reader that has got nothing yet may report the *)
(* end of the file.                                                        *)
RingInv ==
  /\ nread \in 0 .. Counter - 1 /\ nwrite \in 0 .. Counter - 1
  /\ Count <= PIPESIZE
  /\ data \in [Slots -> Byte \cup {None}]
  /\ i \in [Procs -> Nat]
  /\ \A p \in Procs : pc[p] = "copy" /\ i[p] = 0 => ~MustWait

(* What the counters say about the ring. *)
LEMMA CountFacts ==
  ASSUME RingInv
  PROVE  /\ Count = IF nwrite >= nread THEN nwrite - nread ELSE nwrite + Counter - nread
         /\ Count \in 0 .. PIPESIZE
         /\ Empty <=> Count = 0
         /\ Full <=> Count = PIPESIZE
         /\ (nread + Count) % PIPESIZE = nwrite % PIPESIZE
<1>c. /\ PIPESIZE \in Nat \ {0} /\ Counter \in Nat \ {0}
      /\ PIPESIZE < Counter /\ Counter % PIPESIZE = 0
  BY ConstAssumption
<1>0. nread \in 0 .. Counter - 1 /\ nwrite \in 0 .. Counter - 1 /\ Count <= PIPESIZE
  BY Zenon DEF RingInv
<1>1. nwrite + Counter - nread \in Nat /\ nwrite + Counter - nread < 2 * Counter
  BY <1>0, <1>c
<1>2. Count = IF nwrite >= nread THEN nwrite - nread ELSE nwrite + Counter - nread
  <2> DEFINE x == nwrite + Counter - nread
  <2>1. x % Counter = IF x < Counter THEN x ELSE x - Counter
    <3> HIDE DEF x
    <3> QED BY <1>1, <1>c, ModWrap, Zenon DEF x
  <2> QED BY <2>1, <1>0, <1>c DEF Count
<1>3. Count \in 0 .. PIPESIZE
  BY <1>0, <1>c, <1>2
<1>4. Empty <=> Count = 0
  BY <1>0, <1>c, <1>2 DEF Empty
<1>5. Full <=> Count = PIPESIZE
  <2> DEFINE x == nread + PIPESIZE
  <2>1. x \in Nat /\ x < 2 * Counter
    BY <1>0, <1>c
  <2>2. x % Counter = IF x < Counter THEN x ELSE x - Counter
    <3> HIDE DEF x
    <3> QED BY <2>1, <1>c, ModWrap, Zenon
  <2> QED BY <2>2, <1>0, <1>c, <1>2 DEF Full
<1>6. (nread + Count) % PIPESIZE = nwrite % PIPESIZE
  <2>1. CASE nwrite >= nread
    <3>1. nread + Count = nwrite
      BY <2>1, <1>0, <1>2
    <3> QED BY <3>1, Zenon
  <2>2. CASE nwrite < nread
    <3>1. nread + Count = nwrite + Counter
      BY <2>2, <1>0, <1>c, <1>2
    <3>2. nwrite \in Nat
      BY <1>0, <1>c
    <3>3. (nwrite + Counter) % PIPESIZE = nwrite % PIPESIZE
      BY ONLY <3>2, <1>c, ModAdd, Zenon
    <3> QED BY <3>1, <3>3, Zenon
  <2> QED BY <2>1, <2>2, <1>0
<1> QED BY <1>2, <1>3, <1>4, <1>5, <1>6, Zenon

(* The ring as a sequence. *)
LEMMA QueueFacts ==
  ASSUME RingInv
  PROVE  /\ Queue \in Seq(Byte \cup {None})
         /\ Len(Queue) = Count
         /\ Queue = <<>> <=> Empty
         /\ \A k \in 1 .. Count : Queue[k] = data[(nread + k - 1) % PIPESIZE]
<1>1. Queue = [k \in 1 .. Count |-> data[(nread + k - 1) % PIPESIZE]]
  BY Zenon DEF Queue, Count
<1>2. Count \in Nat /\ (Empty <=> Count = 0)
  BY CountFacts, ConstAssumption
<1>3. ASSUME NEW k \in 1 .. Count
      PROVE  data[(nread + k - 1) % PIPESIZE] \in Byte \cup {None}
  <2> DEFINE x == nread + k - 1
  <2>1. x \in Int
    BY <1>2, ConstAssumption DEF RingInv
  <2>2. PIPESIZE \in Nat \ {0}
    BY ConstAssumption, Zenon
  <2>3. x % PIPESIZE \in Slots
    <3> HIDE DEF x
    <3> QED BY ONLY <2>1, <2>2, Division, Zenon DEF Slots
  <2> QED BY <2>3, Zenon DEF RingInv
<1>4. Queue \in [1 .. Count -> Byte \cup {None}]
  BY <1>1, <1>3, Zenon
<1>5. Queue \in Seq(Byte \cup {None}) /\ Len(Queue) = Count
  BY <1>2, <1>4
<1>6. Queue = <<>> <=> Empty
  BY <1>2, <1>5, EmptySeq, Zenon
<1> QED BY <1>1, <1>5, <1>6, Zenon

(* pi->data[pi->nwrite++ % PIPESIZE] = ch appends to the queue, and         *)
(* overwrites no byte that is in it.                                       *)
LEMMA PutAppends ==
  ASSUME RingInv, ~Full, NEW b \in Byte,
         data' = [data EXCEPT ![nwrite % PIPESIZE] = b],
         nwrite' = (nwrite + 1) % Counter, nread' = nread
  PROVE  /\ nwrite' \in 0 .. Counter - 1
         /\ Count' = Count + 1 /\ Count' <= PIPESIZE
         /\ data' \in [Slots -> Byte \cup {None}]
         /\ Queue' = Append(Queue, b)
<1>c. /\ PIPESIZE \in Nat \ {0} /\ Counter \in Nat \ {0}
      /\ PIPESIZE < Counter /\ Counter % PIPESIZE = 0
  BY ConstAssumption
<1>0. /\ nread \in 0 .. Counter - 1 /\ nwrite \in 0 .. Counter - 1
      /\ data \in [Slots -> Byte \cup {None}]
  BY Zenon DEF RingInv
<1>1. /\ Count = IF nwrite >= nread THEN nwrite - nread ELSE nwrite + Counter - nread
      /\ Count \in 0 .. PIPESIZE - 1
      /\ (nread + Count) % PIPESIZE = nwrite % PIPESIZE
  BY CountFacts, <1>c
<1>2. nwrite' = IF nwrite + 1 < Counter THEN nwrite + 1 ELSE 0
  <2> DEFINE x == nwrite + 1
  <2>1. x \in Nat /\ x <= Counter /\ x < 2 * Counter
    BY <1>0, <1>c
  <2>2. x % Counter = IF x < Counter THEN x ELSE x - Counter
    <3> HIDE DEF x
    <3> QED BY ONLY <2>1, <1>c, ModWrap, Zenon
  <2> QED BY <2>1, <2>2, <1>0, <1>c
<1>3. nwrite' \in 0 .. Counter - 1
  BY <1>2, <1>0, <1>c
<1>4. Count' = Count + 1
  <2> DEFINE x == nwrite' + Counter - nread
  <2>1. x \in Nat /\ x < 2 * Counter
    BY <1>0, <1>c, <1>3
  <2>2. x % Counter = IF x < Counter THEN x ELSE x - Counter
    <3> HIDE DEF x
    <3> QED BY ONLY <2>1, <1>c, ModWrap, Zenon
  <2>3. Count' = x % Counter
    BY Zenon DEF Count
  <2> QED BY <2>2, <2>3, <1>0, <1>c, <1>1, <1>2
<1>5. data' \in [Slots -> Byte \cup {None}]
  BY <1>0, Zenon
<1>6. nwrite % PIPESIZE \in Slots
  BY <1>0, <1>c, Division DEF Slots
<1>7. Queue' = [k \in 1 .. Count + 1 |-> data'[(nread + k - 1) % PIPESIZE]]
  BY <1>4 DEF Queue, Count
<1>8. ASSUME NEW k \in 1 .. Count
      PROVE  data'[(nread + k - 1) % PIPESIZE] = data[(nread + k - 1) % PIPESIZE]
  <2> DEFINE x == nread + k - 1
             y == nread + Count
  <2>1. x \in Nat /\ y \in Nat /\ x < y /\ y < x + PIPESIZE
    BY <1>0, <1>1, <1>c
  <2>2. x % PIPESIZE # y % PIPESIZE
    <3> HIDE DEF x, y
    <3> QED BY ONLY <2>1, <1>c, ModDistinct, Zenon
  <2>3. x % PIPESIZE \in Slots
    <3> HIDE DEF x, y
    <3> QED BY ONLY <2>1, <1>c, Division DEF Slots
  <2> QED BY <2>2, <2>3, <1>0, <1>1, Zenon
<1>9. data'[(nread + (Count + 1) - 1) % PIPESIZE] = b
  <2>1. nread + (Count + 1) - 1 = nread + Count
    BY <1>0, <1>1, <1>c
  <2> QED BY <2>1, <1>0, <1>1, <1>6, Zenon
<1>10. Append(Queue, b) = [k \in 1 .. Count + 1 |-> IF k = Count + 1 THEN b ELSE Queue[k]]
  <2>1. Queue \in Seq(Byte \cup {None}) /\ Len(Queue) = Count
    BY QueueFacts, Zenon
  <2>2. /\ Append(Queue, b) \in Seq(Byte \cup {None})
        /\ Len(Append(Queue, b)) = Count + 1
        /\ \A k \in 1 .. Count + 1 : Append(Queue, b)[k] = IF k = Count + 1 THEN b ELSE Queue[k]
    BY <2>1, <1>1, <1>c, AppendProperties
  <2> QED BY <2>2, LenProperties, Zenon
<1>11. ASSUME NEW k \in 1 .. Count + 1
       PROVE  data'[(nread + k - 1) % PIPESIZE] = IF k = Count + 1 THEN b ELSE Queue[k]
  <2>1. CASE k = Count + 1
    BY <2>1, <1>9, Zenon
  <2>2. CASE k # Count + 1
    <3>1. k \in 1 .. Count
      BY <2>2, <1>1, <1>c
    <3> QED BY <3>1, <2>2, <1>8, QueueFacts, Zenon
  <2> QED BY <2>1, <2>2, Zenon
<1> QED
  <2>1. Queue' = Append(Queue, b)
    BY <1>7, <1>10, <1>11, Zenon
  <2> QED BY <2>1, <1>1, <1>3, <1>4, <1>5, <1>c

(* ch = pi->data[pi->nread++ % PIPESIZE] takes the oldest byte. *)
LEMMA TakeIsHead ==
  ASSUME RingInv, ~Empty,
         nread' = (nread + 1) % Counter, UNCHANGED <<data, nwrite>>
  PROVE  /\ nread' \in 0 .. Counter - 1
         /\ Count' = Count - 1 /\ Count' <= PIPESIZE
         /\ Queue # <<>> /\ Head(Queue) = data[nread % PIPESIZE]
         /\ Queue' = Tail(Queue)
<1>c. /\ PIPESIZE \in Nat \ {0} /\ Counter \in Nat \ {0}
      /\ PIPESIZE < Counter /\ Counter % PIPESIZE = 0
  BY ConstAssumption
<1>0. nread \in 0 .. Counter - 1 /\ nwrite \in 0 .. Counter - 1
  BY Zenon DEF RingInv
<1>1. /\ Count = IF nwrite >= nread THEN nwrite - nread ELSE nwrite + Counter - nread
      /\ Count \in 1 .. PIPESIZE
  BY CountFacts, <1>c
<1>2. nread' = IF nread + 1 < Counter THEN nread + 1 ELSE 0
  <2> DEFINE x == nread + 1
  <2>1. x \in Nat /\ x <= Counter /\ x < 2 * Counter
    BY <1>0, <1>c
  <2>2. x % Counter = IF x < Counter THEN x ELSE x - Counter
    <3> HIDE DEF x
    <3> QED BY ONLY <2>1, <1>c, ModWrap, Zenon
  <2> QED BY <2>1, <2>2, <1>0, <1>c
<1>3. nread' \in 0 .. Counter - 1
  BY <1>2, <1>0, <1>c
<1>4. Count' = Count - 1
  <2> DEFINE x == nwrite + Counter - nread'
  <2>1. x \in Nat /\ x < 2 * Counter
    BY <1>0, <1>c, <1>3
  <2>2. x % Counter = IF x < Counter THEN x ELSE x - Counter
    <3> HIDE DEF x
    <3> QED BY ONLY <2>1, <1>c, ModWrap, Zenon
  <2>3. Count' = x % Counter
    BY Zenon DEF Count
  <2> QED BY <2>2, <2>3, <1>0, <1>c, <1>1, <1>2
<1>5. /\ Queue \in Seq(Byte \cup {None}) /\ Len(Queue) = Count /\ Queue # <<>>
      /\ \A k \in 1 .. Count : Queue[k] = data[(nread + k - 1) % PIPESIZE]
  BY QueueFacts, Zenon
<1>6. Head(Queue) = data[nread % PIPESIZE]
  <2>1. Head(Queue) = Queue[1] /\ 1 \in 1 .. Count
    BY <1>1, <1>5, <1>c
  <2>2. nread + 1 - 1 = nread
    BY <1>0, <1>c
  <2> QED BY <2>1, <2>2, <1>5, Zenon
<1>7. Queue' = [k \in 1 .. Count - 1 |-> data[(nread' + k - 1) % PIPESIZE]]
  BY <1>4, Zenon DEF Queue, Count
<1>8. ASSUME NEW k \in 1 .. Count - 1
      PROVE  (nread' + k - 1) % PIPESIZE = (nread + (k + 1) - 1) % PIPESIZE
  <2>1. CASE nread + 1 < Counter
    <3>1. nread' + k - 1 = nread + (k + 1) - 1
      BY <2>1, <1>0, <1>1, <1>2, <1>c
    <3> QED BY <3>1, Zenon
  <2>2. CASE nread + 1 = Counter
    <3> DEFINE x == k - 1
    <3>1. x \in Nat /\ nread' + k - 1 = x /\ nread + (k + 1) - 1 = x + Counter
      BY <2>2, <1>0, <1>1, <1>2, <1>c
    <3>2. (x + Counter) % PIPESIZE = x % PIPESIZE
      <4> HIDE DEF x
      <4> QED BY ONLY <3>1, <1>c, ModAdd, Zenon
    <3> QED BY <3>1, <3>2, Zenon
  <2> QED BY <2>1, <2>2, <1>0, <1>c
<1>9. Tail(Queue) = [k \in 1 .. Count - 1 |-> Queue[k + 1]]
  <2>1. /\ Tail(Queue) \in Seq(Byte \cup {None}) /\ Len(Tail(Queue)) = Count - 1
        /\ \A k \in 1 .. Count - 1 : Tail(Queue)[k] = Queue[k + 1]
    BY <1>5, HeadTailProperties, ZenonT(30)
  <2> QED BY <2>1, LenProperties, Zenon
<1>10. ASSUME NEW k \in 1 .. Count - 1
       PROVE  data[(nread' + k - 1) % PIPESIZE] = Queue[k + 1]
  <2>1. k + 1 \in 1 .. Count
    BY <1>1, <1>c
  <2> QED BY <2>1, <1>5, <1>8, Zenon
<1> QED
  <2>1. Queue' = Tail(Queue)
    BY <1>7, <1>9, <1>10, Zenon
  <2> QED BY <2>1, <1>1, <1>3, <1>4, <1>5, <1>6, <1>c

(* A step that leaves the ring alone leaves the queue alone. *)
LEMMA RingUnchanged ==
  ASSUME UNCHANGED <<data, nread, nwrite>>
  PROVE  Queue' = Queue /\ Count' = Count /\ Full' = Full /\ Empty' = Empty
BY Zenon DEF Queue, Count, Full, Empty

(* The empty ring of pipealloc is the empty queue. *)
LEMMA FifoInit == Init => RingInv /\ Channel!FInit
<1> SUFFICES ASSUME Init PROVE RingInv /\ Channel!FInit
  OBVIOUS
<1>c. PIPESIZE \in Nat \ {0} /\ Counter \in Nat \ {0}
  BY ConstAssumption
<1>1. Counter % Counter = 0
  BY <1>c, ModWrap
<1>2. Count = 0
  BY <1>1, <1>c DEF Init, Count
<1>3. RingInv
  BY <1>2, <1>c DEF Init, RingInv, Slots
<1>4. Queue = <<>>
  BY <1>2, <1>3, QueueFacts, Zenon DEF Empty, Init
<1> QED BY <1>3, <1>4, Zenon DEF Init, Channel!FInit

(* Every step of the code is a step of the queue or leaves it alone: a     *)
(* byte put, a byte taken, the end of the file, or the close of an end.    *)
LEMMA FifoStep ==
  PipeInv /\ RingInv /\ [Next]_vars => RingInv' /\ [Channel!FNext]_(Channel!fvars)
<1> SUFFICES ASSUME PipeInv, RingInv, [Next]_vars
             PROVE  RingInv' /\ [Channel!FNext]_(Channel!fvars)
  OBVIOUS
<1>s. /\ Shape /\ LockRight /\ EndsRight
      /\ i \in [Procs -> Nat] /\ None \notin Procs
      /\ \A p \in Procs : pc[p] = "copy" /\ i[p] = 0 => ~MustWait
  BY ConstAssumption, Zenon DEF PipeInv, RingInv
<1>q. ASSUME UNCHANGED <<data, nread, nwrite>>, i' \in [Procs -> Nat],
             \A p \in Procs : pc'[p] = "copy" /\ i'[p] = 0 => ~MustWait'
      PROVE  RingInv'
  BY <1>q, RingUnchanged, Zenon DEF RingInv
<1>1. ASSUME NEW p \in Procs,
             \/ ReadCall(p) \/ WriteCall(p) \/ Compute(p) \/ Kill(p)
             \/ \E e \in {"r", "w"} : Close(p, e)
             \/ Run(p) \/ Acquire(p)
      PROVE  RingInv' /\ [Channel!FNext]_(Channel!fvars)
  <2>q. ASSUME UNCHANGED <<pipe, res>>, i' \in [Procs -> Nat],
               \A q \in Procs : pc'[q] = "copy" => (pc[q] = "copy" /\ i'[q] = i[q]) \/ ~MustWait
        PROVE  RingInv' /\ [Channel!FNext]_(Channel!fvars)
    <3>1. UNCHANGED <<Queue, readopen, writeopen, res>> /\ MustWait' = MustWait
      BY <2>q, RingUnchanged DEF pipe, MustWait
    <3>2. RingInv'
      BY <2>q, <3>1, <1>q, <1>s, Zenon DEF pipe
    <3> QED BY <3>1, <3>2, Zenon DEF Channel!fvars
  <2>1. CASE ReadCall(p)
    BY <2>1, <2>q, <1>s, Zenon DEF ReadCall, Call, Goto, Shape, LockRight, Critical, Inside
  <2>2. CASE WriteCall(p)
    BY <2>2, <2>q, <1>s, Zenon DEF WriteCall, Call, Goto, Shape, LockRight, Critical, Inside
  <2>3. CASE Compute(p)
    BY <2>3, <2>q, <1>s, Zenon DEF Compute, vars, Shape, LockRight, Critical, Inside
  <2>4. CASE Kill(p)
    BY <2>4, <2>q, <1>s, Zenon DEF Kill, Goto, Shape, LockRight, Critical, Inside
  <2>5. CASE \E e \in {"r", "w"} : Close(p, e)
    BY <2>5, <2>q, <1>s DEF Close, Goto, Shape, LockRight, Critical, Inside
  <2>6. CASE WriteFail(p)
    BY <2>6, <2>q, <1>s, Zenon DEF WriteFail, Return, Shape, LockRight, Critical, Inside
  <2>7. CASE WriteFull(p)
    BY <2>7, <2>q, <1>s, Zenon DEF WriteFull, WakeReaders, Shape, LockRight, Critical, Inside
  <2>8. CASE WriteSleep(p)
    BY <2>8, <2>q, <1>s, Zenon DEF WriteSleep, Sleep, Goto, Shape, LockRight, Critical, Inside
  <2>9. CASE WriteEnd(p)
    BY <2>9, <2>q, <1>s, Zenon DEF WriteEnd, Return, WakeReaders, Shape, LockRight, Critical, Inside
  <2>10. CASE ReadKilled(p)
    BY <2>10, <2>q, <1>s, Zenon DEF ReadKilled, Return, Shape, LockRight, Critical, Inside
  <2>11. CASE ReadEmpty(p)
    BY <2>11, <2>q, <1>s, Zenon DEF ReadEmpty, Goto, Shape, LockRight, Critical, Inside
  <2>12. CASE ReadSleep(p)
    BY <2>12, <2>q, <1>s, Zenon DEF ReadSleep, Sleep, Goto, Shape, LockRight, Critical, Inside
  <2>13. CASE ReadCopy(p)
    BY <2>13, <2>q, <1>s, Zenon DEF ReadCopy, Goto, Shape, LockRight, Critical, Inside
  <2>14. CASE Kfree(p)
    BY <2>14, <2>q, <1>s, Zenon DEF Kfree, Goto, Shape, LockRight, Critical, Inside
  <2>15. CASE ReadLock(p)
    BY <2>15, <2>q, <1>s, Zenon DEF ReadLock, Lock, Goto, Shape, LockRight, Critical, Inside
  <2>16. CASE WriteLock(p)
    BY <2>16, <2>q, <1>s, Zenon DEF WriteLock, Lock, Goto, Shape, LockRight, Critical, Inside
  <2>17. CASE \E b \in Byte : WriteByte(p, b)
    <3>1. PICK b \in Byte : WriteByte(p, b)
      BY <2>17, Zenon
    <3>2. /\ pc[p] = "write" /\ readopen /\ ~Full /\ UNCHANGED <<readopen, writeopen, pc, res>>
          /\ data' = [data EXCEPT ![nwrite % PIPESIZE] = b]
          /\ nwrite' = (nwrite + 1) % Counter /\ nread' = nread
          /\ i' = [i EXCEPT ![p] = @ + 1]
      BY <3>1, Zenon DEF WriteByte
    <3>3. /\ nwrite' \in 0 .. Counter - 1 /\ Count' <= PIPESIZE /\ Count' = Count + 1
          /\ data' \in [Slots -> Byte \cup {None}] /\ Queue' = Append(Queue, b)
      BY <3>2, PutAppends, Zenon
    <3>4. RingInv'
      BY <3>2, <3>3, <1>s DEF RingInv, LockRight, Critical
    <3>5. Len(Queue) < PIPESIZE
      BY QueueFacts, CountFacts, <3>2, ConstAssumption
    <3>6. writeopen
      BY <3>2, <1>s, Zenon DEF EndsRight, Writing
    <3>7. Channel!Put(b)
      BY <3>2, <3>3, <3>5, <3>6, Zenon DEF Channel!Put
    <3> QED BY <3>4, <3>7, Zenon DEF Channel!FNext
  <2>18. CASE ReadByte(p)
    <3>1. /\ pc[p] = "copy" /\ ~Empty /\ UNCHANGED <<data, nwrite, readopen, writeopen, pc>>
          /\ nread' = (nread + 1) % Counter /\ res' = <<"byte", data[nread % PIPESIZE]>>
          /\ i' = [i EXCEPT ![p] = @ + 1]
      BY <2>18, Zenon DEF ReadByte, NextByte
    <3>2. /\ nread' \in 0 .. Counter - 1 /\ Count' <= PIPESIZE
          /\ Queue # <<>> /\ Head(Queue) = data[nread % PIPESIZE] /\ Queue' = Tail(Queue)
      BY <3>1, TakeIsHead, Zenon
    <3>3. RingInv'
      BY <3>1, <3>2, <1>s DEF RingInv, LockRight, Critical
    <3>4. Channel!Take("byte")
      BY <3>1, <3>2, <1>s, Zenon DEF Channel!Take, EndsRight, Reading
    <3> QED BY <3>3, <3>4, Zenon DEF Channel!FNext
  <2>19. CASE ReadFault(p)
    <3>1. /\ pc[p] = "copy" /\ ~Empty /\ UNCHANGED <<data, nwrite, readopen, writeopen>>
          /\ nread' = (nread + 1) % Counter /\ res' = <<"lost", data[nread % PIPESIZE]>>
          /\ i' = [i EXCEPT ![p] = 0] /\ pc' = [WakeWriters(pc) EXCEPT ![p] = "user"]
      BY <2>19, Zenon DEF ReadFault, NextByte, Return
    <3>2. /\ nread' \in 0 .. Counter - 1 /\ Count' <= PIPESIZE
          /\ Queue # <<>> /\ Head(Queue) = data[nread % PIPESIZE] /\ Queue' = Tail(Queue)
      BY <3>1, TakeIsHead, Zenon
    <3>3. RingInv'
      BY <3>1, <3>2, <1>s, Zenon DEF RingInv, LockRight, Critical, WakeWriters
    <3>4. Channel!Take("lost")
      BY <3>1, <3>2, <1>s, Zenon DEF Channel!Take, EndsRight, Reading
    <3> QED BY <3>3, <3>4, Zenon DEF Channel!FNext
  <2>20. CASE ReadEnd(p)
    <3>1. /\ pc[p] = "copy" /\ UNCHANGED pipe
          /\ i[p] = n[p] \/ Empty
          /\ res' = IF i[p] = 0 /\ n[p] > 0 THEN <<"eof">> ELSE res
          /\ i' = [i EXCEPT ![p] = 0] /\ pc' = [WakeWriters(pc) EXCEPT ![p] = "user"]
      BY <2>20, Zenon DEF ReadEnd, Return
    <3>2. Queue' = Queue /\ UNCHANGED <<readopen, writeopen>>
      BY <3>1, RingUnchanged, Zenon DEF pipe
    <3>3. RingInv'
      BY <3>1, <1>q, <1>s, Zenon DEF pipe, LockRight, Critical, WakeWriters
    <3>4. CASE i[p] = 0 /\ n[p] > 0
      <4>1. Empty /\ ~writeopen /\ readopen
        BY <3>1, <3>4, <1>s DEF MustWait, EndsRight, Reading
      <4>2. Channel!EndOfFile
        BY <4>1, <3>1, <3>2, <3>4, QueueFacts, Zenon DEF Channel!EndOfFile
      <4> QED BY <4>2, <3>3, Zenon DEF Channel!FNext
    <3>5. CASE ~(i[p] = 0 /\ n[p] > 0)
      BY <3>1, <3>2, <3>3, <3>5, Zenon DEF Channel!fvars
    <3> QED BY <3>4, <3>5, Zenon
  <2>21. CASE CloseRead(p)
    <3>1. /\ lock = None /\ readopen' = FALSE
          /\ UNCHANGED <<writeopen, data, nread, nwrite, i, res>>
          /\ \A q \in Procs : pc'[q] = "copy" => pc[q] = "copy"
      BY <2>21, <1>s, Zenon DEF CloseRead, PipeClose, WakeWriters
    <3>2. RingInv'
      BY <3>1, <1>q, <1>s, Zenon DEF LockRight, Critical
    <3>3. Channel!CloseRead
      BY <3>1, RingUnchanged, Zenon DEF Channel!CloseRead
    <3> QED BY <3>2, <3>3, Zenon DEF Channel!FNext
  <2>22. CASE CloseWrite(p)
    <3>1. /\ lock = None /\ writeopen' = FALSE
          /\ UNCHANGED <<readopen, data, nread, nwrite, i, res>>
          /\ \A q \in Procs : pc'[q] = "copy" => pc[q] = "copy"
      BY <2>22, <1>s, Zenon DEF CloseWrite, PipeClose, WakeReaders
    <3>2. RingInv'
      BY <3>1, <1>q, <1>s, Zenon DEF LockRight, Critical
    <3>3. Channel!CloseWrite
      BY <3>1, RingUnchanged, Zenon DEF Channel!CloseWrite
    <3> QED BY <3>2, <3>3, Zenon DEF Channel!FNext
  <2> QED
    BY <1>1, <2>1, <2>2, <2>3, <2>4, <2>5, <2>6, <2>7, <2>8, <2>9, <2>10, <2>11, <2>12, <2>13, <2>14, <2>15, <2>16, <2>17, <2>18, <2>19, <2>20, <2>21, <2>22, ZenonT(30) DEF Run, Acquire
<1>2. CASE UNCHANGED vars
  <2>1. UNCHANGED <<Queue, readopen, writeopen, res>> /\ MustWait' = MustWait
    BY <1>2, RingUnchanged DEF vars, pipe, MustWait
  <2>2. RingInv'
    BY <2>1, <1>2, <1>q, <1>s, Zenon DEF vars, pipe
  <2> QED BY <2>1, <2>2, Zenon DEF Channel!fvars
<1> QED
  BY <1>1, <1>2, Zenon DEF Next
-----------------------------------------------------------------------------
(* The invariant of the lock, the ends, the sleepers and the ring holds in *)
(* every reachable state, for any number of processes, any size of the     *)
(* ring and any multiple of it at which the counters wrap.                 *)
THEOREM PipeInvariance == Spec => [](PipeInv /\ RingInv)
<1>1. Init => PipeInv /\ RingInv
  BY PipeInit, FifoInit, Zenon
<1>2. PipeInv /\ RingInv /\ [Next]_vars => PipeInv' /\ RingInv'
  BY PipeStep, FifoStep, Zenon
<1> QED BY <1>1, <1>2, PTL DEF Spec

(* The pipe is freed once, with nobody inside it (pipeclose, fileclose). *)
THEOREM FreedUnused == Spec => []NoUseAfterFree
<1>1. PipeInv => NoUseAfterFree
  BY Zenon DEF PipeInv, Shape, EndsRight, ClosesOnce, NoUseAfterFree, Inside, Reading, Writing
<1> QED BY <1>1, PipeInvariance, PTL

(* No reader or writer sleeps for what is there already (the wakeups of    *)
(* pipewrite, piperead and pipeclose).                                     *)
THEOREM NobodyForgotten == Spec => []NoLostWakeup
<1>1. PipeInv => NoLostWakeup
  BY ConstAssumption, Zenon DEF PipeInv, Shape, WritersRight, ReadersRight, NoLostWakeup
<1> QED BY <1>1, PipeInvariance, PTL

(* The pipe implements the bounded queue of module Fifo (data, nread and   *)
(* nwrite of struct pipe).                                                 *)
THEOREM PipeIsFifo == Spec => IsFifo
<1>1. Init => Channel!FInit
  BY FifoInit, Zenon
<1>2. PipeInv /\ RingInv /\ [Next]_vars => [Channel!FNext]_(Channel!fvars)
  BY FifoStep, Zenon
<1> QED BY <1>1, <1>2, PipeInvariance, PTL DEF Spec, IsFifo, Channel!FSpec
=============================================================================
