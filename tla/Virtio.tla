------------------------------- MODULE Virtio -------------------------------
(***************************************************************************)
(* kernel/virtio_disk.c: the driver of the block device.  A request takes  *)
(* three descriptors, is put on the available ring, sleeps until the       *)
(* interrupt handler finds it on the used ring, and frees its chain.       *)
(*                                                                         *)
(* Grain.  What runs under vdisk_lock without a device that could see the  *)
(* difference is one step; sleep() releases the lock and falls asleep in   *)
(* one step (module Sched).  A buffer is locked by the process that has it *)
(* read or written (module Bcache), so it is named by that process.  A     *)
(* ring slot whose entry has been consumed, and what a request leaves in   *)
(* idx when it returns, are dead until written again: they are reset.      *)
(***************************************************************************)
EXTENDS Naturals, FiniteSets

CONSTANTS
  Procs,
  NUM,     \* descriptors, and entries of each ring
  Index,   \* number of values of the rings' idx fields (uint16)
  None

ASSUME ConstAssumption ==
  /\ NUM \in Nat /\ NUM > 2
  /\ Index \in Nat /\ Index > NUM /\ Index % NUM = 0
  /\ None \notin Procs \cup (0 .. NUM - 1) /\ {"intr", "intr_end"} \cap Procs = {}

VARIABLES
  free,       \* the descriptors with disk.free[d] set
  desc,       \* descriptor table: next in the chain and the buffer it points to
  avail, avail_idx,  \* available ring, written by the driver
  used, used_dev,    \* used ring and used->idx, written by the device
  used_idx,   \* disk.used_idx: how far the handler has looked
  info,       \* disk.info[head]: the buffer, and whether status is still 0xff
  busy,       \* b->disk
  lock,       \* holder of vdisk_lock: a process, the handler (in its loop or past it)
  pc, idx,    \* where a process is, and its idx[3]
  seen,       \* device: available entries it has fetched
  inflight,   \* device: heads of the chains it works on
  isr,        \* device: interrupt status
  moved       \* history: the device has done the transfer of this request

driver == <<free, desc, avail, avail_idx, used_idx, info, busy, lock, pc, idx>>
device == <<used, used_dev, seen, inflight, isr, moved>>
vars == <<driver, device>>

Desc == 0 .. NUM - 1
NoIdx == [k \in 1 .. 3 |-> 0]
NoDesc == [next |-> None, buf |-> None]
Waiting == {"lock", "free_sleep"}
Queued == {"publish", "buf_sleep"}

TypeOK ==
  /\ free \subseteq Desc /\ inflight \subseteq Desc
  /\ desc \in [Desc -> [next : Desc \cup {None}, buf : Procs \cup {None}]]
  /\ avail \in [Desc -> Desc \cup {None}] /\ used \in [Desc -> Desc \cup {None}]
  /\ {avail_idx, used_dev, used_idx, seen} \subseteq 0 .. Index - 1
  /\ info \in [Desc -> [b : Procs \cup {None}, ok : BOOLEAN]]
  /\ busy \in [Procs -> BOOLEAN] /\ moved \in [Procs -> BOOLEAN] /\ isr \in BOOLEAN
  /\ lock \in Procs \cup {None, "intr", "intr_end"}
  /\ pc \in [Procs -> {"user", "fill", "done"} \cup Waiting \cup Queued]
  /\ idx \in [Procs -> [1 .. 3 -> Desc]]

Init ==
  /\ free = Desc /\ desc = [d \in Desc |-> NoDesc]
  /\ avail = [s \in Desc |-> None] /\ avail_idx = 0
  /\ used = [s \in Desc |-> None] /\ used_dev = 0 /\ used_idx = 0
  /\ info = [d \in Desc |-> [b |-> None, ok |-> TRUE]]
  /\ busy = [p \in Procs |-> FALSE] /\ moved = [p \in Procs |-> FALSE]
  /\ lock = None /\ seen = 0 /\ inflight = {} /\ isr = FALSE
  /\ pc = [p \in Procs |-> "user"] /\ idx = [p \in Procs |-> NoIdx]

Goto(p, next) == pc' = [pc EXCEPT ![p] = next]

(* wakeup(&disk.free[0]), applied to the program counters f. *)
WakeFree(f) == [p \in Procs |-> IF f[p] = "free_sleep" THEN "lock" ELSE f[p]]

(* Mutant: one channel for all, and the flag is not looked at again. *)
BugWakeBuf(b) == [p \in Procs |-> IF pc[p] = "buf_sleep" THEN "done" ELSE pc[p]]

(* wakeup(b). *)
WakeBuf(b) == [p \in Procs |-> IF p = b /\ pc[p] = "buf_sleep" THEN "done" ELSE pc[p]]

(* The next value of a ring's idx. *)
Succ(k) == (k + 1) % Index
-----------------------------------------------------------------------------
(* virtio_disk_rw is called. *)
Rw(p) ==
  /\ pc[p] = "user"
  /\ Goto(p, "lock")
  /\ UNCHANGED <<free, desc, avail, avail_idx, used_idx, info, busy, lock, idx, device>>

(* alloc_desc takes the lowest free descriptor, three times. *)
Lowest3 == [k \in 1 .. 3 |-> CHOOSE d \in free : Cardinality({e \in free : e < d}) = k - 1]

alloc3_desc(p) ==
  /\ pc[p] = "lock" /\ lock = None
  /\ Cardinality(free) >= 3
  /\ idx' = [idx EXCEPT ![p] = Lowest3]
  /\ free' = free \ {Lowest3[k] : k \in 1 .. 3}
  /\ lock' = p
  /\ Goto(p, "fill")
  /\ UNCHANGED <<desc, avail, avail_idx, used_idx, info, busy, device>>

(* Too few: those it took are freed again, which wakes whoever sleeps for  *)
(* descriptors, and the caller goes to sleep itself.                       *)
AllocFails(p) ==
  /\ pc[p] = "lock" /\ lock = None
  /\ Cardinality(free) < 3
  /\ pc' = [(IF free = {} THEN pc ELSE WakeFree(pc)) EXCEPT ![p] = "free_sleep"]
  /\ UNCHANGED <<free, desc, avail, avail_idx, used_idx, info, busy, lock, idx, device>>

(* The chain is formatted and its head stored in the available ring. *)
Format(p) ==
  LET head == idx[p][1] IN
  /\ pc[p] = "fill"
  /\ desc' = [desc EXCEPT ![head] = [next |-> idx[p][2], buf |-> None],
                          ![idx[p][2]] = [next |-> idx[p][3], buf |-> p],
                          ![idx[p][3]] = NoDesc]
  /\ info' = [info EXCEPT ![head] = [b |-> p, ok |-> FALSE]]
  /\ busy' = [busy EXCEPT ![p] = TRUE]
  /\ avail' = [avail EXCEPT ![avail_idx % NUM] = head]
  /\ Goto(p, "publish")
  /\ UNCHANGED <<free, avail_idx, used_idx, lock, idx, device>>

(* avail->idx += 1 and the notification, after which p sleeps on b. *)
Publish(p) ==
  /\ pc[p] = "publish"
  /\ avail_idx' = Succ(avail_idx)
  /\ lock' = None
  /\ Goto(p, "buf_sleep")
  /\ UNCHANGED <<free, desc, avail, used_idx, info, busy, idx, device>>

(* Mutant: the head is freed but not the rest of its chain. *)
BugChain(d) == {d}

(* The chain that starts at d; free_chain walks it by desc[].next. *)
Chain(d) ==
  LET d2 == desc[d].next
  IN {d} \cup IF d2 = None THEN {} ELSE {d2} \cup ({desc[d2].next} \ {None})

Woken(p) == WakeFree(pc)

(* free_chain and return, once the handler has cleared b->disk. *)
free_chain(p) ==
  LET head == idx[p][1] IN
  /\ pc[p] = "done" /\ lock = None /\ ~busy[p]
  /\ info' = [info EXCEPT ![head].b = None]
  /\ free' = free \cup Chain(head)
  /\ desc' = [d \in Desc |-> IF d \in Chain(head) THEN NoDesc ELSE desc[d]]
  /\ pc' = [Woken(p) EXCEPT ![p] = "user"]
  /\ idx' = [idx EXCEPT ![p] = NoIdx] /\ moved' = [moved EXCEPT ![p] = FALSE]
  /\ UNCHANGED <<avail, avail_idx, used_idx, busy, lock, used, used_dev, seen, inflight, isr>>
-----------------------------------------------------------------------------
(* The device.  It fetches heads in order and completes them in any order. *)
Fetch ==
  /\ seen # avail_idx
  /\ inflight' = inflight \cup {avail[seen % NUM]}
  /\ avail' = [avail EXCEPT ![seen % NUM] = None]
  /\ seen' = Succ(seen)
  /\ UNCHANGED <<free, desc, avail_idx, used_idx, info, busy, lock, pc, idx, used, used_dev, isr, moved>>

Complete(h) ==
  LET b == desc[desc[h].next].buf IN
  /\ h \in inflight
  /\ inflight' = inflight \ {h}
  /\ moved' = [moved EXCEPT ![b] = TRUE]
  /\ info' = [info EXCEPT ![h].ok = TRUE]
  /\ used' = [used EXCEPT ![used_dev % NUM] = h]
  /\ used_dev' = Succ(used_dev)
  /\ isr' = TRUE
  /\ UNCHANGED <<free, desc, avail, avail_idx, used_idx, busy, lock, pc, idx, seen>>
-----------------------------------------------------------------------------
(* Mutant: the interrupt is acknowledged when the loop is over. *)
BugAckFirst == FALSE

AckFirst == TRUE

(* virtio_disk_intr: the interrupt is acknowledged before the loop. *)
Ack ==
  /\ isr /\ lock = None
  /\ lock' = "intr"
  /\ isr' = ~AckFirst
  /\ UNCHANGED <<free, desc, avail, avail_idx, used_idx, info, busy, pc, idx, used, used_dev, seen, inflight, moved>>

(* Mutant: the handler reads the newest entry, not the oldest. *)
BugUsedId == used[(used_dev + Index - 1) % NUM]

UsedId == used[used_idx % NUM]

(* One iteration of the loop over the used ring. *)
Handle ==
  /\ lock = "intr" /\ used_idx # used_dev
  /\ info[UsedId].b # None
  /\ busy' = [busy EXCEPT ![info[UsedId].b] = FALSE]
  /\ pc' = WakeBuf(info[UsedId].b)
  /\ used' = [used EXCEPT ![used_idx % NUM] = None]
  /\ used_idx' = Succ(used_idx)
  /\ UNCHANGED <<free, desc, avail, avail_idx, info, lock, idx, used_dev, seen, inflight, isr, moved>>

(* The loop ends; what the device adds now is left for the next interrupt. *)
LoopEnd ==
  /\ lock = "intr" /\ used_idx = used_dev
  /\ lock' = "intr_end"
  /\ UNCHANGED <<free, desc, avail, avail_idx, used_idx, info, busy, pc, idx, device>>

HandlerEnd ==
  /\ lock = "intr_end"
  /\ lock' = None
  /\ isr' = (AckFirst /\ isr)
  /\ UNCHANGED <<free, desc, avail, avail_idx, used_idx, info, busy, pc, idx, used, used_dev, seen, inflight, moved>>

(* A process that is doing something else. *)
Compute(p) == pc[p] = "user" /\ UNCHANGED vars

Step(p) == alloc3_desc(p) \/ AllocFails(p) \/ Format(p) \/ Publish(p) \/ free_chain(p)
Intr == Ack \/ Handle \/ LoopEnd \/ HandlerEnd

Next ==
  \/ \E p \in Procs : Rw(p) \/ Step(p) \/ Compute(p)
  \/ Fetch \/ (\E h \in Desc : Complete(h))
  \/ Intr

Spec == Init /\ [][Next]_vars

(* The device serves every request and the handler's CPU runs.  vdisk_lock *)
(* is often free, and a process that tries again and again gets it.        *)
Fairness ==
  /\ \A p \in Procs : SF_vars(Step(p))
  /\ WF_vars(Fetch) /\ \A p \in Procs : WF_vars(\E h \in Desc : info[h].b = p /\ Complete(h))
  /\ SF_vars(Ack) /\ WF_vars(Handle \/ LoopEnd \/ HandlerEnd)

LiveSpec == Spec /\ Fairness
-----------------------------------------------------------------------------
Span(from, to) == {k \in 0 .. Index - 1 : (k + Index - from) % Index < (to + Index - from) % Index}

(* The chains between alloc3_desc and free_chain (virtio_disk.c:225-290)   *)
(* never share a descriptor, and with the free ones they are all there     *)
(* are: none is used twice and none is lost, not even when alloc3_desc     *)
(* gives up half-way.                                                      *)
ChainsApart ==
  LET owners == {p \in Procs : pc[p] \in {"fill", "done"} \cup Queued}
      mine(p) == {idx[p][k] : k \in 1 .. 3}
  IN /\ Cardinality(free) + 3 * Cardinality(owners) = NUM
     /\ free \cup UNION {mine(p) : p \in owners} = Desc

(* Whatever the device has been given and the handler has not seen yet, in *)
(* whichever of the two rings or in the device, is the chain of a request  *)
(* that still waits; what is on the used ring has been served.  So the     *)
(* handler's panic on info[id].status and its null b are never met.        *)
DeviceHasLiveChains ==
  LET queued == {avail[k % NUM] : k \in Span(seen, avail_idx)}
      served == {used[k % NUM] : k \in Span(used_idx, used_dev)}
  IN /\ \A h \in queued \cup inflight \cup served :
          \E p \in Procs : /\ pc[p] \in Queued /\ busy[p]
                           /\ idx[p][1] = h /\ info[h].b = p
                           /\ Chain(h) = {idx[p][k] : k \in 1 .. 3}
     /\ \A h \in served : info[h].ok

(* A request returns only after the device did that request's transfer,    *)
(* in whatever order requests complete (virtio_disk.c:283-286).            *)
ReturnsAfterTransfer == \A p \in Procs : pc[p] = "done" => moved[p] /\ ~busy[p]

(* A request that was queued returns, and a process that sleeps because    *)
(* descriptors ran out is woken, however often it finds too few again.     *)
RequestsReturn ==
  \A p \in Procs : /\ pc[p] = "buf_sleep" ~> pc[p] = "user"
                   /\ pc[p] = "free_sleep" ~> pc[p] # "free_sleep"
=============================================================================
