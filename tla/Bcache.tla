------------------------------- MODULE Bcache -------------------------------
(***************************************************************************)
(* kernel/bio.c, the buffer cache, with the sleep-lock of each buffer      *)
(* (kernel/sleeplock.c): finding and recycling buffers in LRU order,       *)
(* reference counts, pins, and reading and writing through the disk.       *)
(*                                                                         *)
(* Grain.  A section under bcache.lock or under a sleep-lock's own         *)
(* spin-lock is one step; a disk request starts in one step and ends in    *)
(* another.                                                                *)
(*                                                                         *)
(* Callers.  They change a buffer only to bwrite() it or to log_write()    *)
(* it, which pins it until commit has written it home.  A caller has one   *)
(* buffer, or two: bmap and itrunc keep an indirect block while balloc and *)
(* bfree read others, commit and recovery keep a block of the log while    *)
(* they read the one it is a copy of.  A block of the disk has one use     *)
(* here: an indirect block is given up before it is freed.                 *)
(***************************************************************************)
EXTENDS Naturals, FiniteSets

CONSTANTS
  Procs,    \* processes
  Blocks,   \* disk blocks
  LogBlocks, Indirect,  \* those of the log, and the indirect ones
  Vals,     \* contents of a block
  NBUF,     \* number of buffers
  MaxPins,  \* number of blocks the log may hold
  None

ASSUME ConstAssumption ==
  /\ NBUF \in Nat \ {0} /\ MaxPins \in Nat /\ IsFiniteSet(Procs)
  /\ LogBlocks \subseteq Blocks /\ Indirect \subseteq Blocks \ LogBlocks
  /\ None \notin (Procs \X {1, 2}) \cup Blocks \cup Vals \cup 1 .. NBUF

Bufs == 1 .. NBUF

(* The struct buf pointers of the callers: <<p, 1>> is the buffer that p   *)
(* asks for first, <<p, 2>> the one it asks for while it has that.         *)
Refs == Procs \X {1, 2}
Other(r) == <<r[1], 3 - r[2]>>

VARIABLES
  list,      \* bcache.head.next ... bcache.head.prev
  blockno, valid, refcnt, data,  \* struct buf
  locked,    \* holder of b->lock (the pointer it has to b), or None
  disk,      \* contents of the disk
  pinned,    \* blocks in log.lh
  pc,        \* how far the caller is with the buffer
  want,      \* the block it asks for
  buf,       \* the buffer bget has found
  latest     \* history: what was last written to each block

vars == <<list, blockno, valid, refcnt, data, locked, disk, pinned, pc, want, buf, latest>>

PCs == {"idle", "bget", "acquiresleep", "asleep", "bread", "reading", "have",
        "writing", "written", "brelse", "panic"}

TypeOK ==
  /\ list \in [Bufs -> Bufs]
  /\ blockno \in [Bufs -> Blocks \cup {None}]
  /\ valid \in [Bufs -> BOOLEAN]
  /\ refcnt \in [Bufs -> 0 .. Cardinality(Refs) + 1]
  /\ data \in [Bufs -> Vals \cup {None}]
  /\ locked \in [Bufs -> Refs \cup {None}]
  /\ disk \in [Blocks -> Vals] /\ latest \in [Blocks -> Vals]
  /\ pinned \subseteq Blocks /\ Cardinality(pinned) <= MaxPins
  /\ pc \in [Refs -> PCs]
  /\ want \in [Refs -> Blocks \cup {None}]
  /\ buf \in [Refs -> Bufs \cup {None}]

(* After binit. *)
Init ==
  /\ list = [k \in Bufs |-> NBUF + 1 - k]
  /\ blockno = [b \in Bufs |-> None]
  /\ valid = [b \in Bufs |-> FALSE]
  /\ refcnt = [b \in Bufs |-> 0]
  /\ data = [b \in Bufs |-> None]
  /\ locked = [b \in Bufs |-> None]
  /\ disk \in {[x \in Blocks |-> v] : v \in Vals}
  /\ latest = disk
  /\ pinned = {}
  /\ pc = [r \in Refs |-> "idle"]
  /\ want = [r \in Refs |-> None]
  /\ buf = [r \in Refs |-> None]

Panicked == \E r \in Refs : pc[r] = "panic"

(* The caller is here with one buffer, and not inside bread, bwrite or     *)
(* brelse with the other.                                                  *)
At(r, here) == pc[r] = here /\ pc[Other(r)] \in {"idle", "have"} /\ ~Panicked
Goto(r, next) == pc' = [pc EXCEPT ![r] = next]

(* Mutant: balloc and bfree keep a bitmap block while an indirect one is   *)
(* read.                                                                   *)
BugInner(x, y) == x # y

(* Whether y is read by a caller that has x. *)
Inner(x, y) ==
  \/ x \in LogBlocks /\ y \notin LogBlocks
  \/ x \in Indirect /\ y \notin LogBlocks \cup Indirect

Bread(r, x) ==
  /\ At(r, "idle")
  /\ IF r[2] = 1 THEN pc[Other(r)] = "idle"
     ELSE pc[Other(r)] = "have" /\ Inner(want[Other(r)], x)
  /\ want' = [want EXCEPT ![r] = x]
  /\ Goto(r, "bget")
  /\ UNCHANGED <<list, blockno, valid, refcnt, data, locked, disk, pinned, buf, latest>>

Cached(x) == {b \in Bufs : blockno[b] = x}

(* Is the block already cached? *)
BgetHit(r) ==
  /\ At(r, "bget")
  /\ \E b \in Cached(want[r]) :
       /\ refcnt' = [refcnt EXCEPT ![b] = @ + 1]
       /\ buf' = [buf EXCEPT ![r] = b]
  /\ Goto(r, "acquiresleep")
  /\ UNCHANGED <<list, blockno, valid, data, locked, disk, pinned, want, latest>>

(* Mutant: a buffer that nobody has locked is recycled. *)
BugFree(b) == locked[b] = None

Free(b) == refcnt[b] = 0

(* Mutant: b->valid is left as it was. *)
BugRecycle(b, x) ==
  /\ blockno' = [blockno EXCEPT ![b] = x]
  /\ refcnt' = [refcnt EXCEPT ![b] = 1]
  /\ UNCHANGED valid

Recycle(b, x) ==
  /\ blockno' = [blockno EXCEPT ![b] = x]
  /\ valid' = [valid EXCEPT ![b] = FALSE]
  /\ refcnt' = [refcnt EXCEPT ![b] = 1]

(* Not cached: recycle the least recently used unused buffer. *)
BgetMiss(r) ==
  /\ At(r, "bget")
  /\ Cached(want[r]) = {}
  /\ \E k \in Bufs :
       /\ Free(list[k])
       /\ \A j \in k + 1 .. NBUF : ~Free(list[j])
       /\ Recycle(list[k], want[r])
       /\ buf' = [buf EXCEPT ![r] = list[k]]
  /\ Goto(r, "acquiresleep")
  /\ UNCHANGED <<list, data, locked, disk, pinned, want, latest>>

(* panic("bget: no buffers"), with bcache.lock held: the machine stops. *)
BgetPanic(r) ==
  /\ At(r, "bget")
  /\ Cached(want[r]) = {}
  /\ \A k \in Bufs : ~Free(list[k])
  /\ Goto(r, "panic")
  /\ UNCHANGED <<list, blockno, valid, refcnt, data, locked, disk, pinned, want, buf, latest>>
-----------------------------------------------------------------------------
(* acquiresleep(&b->lock): take it, or sleep until it is released. *)
Acquiresleep(r) ==
  /\ At(r, "acquiresleep")
  /\ \/ /\ locked[buf[r]] = None
        /\ locked' = [locked EXCEPT ![buf[r]] = r]
        /\ Goto(r, "bread")
     \/ /\ locked[buf[r]] # None
        /\ Goto(r, "asleep")
        /\ UNCHANGED locked
  /\ UNCHANGED <<list, blockno, valid, refcnt, data, disk, pinned, want, buf, latest>>

(* if(!b->valid) virtio_disk_rw(b, 0). *)
BreadValid(r) ==
  /\ At(r, "bread")
  /\ Goto(r, IF valid[buf[r]] THEN "have" ELSE "reading")
  /\ UNCHANGED <<list, blockno, valid, refcnt, data, locked, disk, pinned, want, buf, latest>>

(* The disk is done: b->valid = 1. *)
ReadDone(r) ==
  /\ At(r, "reading")
  /\ data' = [data EXCEPT ![buf[r]] = disk[blockno[buf[r]]]]
  /\ valid' = [valid EXCEPT ![buf[r]] = TRUE]
  /\ Goto(r, "have")
  /\ UNCHANGED <<list, blockno, refcnt, locked, disk, pinned, want, buf, latest>>

(* The caller changes a block that is not in the log and calls bwrite(). *)
Bwrite(r, v) ==
  /\ At(r, "have") /\ want[r] \notin pinned
  /\ data' = [data EXCEPT ![buf[r]] = v]
  /\ latest' = [latest EXCEPT ![want[r]] = v]
  /\ Goto(r, "writing")
  /\ UNCHANGED <<list, blockno, valid, refcnt, locked, disk, pinned, want, buf>>

(* install_trans: commit, with the log's copy in its other buffer, writes  *)
(* a block home.  (The copy has what the buffer has: module Log.)          *)
Install(r) ==
  /\ At(r, "have") /\ want[r] \in pinned
  /\ r[2] = 2 /\ want[Other(r)] \in LogBlocks
  /\ Goto(r, "writing")
  /\ UNCHANGED <<list, blockno, valid, refcnt, data, locked, disk, pinned, want, buf, latest>>

WriteDone(r) ==
  /\ At(r, "writing")
  /\ disk' = [disk EXCEPT ![blockno[buf[r]]] = data[buf[r]]]
  /\ Goto(r, IF want[r] \in pinned THEN "written" ELSE "have")
  /\ UNCHANGED <<list, blockno, valid, refcnt, data, locked, pinned, want, buf, latest>>

(* bunpin(), after bwrite() in install_trans. *)
Bunpin(r) ==
  /\ At(r, "written")
  /\ refcnt' = [refcnt EXCEPT ![buf[r]] = @ - 1]
  /\ pinned' = pinned \ {want[r]}
  /\ Goto(r, "have")
  /\ UNCHANGED <<list, blockno, valid, data, locked, disk, want, buf, latest>>

(* log_write(): bpin() for a block that is not in the log yet. *)
Bpin(b, x) == refcnt' = IF x \in pinned THEN refcnt ELSE [refcnt EXCEPT ![b] = @ + 1]

(* The caller changes the block and calls log_write(). *)
LogWrite(r, v) ==
  /\ At(r, "have") /\ want[r] \notin LogBlocks
  /\ Cardinality(pinned \cup {want[r]}) <= MaxPins
  /\ data' = [data EXCEPT ![buf[r]] = v]
  /\ latest' = [latest EXCEPT ![want[r]] = v]
  /\ Bpin(buf[r], want[r])
  /\ pinned' = pinned \cup {want[r]}
  /\ UNCHANGED <<list, blockno, valid, locked, disk, pc, want, buf>>
-----------------------------------------------------------------------------
(* wakeup(lk). *)
Woken(b) ==
  [r \in Refs |-> IF pc[r] = "asleep" /\ buf[r] = b THEN "acquiresleep" ELSE pc[r]]

(* brelse(): releasesleep(&b->lock), *)
Releasesleep(r) ==
  /\ At(r, "have")
  /\ locked' = [locked EXCEPT ![buf[r]] = None]
  /\ pc' = [Woken(buf[r]) EXCEPT ![r] = "brelse"]
  /\ UNCHANGED <<list, blockno, valid, refcnt, data, disk, pinned, want, buf, latest>>

(* The list with b moved behind bcache.head. *)
ToFront(b) ==
  LET j == CHOOSE j \in Bufs : list[j] = b
  IN [k \in Bufs |-> IF k = 1 THEN b ELSE IF k <= j THEN list[k - 1] ELSE list[k]]

(* then, under bcache.lock, refcnt-- and the move to the front. *)
Brelse(r) ==
  /\ At(r, "brelse")
  /\ refcnt' = [refcnt EXCEPT ![buf[r]] = @ - 1]
  /\ list' = IF refcnt[buf[r]] = 1 THEN ToFront(buf[r]) ELSE list
  /\ want' = [want EXCEPT ![r] = None] /\ buf' = [buf EXCEPT ![r] = None]
  /\ Goto(r, "idle")
  /\ UNCHANGED <<blockno, valid, data, locked, disk, pinned, latest>>

Next ==
  \/ \E r \in Refs :
       \/ \E x \in Blocks : Bread(r, x)
       \/ BgetHit(r) \/ BgetMiss(r) \/ BgetPanic(r)
       \/ Acquiresleep(r) \/ BreadValid(r) \/ ReadDone(r)
       \/ \E v \in Vals : Bwrite(r, v) \/ LogWrite(r, v)
       \/ Install(r) \/ WriteDone(r) \/ Bunpin(r)
       \/ Releasesleep(r) \/ Brelse(r)
  \/ Panicked /\ UNCHANGED vars

Spec == Init /\ [][Next]_vars
-----------------------------------------------------------------------------
(* A caller that waits for a buffer or has it gets the block it asked for, *)
(* also while it waits for another one: a reference keeps bget from        *)
(* recycling the buffer under it.                                          *)
BufferStays == \A r \in Refs : buf[r] # None => blockno[buf[r]] = want[r]

(* bread() returns what was last written to the block, whether that is on  *)
(* the disk, in a buffer or only in a pinned one, and the buffer keeps it  *)
(* while the caller reads a second block.  (valid, bpin)                   *)
ReadsLatest ==
  \A r \in Refs : pc[r] = "have" => data[buf[r]] = latest[want[r]]

(* p sleeps for a buffer that nobody has, or one that a process of S has. *)
WaitsFor(p, S) ==
  \E k \in {1, 2} : LET r == <<p, k>> IN
    pc[r] = "asleep" /\ (locked[buf[r]] # None => locked[buf[r]][1] \in S)

(* No processes sleep for each other's buffers, none for its own, and none *)
(* for one that is free: whoever has the buffer still runs, or waits for   *)
(* one who does.  A caller with a buffer in its hands asks only for blocks *)
(* further on, from the log to indirect blocks to the rest (fs.c:407, 440, *)
(* log.c:74, 184), and releasesleep wakes all who wait.                    *)
NobodyStuck ==
  \A S \in SUBSET Procs : S # {} => \E p \in S : ~WaitsFor(p, S)

(* bget panics only when every buffer is in use, by a caller or for the    *)
(* log: no reference is left behind by brelse, bpin and bunpin.            *)
PanicsOnlyWhenFull ==
  Panicked => \A b \in Bufs : blockno[b] \in pinned \/ \E r \in Refs : buf[r] = b
=============================================================================
