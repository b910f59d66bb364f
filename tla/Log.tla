-------------------------------- MODULE Log --------------------------------
(***************************************************************************)
(* The write-ahead log of kernel/log.c: begin_op/end_op, log_write, the    *)
(* commit sequence and recovery, over a buffer cache that may recycle any  *)
(* unpinned buffer and a disk that may lose power at any point.            *)
(*                                                                         *)
(* Grain.  A section of code under log.lock is one step; every disk write  *)
(* (one log block, the header, one home block) is a step of its own.  A    *)
(* caller's bread / modify / log_write / brelse of one block is one step:  *)
(* the buffer's sleep-lock is held throughout.  The log area goes through  *)
(* the cache as well, but always write-through, so it is kept as the disk. *)
(***************************************************************************)
EXTENDS Naturals, Sequences, FiniteSets

CONSTANTS
  Procs,        \* processes that make file system calls
  Blocks,       \* home blocks
  Vals,         \* block contents
  Torn,         \* contents of a block whose write a crash interrupted
  None,         \* cache entry of a block no buffer holds
  MAXOPBLOCKS,  \* param.h: what begin_op reserves for one call
  OpBlocks,     \* distinct blocks a call really logs, at most
  LOGSIZE,      \* param.h: capacity begin_op and log_write assume
  size          \* superblock nlog: blocks of the log area, header included

ASSUME ConstAssumption ==
  /\ IsFiniteSet(Procs)
  /\ MAXOPBLOCKS \in Nat \ {0}
  /\ OpBlocks \in 1 .. MAXOPBLOCKS
  /\ LOGSIZE \in Nat
  /\ size \in Nat \ {0}
  /\ MAXOPBLOCKS <= LOGSIZE
  /\ Torn \notin Vals
  /\ None \notin Vals \cup {Torn}

VARIABLES
  home,         \* disk: contents of the home blocks
  logdisk,      \* disk: contents of log blocks start+1 .. start+size-1
  header,       \* disk: the header block, block[0..n-1]
  cache,        \* buffer cache: contents held in memory
  pin,          \* references the log holds on a buffer (bpin/bunpin)
  lh,           \* log.lh, block[0..n-1]
  outstanding,  \* log.outstanding
  committing,   \* log.committing
  op,           \* where each process is in begin_op .. end_op
  wrote,        \* blocks each process has logged in its current call
  pc,           \* the control point of commit() or of recovery
  tail          \* the loop counter of write_log and install_trans

disk == <<home, logdisk, header>>
buffers == <<cache, pin>>
calls == <<outstanding, committing, op, wrote>>
vars == <<home, logdisk, header, cache, pin, lh, outstanding, committing, op,
          wrote, pc, tail>>

Slots == 1 .. size - 1
Contents == Vals \cup {Torn}
OpStates == {"idle", "trying", "asleep", "in", "commit"}
PCs == {"read_head", "recover", "up", "write_log", "install_trans", "done",
        "panic"}

Booting == pc \in {"read_head", "recover"}
Logged(b) == \E i \in 1 .. Len(lh) : lh[i] = b

(* bread(): the buffer if the block is cached, else the disk. *)
Contents_of(b) == IF cache[b] = None THEN home[b] ELSE cache[b]

TypeOK ==
  /\ home \in [Blocks -> Contents]
  /\ logdisk \in [Slots -> Contents]
  /\ header \in Seq(Blocks)
  /\ cache \in [Blocks -> Contents \cup {None}]
  /\ pin \in [Blocks -> Nat]
  /\ lh \in Seq(Blocks)
  /\ outstanding \in Nat
  /\ committing \in BOOLEAN
  /\ op \in [Procs -> OpStates]
  /\ wrote \in [Procs -> SUBSET Blocks]
  /\ pc \in PCs
  /\ tail \in Nat
-----------------------------------------------------------------------------
(* mkfs leaves an empty header; the first boot runs recovery like any other. *)
Init ==
  /\ home \in [Blocks -> Vals]
  /\ logdisk \in [Slots -> {Torn}]
  /\ header = <<>>
  /\ cache = [b \in Blocks |-> None]
  /\ pin = [b \in Blocks |-> 0]
  /\ lh = <<>>
  /\ outstanding = 0
  /\ committing = FALSE
  /\ op = [p \in Procs |-> "idle"]
  /\ wrote = [p \in Procs |-> {}]
  /\ pc = "read_head"
  /\ tail = 0

(* Mutant: wakeup finds no sleeper. *)
BugWakeup(f) == f

(* wakeup(&log) *)
Wakeup(f) == [p \in Procs |-> IF f[p] = "asleep" THEN "trying" ELSE f[p]]

Panic ==
  /\ pc' = "panic"
  /\ UNCHANGED <<disk, buffers, lh, calls, tail>>

(* A process enters begin_op(). *)
EnterOp(p) ==
  /\ pc \notin {"read_head", "recover", "panic"}
  /\ op[p] = "idle"
  /\ op' = [op EXCEPT ![p] = "trying"]
  /\ UNCHANGED <<disk, buffers, lh, outstanding, committing, wrote, pc, tail>>

(* Mutant: begin_op reserves no log space. *)
BugMustWait == committing

(* begin_op's two reasons to sleep. *)
MustWait == committing \/ Len(lh) + (outstanding + 1) * MAXOPBLOCKS > LOGSIZE

(* One iteration of begin_op's loop. *)
BeginOp(p) ==
  /\ pc # "panic"
  /\ op[p] = "trying"
  /\ \/ /\ MustWait
        /\ op' = [op EXCEPT ![p] = "asleep"]
        /\ UNCHANGED <<outstanding, wrote>>
     \/ /\ ~MustWait
        /\ op' = [op EXCEPT ![p] = "in"]
        /\ outstanding' = outstanding + 1
        /\ wrote' = [wrote EXCEPT ![p] = {}]
  /\ UNCHANGED <<disk, buffers, lh, committing, pc, tail>>

(* kill() makes a sleeping process runnable; begin_op's loop tests again. *)
Kill(p) ==
  /\ pc # "panic"
  /\ op[p] = "asleep"
  /\ op' = [op EXCEPT ![p] = "trying"]
  /\ UNCHANGED <<disk, buffers, lh, outstanding, committing, wrote, pc, tail>>

Bpin(b) == pin' = [pin EXCEPT ![b] = @ + 1]

Bunpin(b) == pin' = [pin EXCEPT ![b] = @ - 1]

LogFull == Len(lh) >= LOGSIZE \/ Len(lh) >= size - 1

(* A caller changes block b to v and logs it.  That a call logs at most    *)
(* OpBlocks distinct blocks is the callers' duty, not checked here.        *)
LogWrite(p, b, v) ==
  /\ pc # "panic"
  /\ op[p] = "in"
  /\ Cardinality(wrote[p] \cup {b}) <= OpBlocks
  /\ \/ /\ LogFull \/ outstanding < 1
        /\ Panic
     \/ /\ ~LogFull /\ outstanding >= 1
        /\ cache' = [cache EXCEPT ![b] = v]
        /\ wrote' = [wrote EXCEPT ![p] = @ \cup {b}]
        /\ \/ /\ Logged(b)
              /\ UNCHANGED <<lh, pin>>
           \/ /\ ~Logged(b)
              /\ lh' = Append(lh, b)
              /\ Bpin(b)
        /\ UNCHANGED <<disk, outstanding, committing, op, pc, tail>>

(* Mutant: commit() finds nothing to do. *)
BugCommitStart == "done"

(* commit() has work only if something was logged. *)
CommitStart == IF lh = <<>> THEN "done" ELSE "write_log"

(* end_op() up to the release of log.lock: the last call out commits.      *)
(* NoPanic covers the panic on log.committing.                             *)
EndOp(p) ==
  /\ pc # "panic"
  /\ op[p] = "in"
  /\ ~committing
  /\ outstanding' = outstanding - 1
  /\ \/ /\ outstanding' = 0
        /\ committing' = TRUE
        /\ op' = [op EXCEPT ![p] = "commit"]
        /\ pc' = CommitStart
     \/ /\ outstanding' # 0
        /\ op' = Wakeup([op EXCEPT ![p] = "idle"])
        /\ UNCHANGED <<committing, pc>>
  /\ UNCHANGED <<disk, buffers, lh, wrote, tail>>

(* One iteration of write_log. *)
WriteLogBlock ==
  /\ pc = "write_log"
  /\ tail < Len(lh)
  /\ LET b == lh[tail + 1] IN
       /\ logdisk' = [logdisk EXCEPT ![tail + 1] = Contents_of(b)]
       /\ cache' = [cache EXCEPT ![b] = Contents_of(b)]
  /\ tail' = tail + 1
  /\ UNCHANGED <<home, header, pin, lh, calls, pc>>

(* Mutant: the header may be written before the log blocks. *)
BugWriteHead ==
  /\ pc = "write_log"
  /\ header' = lh
  /\ pc' = "install_trans"
  /\ tail' = 0
  /\ UNCHANGED <<home, logdisk, buffers, lh, calls>>

(* write_head: the commit point. *)
WriteHead ==
  /\ pc = "write_log"
  /\ tail = Len(lh)
  /\ header' = lh
  /\ pc' = "install_trans"
  /\ tail' = 0
  /\ UNCHANGED <<home, logdisk, buffers, lh, calls>>

(* Mutant: the home block is updated on disk only, not in the cache. *)
BugCopyHome ==
  /\ home' = [home EXCEPT ![lh[tail + 1]] = logdisk[tail + 1]]
  /\ UNCHANGED cache

(* Copy one committed block from the log to its home, through the cache. *)
CopyHome ==
  LET b == lh[tail + 1] IN
    /\ cache' = [cache EXCEPT ![b] = logdisk[tail + 1]]
    /\ home' = [home EXCEPT ![b] = logdisk[tail + 1]]

(* One iteration of install_trans(0). *)
InstallBlock ==
  /\ pc = "install_trans"
  /\ tail < Len(lh)
  /\ CopyHome
  /\ Bunpin(lh[tail + 1])
  /\ tail' = tail + 1
  /\ UNCHANGED <<logdisk, header, lh, calls, pc>>

(* log.lh.n = 0; write_head(): erase the transaction. *)
ClearLog ==
  /\ pc = "install_trans"
  /\ tail = Len(lh)
  /\ lh' = <<>>
  /\ header' = <<>>
  /\ pc' = "done"
  /\ tail' = 0
  /\ UNCHANGED <<home, logdisk, buffers, calls>>

(* The tail of end_op() after commit() returns. *)
FinishCommit(p) ==
  /\ pc = "done"
  /\ op[p] = "commit"
  /\ committing' = FALSE
  /\ op' = Wakeup([op EXCEPT ![p] = "idle"])
  /\ pc' = "up"
  /\ UNCHANGED <<disk, buffers, lh, outstanding, wrote, tail>>
-----------------------------------------------------------------------------
(* initlog -> recover_from_log -> read_head *)
ReadHead ==
  /\ pc = "read_head"
  /\ lh' = header
  /\ pc' = "recover"
  /\ tail' = 0
  /\ UNCHANGED <<disk, buffers, calls>>

(* One iteration of install_trans(1): nothing is pinned, so no bunpin. *)
RecoverBlock ==
  /\ pc = "recover"
  /\ tail < Len(lh)
  /\ CopyHome
  /\ tail' = tail + 1
  /\ UNCHANGED <<logdisk, header, pin, lh, calls, pc>>

(* recover_from_log: log.lh.n = 0; write_head(). *)
RecoverClear ==
  /\ pc = "recover"
  /\ tail = Len(lh)
  /\ lh' = <<>>
  /\ header' = <<>>
  /\ pc' = "up"
  /\ tail' = 0
  /\ UNCHANGED <<home, logdisk, buffers, calls>>

(* A reader outside any call (fileread) brings a block into the cache. *)
Bread(b) ==
  /\ ~Booting /\ pc # "panic"
  /\ cache[b] = None
  /\ cache' = [cache EXCEPT ![b] = home[b]]
  /\ UNCHANGED <<disk, pin, lh, calls, pc, tail>>

(* bget() recycles the buffer of a block nobody references. *)
Recycle(b) ==
  /\ ~Booting /\ pc # "panic"
  /\ cache[b] # None
  /\ pin[b] = 0
  /\ cache' = [cache EXCEPT ![b] = None]
  /\ UNCHANGED <<disk, pin, lh, calls, pc, tail>>

(* Power loss.  The write in progress may leave its block torn; the header *)
(* lies within one sector and is written whole or not at all.  Then boot.  *)
Crash ==
  /\ \/ UNCHANGED <<home, logdisk>>
     \/ /\ pc = "write_log" /\ tail < Len(lh)
        /\ logdisk' = [logdisk EXCEPT ![tail + 1] = Torn]
        /\ UNCHANGED home
     \/ /\ pc \in {"install_trans", "recover"} /\ tail < Len(lh)
        /\ home' = [home EXCEPT ![lh[tail + 1]] = Torn]
        /\ UNCHANGED logdisk
  /\ cache' = [b \in Blocks |-> None]
  /\ pin' = [b \in Blocks |-> 0]
  /\ lh' = <<>>
  /\ outstanding' = 0
  /\ committing' = FALSE
  /\ op' = [p \in Procs |-> "idle"]
  /\ wrote' = [p \in Procs |-> {}]
  /\ pc' = "read_head"
  /\ tail' = 0
  /\ UNCHANGED header

CommitStep ==
  WriteLogBlock \/ WriteHead \/ InstallBlock \/ ClearLog

RecoveryStep == ReadHead \/ RecoverBlock \/ RecoverClear

Next ==
  \/ \E p \in Procs : EnterOp(p) \/ BeginOp(p) \/ Kill(p) \/ EndOp(p)
                      \/ FinishCommit(p)
  \/ \E p \in Procs, b \in Blocks, v \in Vals : LogWrite(p, b, v)
  \/ CommitStep
  \/ RecoveryStep
  \/ \E b \in Blocks : Bread(b) \/ Recycle(b)
  \/ Crash

Spec == Init /\ [][Next]_vars

(* The scheduler runs every runnable process again and again, so a call    *)
(* that has begun ends, and commit and recovery, which wait for nothing    *)
(* but the disk, go on to their end.  No fairness on Crash, Kill, readers  *)
(* or on entering a call.                                                  *)
Fairness ==
  /\ \A p \in Procs : WF_vars(BeginOp(p)) /\ WF_vars(EndOp(p))
                      /\ WF_vars(FinishCommit(p))
  /\ WF_vars(CommitStep)
  /\ WF_vars(RecoveryStep)

LiveSpec == Spec /\ Fairness
-----------------------------------------------------------------------------
(* The disk as recovery would leave it if the power failed now. *)
Durable ==
  [b \in Blocks |->
     IF \E i \in 1 .. Len(header) : header[i] = b
       THEN logdisk[CHOOSE i \in 1 .. Len(header) : header[i] = b]
       ELSE home[b]]

(* What the file system reads. *)
Latest == IF Booting THEN Durable ELSE [b \in Blocks |-> Contents_of(b)]

Active == {p \in Procs : op[p] = "in"}

Abs == INSTANCE CrashSafeDisk
         WITH durable <- Durable, latest <- Latest, active <- Active

(* Whatever the interleaving of calls, commits, buffer recycling and power *)
(* failures (recovery's own included), the log behaves as a disk on which  *)
(* whole groups of finished calls become durable in one step, and a crash  *)
(* falls back to the last such step.  (commit, recover_from_log)           *)
CrashSafe == Abs!Spec

(* The same, and once no call is in progress everything written becomes    *)
(* durable.  (end_op's last caller runs commit)                            *)
CommitsEventually == Abs!FairSpec

(* A block that differs from its home copy on disk is held in the cache by *)
(* a log reference, so that bget cannot recycle its only copy.             *)
(* (bpin in log_write, bunpin in install_trans)                            *)
DirtyIsPinned ==
  \A b \in Blocks :
    ~Booting /\ cache[b] # None /\ cache[b] # home[b] => pin[b] > 0

(* A process asleep in begin_op can count on a later wakeup(&log): a call  *)
(* is in progress, whose end_op wakes, or a commit, whose end wakes.       *)
SleeperHasWaker ==
  (\E p \in Procs : op[p] = "asleep") => committing \/ outstanding > 0

(* begin_op's reservation is enough for calls that log at most             *)
(* OpBlocks blocks: log_write never panics, and neither does end_op, as no *)
(* call is in progress during a commit.  (log.c:133, log.c:153, log.c:220) *)
NoPanic == pc # "panic" /\ (committing => Active = {})

-----------------------------------------------------------------------------
(* The parts of the inductive invariant from which the above follow.       *)

InLog(s, b) == \E i \in 1 .. Len(s) : s[i] = b

(* Absorption: a block occurs once in a header, and fits the log area. *)
HeaderOK(s) ==
  /\ Len(s) <= size - 1
  /\ \A i, j \in 1 .. Len(s) : s[i] = s[j] => i = j

(* Who may be where: no call is in progress while a commit runs, and no    *)
(* process has begun anything while recovery runs.                         *)
ControlInv ==
  /\ outstanding = Cardinality(Active)
  /\ committing <=> pc \in {"write_log", "install_trans", "done"}
  /\ committing => Active = {}
  /\ \A p \in Procs : op[p] = "commit" => committing
  /\ \A p, q \in Procs : op[p] = "commit" /\ op[q] = "commit" => p = q
  /\ Booting => \A p \in Procs : op[p] = "idle"
  /\ ~committing /\ ~Booting /\ outstanding = 0 => lh = <<>>
  /\ SleeperHasWaker

(* The on-disk header names a transaction exactly between the commit point *)
(* and the erasure, and the log blocks it names are whole.                 *)
HeaderInv ==
  /\ pc \in {"up", "write_log", "done", "panic"} => header = <<>>
  /\ pc \in {"install_trans", "recover"} => header = lh
  /\ pc \in {"read_head", "done"} => lh = <<>>
  /\ \A i \in 1 .. Len(header) : logdisk[i] \in Vals
  /\ pc \in {"write_log", "install_trans", "recover"} => tail <= Len(lh)
  /\ pc \in {"up", "done", "panic"} => tail = 0

(* A block outside the current transaction agrees with its home. *)
CleanBlock(b) ==
  /\ home[b] \in Vals
  /\ cache[b] \in {None, home[b]}
  /\ pin[b] = 0

(* A logged block not installed yet: its newest contents are pinned. *)
DirtyBlock(b) == cache[b] \in Vals /\ pin[b] = 1

BlockInv ==
  /\ pc \in {"up", "write_log", "done", "panic", "install_trans"} =>
       \A b \in Blocks : ~InLog(lh, b) => CleanBlock(b)
  /\ pc \in {"up", "write_log", "panic"} =>
       \A i \in 1 .. Len(lh) : DirtyBlock(lh[i]) /\ home[lh[i]] \in Vals
  /\ pc = "write_log" =>
       \A i \in 1 .. tail : logdisk[i] = cache[lh[i]]
  /\ pc = "install_trans" =>
       \A i \in 1 .. Len(lh) :
         IF i <= tail THEN CleanBlock(lh[i]) /\ home[lh[i]] = logdisk[i]
                      ELSE DirtyBlock(lh[i]) /\ cache[lh[i]] = logdisk[i]

RecoveryInv ==
  Booting =>
    /\ \A b \in Blocks : ~InLog(header, b) => CleanBlock(b)
    /\ \A b \in Blocks : pin[b] = 0
    /\ pc = "read_head" => \A b \in Blocks : cache[b] = None
    /\ pc = "recover" =>
         \A i \in 1 .. Len(lh) :
           IF i <= tail THEN home[lh[i]] = logdisk[i] /\ cache[lh[i]] = logdisk[i]
                        ELSE cache[lh[i]] = None

(* What every step of the log preserves: the header, the log blocks, the   *)
(* cache and the home blocks agree at each control point of commit() and   *)
(* of recover_from_log().                                                  *)
IInv ==
  /\ TypeOK
  /\ HeaderOK(lh) /\ HeaderOK(header)
  /\ ControlInv
  /\ HeaderInv
  /\ BlockInv
  /\ RecoveryInv
-----------------------------------------------------------------------------
(* No process sleeps in begin_op for ever: commits end and wake it.        *)
SleepersWake == \A p \in Procs : op[p] = "asleep" ~> op[p] # "asleep"
=============================================================================
