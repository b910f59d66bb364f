# A verification project for the xv6 kernel

The repository is xv6 for RISC-V, a small Unix-like teaching kernel: a
multiprocessor scheduler, processes, pipes, virtual memory, a console and a file
system with a write-ahead log on a virtio disk, with a shell and a program that
builds the disk image. This directory holds TLA+ modules translated from the C
code, TLC configurations that check them on small instances, and TLAPS proofs.
`PROJECT.json` maps every definition to the lines it models and lists components,
hazards, runs, mutants and theorems.

## The system and its parts

| Component | What is hard | What makes it correct | Module |
|---|---|---|---|
| Write-ahead log (`log.c`) | crashes between any two disk writes, calls that share a transaction, log space | a crash leaves whole transactions; no panic for space; sleepers are woken | `Log` |
| CPUs, switching, spin-locks, traps (`proc.c`, `spinlock.c`, `trap.c`) | interrupts and other CPUs at every point; a lock handed across `swtch` | one CPU per stack; locks are released by their holder; no lost wakeup | `Sched` |
| Processes (`proc.c`) | exit against wait against reparenting; reuse of entries | nobody is orphaned or missed; stacks are not shared | `Proc` |
| Pipes (`pipe.c`) | sleepers on two conditions, closes, kill half-way, wrap-around | bounded FIFO; end of file at the right time; freed once | `Pipe` |
| Buffer cache and sleep-locks (`bio.c`, `sleeplock.c`) | look-up gives up its lock before it sleeps; recycling | one buffer per block; readers see the last write | `Bcache` |
| Disk driver (`virtio_disk.c`) | descriptors run out; completion races with acknowledgement | each request completes once, descriptors are not lost | `Virtio` |
| Inodes, open files, image builder (`fs.c`, `file.c`, `sysfile.c`, `mkfs.c`) | last reference against look-up; unlinked open files; shared by fork and dup; crashes | reference counts exact; no block or inode used twice | `Mkfs`, `Inode`, `File` |
| Directories and paths (`fs.c`, `sysfile.c`) | two inodes locked at once; failure half-way | link counts match entries; a tree; no deadlock | `Dir` |
| Memory (`kalloc.c`, `vm.c`, `exec.c`) | failure at any allocation | no page owned twice or lost | `Vm` |
| Console and serial port (`console.c`, `uart.c`) | editing at ring boundaries; `^D` put back; output driven from two sides | edited lines in order; output never stalls | `Console` |
| Shell (`sh.c`) | descriptors over a tree of processes; calls that fail half-way | the right descriptors and no others; every line ends | `ShellParser`, `Shell` |

They stack up like this. `Sched` is the ground: `sleep` and `wakeup` lose no
wakeup, so the other modules take `sleep` as one step that gives up a lock and
falls asleep. `Bcache` says a block has one buffer with its latest contents and
that a pinned one stays, which is what `Log` assumes of `bio.c`. `Log` implements
`CrashSafeDisk`, and `File` runs on that: its transactions become durable
together, and its crash is the abstract one. `File` starts from the image `Mkfs`
computes. `Dir` is the tree above the inodes of `File`; `Shell` uses the pipes of
`Pipe` through end of file only.

## Modules

| Module | Models |
|---|---|
| `CrashSafeDisk` | abstract: updates of finished calls become durable together, a crash falls back to what was durable |
| `Log` | `log.c` with crashes and recovery; `INSTANCE CrashSafeDisk` with a refinement mapping |
| `Sched` | `scheduler`, `sched`, `yield`, `sleep`, `wakeup`, `forkret`, spin-locks, traps, and a process that waits for the disk interrupt |
| `Proc` | `fork`, `exit`, `wait`, `kill`, `reparent`, `allocproc`, `freeproc`, init's loop |
| `Fifo` | abstract: what a pipe promises |
| `Pipe` | `pipe.c` and the close of its ends; `INSTANCE Fifo` with a refinement mapping |
| `Bcache` | `bio.c`, with `sleeplock.c` as a buffer's lock |
| `Virtio` | `virtio_disk.c` and the device it drives (external) |
| `Mkfs`, `Inode`, `File` | the image; what the functions of the inode layer compute; the calls on descriptors that run them |
| `Dir` | `namex`, `dirlookup`, `dirlink` and the calls that change the tree |
| `Vm` | `kalloc`, page tables, `fork`, `sbrk`, `exec` and `exit` of memory |
| `Terminal` | abstract: input that can be edited until the line ends |
| `Console` | `console.c`, `uart.c`; `INSTANCE Terminal` with a refinement mapping |
| `ShellParser`, `Shell` | `sh.c`: from characters to a command; the processes that run it |
| `LogProofs`, `SchedProofs`, `ProcProofs`, `PipeProofs`, `BcacheProofs`, `VirtioProofs`, `ConsoleProofs`, `VmProofs` | theorems about the module of that name |
| `MC...` | instances for TLC: symmetry sets, paths, programs, command lines |

### How state and actions correspond to the code

Everywhere, the code between two points where another actor can interfere is one
action, whole: what a handler calls on the way is part of it. The comment at the
head of each module says where those points are. Waiting for a spin-lock is an
action that is not enabled.

`Log`. `lh`, `outstanding` and `committing` are the fields of `struct log`;
`header`, `logdisk` and `home` are the disk. A section under `log.lock` is one
step (`BeginOp`, `LogWrite`, `EndOp`, `FinishCommit`), and each disk write of
`commit` and recovery is one step. `Crash` can happen in every state and may tear
the block that is being written. The header, 4 * (LOGSIZE + 1) = 124 bytes, lies
within one 512-byte sector and is assumed to be written whole: that is the one
assumption about the disk. That a call logs no more distinct blocks than it
reserved is the callers' duty (constant `OpBlocks`).

`Sched`. `cpu[c]` is `struct cpu` plus the interrupt-enable bit. `cur[c]` says
whose kernel stack the CPU is on. The steps are the pieces of code between two
lock operations or switches. Interrupts are taken only where the code has them on.
Memory below the atomic swap is assumed to be sequentially consistent, which the
`__sync_synchronize` calls are there for.

`Proc`. A loop over the table that holds `wait_lock` takes one step per entry, so
that other processes act in between. `RUNNING` and `RUNNABLE` are one state. The
history variable `sent` records the pids that kills and faults were meant for.
Killing init (`panic("init exiting")`) is left out, since the machine stops.

`Pipe`. One iteration of a loop is one step, with `pi->lock` held across it.
The counters are numbers modulo `Counter`, a multiple of `PIPESIZE` as 2^32 is of
512. `holds` is the set of processes with an end open; `f->ref` is its size. A
`fork` or `dup` in the middle only adds a holder, so the initial sets `Readers`
and `Writers` stand for the program's forks.

`Bcache`. The list is a sequence, and a section under `bcache.lock` is one step.
`latest` is a history variable: what callers last put into each block. Callers
follow the file system's discipline, to change a buffer only for `bwrite` or
`log_write`. A caller has one buffer or two (`Refs`): `bmap` and `itrunc` keep an
indirect block while `balloc` and `bfree` read the bitmap (fs.c:407, 440), and
`install_trans` and `write_log` have a block of the log and the one it is a copy of
(log.c:74, 184). `Inner` says which may be asked for while which is held. When no
buffer can be recycled, `bget` panics and the machine stops (`BgetPanic`).

`Virtio`. `desc`, `free`, `avail`, `used` and `info` are the fields of `struct
disk`; ring indices wrap at `Index`. The device takes requests in the order of the
avail ring, completes them in any order, and raises an interrupt that stands until
it is acknowledged. `alloc3_desc` takes three descriptors and gives them back
when it finds fewer.

`File`, with `Inode` and `Mkfs`. `dinode` and `bitmap` are the disk as the cache
shows it, `itable`, `ftable` and `ofile` the tables of the kernel, `active` the
transactions that have begun. The disk is durable when none is active; that is
when a crash happens (a later one restarts in the same state). `iput` has its two
halves, with `itable.lock` given up between them. Data in blocks is left out;
sizes and offsets are in blocks.

`Dir`. `inode[i]` is an inode in memory with its entries, reference and link
counts and lock; a step goes from one `ilock` to the next. `dirlink` can fail for
want of a block. A directory may be removed while others are on the way to a name
in it or have it as current directory; they go on, as in the code: `create` and
`link` make entries in it (`stray`), which are lost when its last reference goes, and
`..` may lead to an inode that has been freed since, where `ilock` panics, or that has
become another one (`stale`). History fields count the names an inode has lost in this
way. Once a stale `..` has been followed, the calls under way are finished and no new
ones are made. Left out are entries made in a directory that has no `..` because
another process is still making it, or has failed to (`HasDotDot`).

`Vm`. The free list is its length; a page table is the set of places where it has
a page: root, middle tables, last-level tables, leaves. A loop that allocates is
one step per page, so that two processes compete for the last ones; `FAN` is the
number of entries of a table. Reading a program's file may fail at any segment.

`Console`. `cons.r`, `w` and `e` wrap at `UINT`, a multiple of `INPUT_BUF_SIZE` as
2^32 is of 128. The handler is `uartintr`: it takes keys until there are none and
then looks at the output. The test of LSR and the write of THR are two steps, in
`uartstart`, which has `uart_tx_lock`, and in echo (`uartputc_sync`), which goes
around the transmit buffer and has not: each can take the device between the other's
test and write. A character is then lost on the wire; `OutputMoves` says that those
still queued are sent all the same. The device (external) holds one character each
way.

`Shell`. A line is a sequence of characters; `parsecmd` follows the functions of
the code. The processes of a line are named by their place in the command.
Descriptors are tables of what is open, and a pipe is at its end when no process
has its write end. `fork`, `pipe`, `open` and `exec` may each fail.

## Runs

| Run | Question | Instance | Properties |
|---|---|---|---|
| `log` | is the log a crash-safe disk, does the reservation prevent panics, do finished calls become durable and sleepers go on? | 2 processes, 3 blocks, 2 values, log of 3 blocks, reservation 2, crashes anywhere | `IInv`, `NoPanic`, `CrashSafe`, `CommitsEventually`, `SleepersWake` |
| `sched_safe` | stacks, locks, `noff`/`intena`, wakeups | 2 CPUs, 2 processes | `OneCpuPerStack`, `HoldingRight`, `IntenaFollowsThread`, `NoLostWakeup` |
| `sched_live` | does every wait for the disk end? | 1 CPU, 2 processes | `RequestsReturn` |
| `proc` | family tree, stacks, reaping | 3 entries, pids up to 5 | `NoOrphans`, `StackNotReused`, `ZombiesReaped` |
| `pipe_safe` | FIFO, freeing, wakeups | 2 readers, 1 writer, ring of 2, counters modulo 4, writes of up to 3 | `NoUseAfterFree`, `NoLostWakeup`, `IsFifo` |
| `bcache_safe` | buffers, contents, waiting for buffers | 2 processes with up to 2 buffers each, 4 blocks, 2 buffers, 1 pin | `BufferStays`, `ReadsLatest`, `NobodyStuck` |
| `virtio` | descriptors, completions | 3 processes, the code's 8 descriptors, indices modulo 16 | `ChainsApart`, `DeviceHasLiveChains`, `ReturnsAfterTransfer`, `RequestsReturn` |
| `file` | references, open inodes, durable states | 2 processes, 3 inodes, 4 blocks, 1 file table entry, 2 descriptors, crashes | `RefsRight`, `OpenFilesLive`, `PutNeverBlocks`, `CrashConsistent` |
| `dir` | links, tree, lock order | 2 processes, 3 inodes, 2 names, paths `/a`, `/a/b`, `b`, `..`, up to 2 links to a file | `LinksExact`, `TreeShape`, `NoLockCycle` |
| `vm` | page ownership, mappings | 3 processes, 20 pages, tables of 2 entries | `PagesCounted`, `NoPanic`, `SpaceRight` |
| `console` | lines, sleepers, output | 2 readers, 2 writers, input ring of 2 with indices modulo 4, transmit buffer of 1 | `NoLostWakeup`, `OutputMoves`, `IsTerminal` |
| `shell` | parsing, descriptors, waiting, ending | all commands of two levels and some deeper; all lines of up to four characters and some longer | `ParsesWhatIsMeant`, `StdioRight`, `ForegroundWaited`, `LineEnds` |

All of them hold. Deadlock is checked in every run; a shell line that has ended, a
kernel that has panicked (`Bcache`, `Dir`) and a behaviour of `Dir` that ends after a
stale `..` may stutter. `PROJECT.json` gives for each
property a plausible mistake in the code, as a changed definition, under which TLC
finds the property violated.

### Why the bounds are enough to be of interest

- Log: two processes can share a transaction and absorb a block; three log
  slots give a prefix, a middle and an end to crash in. Both processes can be in
  a call, and one has to wait once the other has logged.
- Sched: two CPUs are what a stack can be shared between. A process that
  sleeps and one that runs exercise every pair of paths. The invariants are
  proved for all numbers of CPUs and processes.
- Proc: three entries are init, a child and a grandchild, so an orphan is given
  to init while init waits; more pids than entries force reuse. The wakeup in
  `reparent` is needed only from the fourth generation on (with three, the parent
  of an orphan is init's own child and wakes it as well), so this run does not
  tell whether it is there. With four entries and pids up to four the properties
  hold too (980 608 states, a quarter of an hour; set `NPROC` and `MaxPid` to 4),
  and the safety part is proved for all sizes.
- Pipe: writes longer than the ring and counters that wrap several times; two
  readers compete for bytes and for the last close. Proved for all sizes.
- Bcache: more blocks than buffers forces recycling, and two processes with two
  buffers each meet at the same buffers from both sides. With two buffers every way
  to run out of them occurs too. With three the properties hold as well (4 869 158
  states, six minutes), and they are proved for all sizes.
- Virtio: eight descriptors are two requests and a rest of two, so a third
  request finds some, gives them back and sleeps; indices go twice around the ring before they wrap.
- File: one name, one open file and two inodes beyond the root make every
  resource run out, and let a new file take the number of one being freed.
  A direct and an indirect block make a write need two allocations, and the root
  grows to its largest as well. With one entry in the file table no inode is open
  through two of them; with two entries (`NFILE = 2`) the properties hold as well
  (28 708 056 states, a quarter of an hour).
- Dir: with the root and two more inodes, a directory in a directory and a file
  in one can be made, removed and made again under another process's path, and one
  process can remove the directory in which the other is making an entry. Links are
  made as `/a/b` or `b` (`NewPaths`); with all four paths for both ends of a link the
  properties hold too (1 757 436 states). Without the bound after a stale `..` the
  states are too many for TLC (over 17 million).
- Vm: twenty pages are too few for three processes and an `exec` at once, so
  every allocation is the one that fails in some behaviour.
- Console: a ring of two is full after a short line, which ends a line too, and
  two lines fit in it. With a ring of three and indices modulo six the properties
  hold as well (2 250 612 states, five minutes). Proved for all sizes.
- Shell: two levels nest every kind of command in every other. TLC also runs
  the parser on all lines of up to four characters, wrong ones included. A command
  is written in every way to mix its arguments with its redirections, so that an
  argument that follows a redirection is one of the cases.

### Fairness

Fairness is only assumed of code that the kernel runs by itself: a process in
the kernel goes on, the scheduler's loop goes on, timer interrupts come, the disk
answers, init's loop calls `wait`. Nothing is assumed of crashes or kills, and of
programs only, in `Shell`, that they read to the end of their input. Strong
fairness is used where a lock is contended: a process that finds the lock free
again and again gets it. xv6's spin-locks do not guarantee this (they are not
ticket locks); the liveness results of `Sched`, `Proc` and `Virtio` depend on it.
`sched_live` uses one CPU, where a spinning CPU cannot starve: with two, a
`wakeup` could spin on `p->lock` for ever while the other CPU's scheduler takes it
again and again.

`Console` and `Dir` have safety properties only. Typing can hold up queued output
for as long as it goes on, since echo takes the device first; `OutputMoves` states
what is still true, that output is never left with nobody to send it.

## Proofs

The theorems hold for every value of the constants that the named assumption
(`ConstAssumption`) of the module allows. Each invariant was first checked by TLC.
The proofs of a module have one step per action, and lemmas for what several use.

`LogProofs`: any number of processes, blocks and values, any sizes with a
reservation of at least one and at most `LOGSIZE`.
- `Invariance` (`IInv`), with `TypeCorrect`, `PinnedWhileDirty`, `NoLostWakeup`.
- `Refinement`: `Log` implements `CrashSafeDisk` (`CrashSafe`).
- `ReservationEnough` (`NoPanic`): if calls log fewer blocks than `begin_op` reserves
  for them (`OpBlocks < MAXOPBLOCKS`) and
  `LOGSIZE - (MAXOPBLOCKS - OpBlocks) < size - 1`, nothing panics.

`IInv` has, beside types, `ControlInv` (who may be where: `outstanding` counts the
calls in progress, none is during a commit), `HeaderInv` (the header on disk is
empty before the commit point and equal to `lh` up to the erasure), `BlockInv`
(which of cache, home and log copy agree at each point of `commit`, and that
logged blocks are pinned) and `RecoveryInv`. None of the properties is inductive
alone: that a dirty buffer is pinned needs `install_trans` to write the home block
before it unpins, and this needs the log copy to equal the cached one, which only
holds because no call runs during a commit. For the refinement, `durable` is the
disk as recovery would leave it and `latest` what `bread` would return; the
header write is `Commit`, and everything else in `commit` and recovery a stutter.

For `ReservationEnough`, `SpaceInv` is an account: the length of `lh`, plus `MAXOPBLOCKS` for each call in
progress, is at most `LOGSIZE` plus the number of pairs of a call and a block it
has logged (`Written`). Absorption only helps, since it adds to `Written` and not
to `lh`. `WrittenBound` maps these pairs one to one into calls and numbers up to
`OpBlocks`. With the kernel's sizes (10, 30 and 30) the second assumption says that
a call logs at most eight blocks. That the calls do so is not proved. Read from the
code, a write does: `filewrite` cuts it into pieces of three blocks (file.c:155), and
a piece logs at most four blocks of data if it is not aligned, the bitmap block
(one, at `FSSIZE` 2000), the indirect block and the inode. The other calls were not
counted. The run `log` lies just outside the second assumption (4 - 1 is not less
than 3), so there `NoPanic` rests on TLC alone.

`SchedProofs`: any number of CPUs and processes.
- `SchedInvariance`, and from it `StacksApart` (`OneCpuPerStack`),
  `LocksHeldRight` (`HoldingRight`), `IntenaStays` (`IntenaFollowsThread`) and
  `WakeupsArrive` (`NoLostWakeup`).

The heart of it is `Places` with `PlockRight`: a CPU between its two `swtch` calls
has the process to itself, because `p->lock` is held whenever neither the
scheduler nor the process is on its own stack. `IntrRight` counts: `noff` is the
number of locks the running thread holds, plus one for a handler on top of it, and
interrupts are off unless it is zero. That a handler never finds the lock taken by
the thread below it follows. `SleepersRight` says that whoever sleeps, or has
decided to, is awaited by the device or still ahead of a `wakeup` in its loop;
it needs both locks of `sleep`, since `p->lock` is taken before the other is
released.

`PipeProofs`: any readers and writers, any ring, counters modulo any larger
multiple of its size.
- `PipeInvariance`, `FreedUnused` (`NoUseAfterFree`), `NobodyForgotten`
  (`NoLostWakeup`), and `PipeIsFifo`: `Pipe` implements `Fifo`.

`ClosesOnce` says that an end is marked closed by one process only and the pipe
freed by the later; `WritersRight` and `ReadersRight` that who sleeps finds
nothing to do, or the holder of the lock will wake it; a reader may also be one that a
killed writer has not told of its bytes, for which the history variable `untold` stands
until the next wakeup (see below). `RingInv` says the queue is
`data` between the two counters modulo their width; that a byte written lands
in a slot that is free needs the lemmas on `%` at the head of the module (`ModWrap`,
`ModAdd`, `ModDistinct`), which are proved from the definition of `%`, because the
provers know nothing of division by a variable. `ConsoleProofs` and `VirtioProofs`
begin with the same lemmas for their rings.

`BcacheProofs`: any finite set of processes, any blocks and buffers.
- `CacheInvariance`, `BuffersStay` (`BufferStays`), `BreadReadsLatest`
  (`ReadsLatest`), `WaitInvariance`, `SleepersFreed` (`NobodyStuck`), and
  `PanicsRight`: `bget` panics only when every buffer is a caller's or holds a block of
  the log, so no reference is left behind.

`RefcntRight` (`b->refcnt` is the number of pointers that callers have to `b`, plus the
log's pin) is what makes `OneBuffer` and `HasBuffer` inductive: `bget` recycles
only at zero. `Contents` carries the latest value from buffer to disk. For
`SleepersFreed`, `OwnerRight` and `SleepRight` say that who sleeps, sleeps for a buffer
another one has locked, and `NestRight` that a caller with two buffers asked for them in
the order `Inner` allows: from a block of the log to an indirect one or another, from an
indirect one to another. Who waits for the last kind has nothing anybody waits for
behind it, so no cycle closes (`NextSleeper`). `ListInv` says that the list has every buffer, so that `bget` misses
none when it looks for a free one.

`VirtioProofs`: any processes, any number of descriptors, ring indices modulo any
larger multiple of it.
- `VirtioInvariance`, and from it `DescriptorsSafe` (`ChainsApart`), `DeviceSafe`
  (`DeviceHasLiveChains`) and `TransfersFirst` (`ReturnsAfterTransfer`).

`DescRight` says that a descriptor is free or in one place of one chain,
`RequestsRight` that a queued chain is laid out as it was formatted. The heart is
`PlacesRight`: the head of every request that sleeps for its buffer is in at most one
place among the unfetched part of the available ring, the device's hands and the
unseen part of the used ring, and once in it. Without that, a completion could be
handled twice, and the second time its descriptors may belong to another request.
That neither ring is overrun follows from it: there are never more heads than
descriptors, and an index has more values than a ring has slots. So a new entry lands
in a slot nobody has still to read, and indices that wrap keep their distance
(`Wraps`, `SlotsDiffer`, `Popped`, `Pushed`).

`ProcProofs`: a process table of any size, any pids.
- `ProcInvariance`, `ParentsLive` (`NoOrphans`), `StacksKept` (`StackNotReused`)
  and `ExitsSeen`: nobody sleeps in `wait` while a child is a zombie.

`TreeRight` says that a process which exits has given away the children it has
passed in the table; it holds because a process becomes somebody's child only under
`wait_lock` (proc.c:317 and 336), which the exiting process holds. `ScanRight` says
that a process that scans has no zombie child behind it, and that one about to
become a zombie has woken its parent, who cannot look before `wait_lock` is
released. The wakeup in `reparent` is needed here: without it TLC finds init asleep
on a zombie it has inherited. `ForkRight` keeps a half-made child, whose lock
`fork` gives up in the middle, out of the others' reach.

`ConsoleProofs`: any readers and writers, any input ring with indices modulo any
larger multiple of its size, any transmit buffer.
- `ConsoleInvariance`, `NobodySleepsOnInput` (`NoLostWakeup`), `OutputNeverStalls`
  (`OutputMoves`), and `ConsoleIsTerminal`: `Console` implements `Terminal`
  (`IsTerminal`).

`RingRight` says that `r`, `w` and `e` stand in this order around the ring, at most
its size apart, and that no character between `w` and `e` ends a line. The order
makes the two sequences of the refinement well defined, the distance keeps a new
character off the ones not yet read, and the last part is why erasing stops where
the abstract line begins. That an end of file can be put back without overwriting
anything needs the distance too. `NoLostWakeup` and `OutputMoves` are inductive
together with the types: every step that makes room or a line wakes everyone in
the same section, and who leaves `uartstart` with characters in the buffer has seen the
device busy.

`VmProofs`: any finite set of processes, any amount of memory from the nine pages up
that the first process needs at most, any fan-out of a page table, any programs, and
sizes up to two pages (stack and guard) below the trapframe.
- `VmInvariance`, `NoPageLost` (`PagesCounted`), `VmNeverPanics` (`NoPanic`) and
  `SpacesRight` (`SpaceRight`).

The argument has three parts. Lemmas about `Pages` (`PagesRight`, `PagesWhole`,
`PagesFit`) turn comparisons of addresses into comparisons of page numbers; they are
the only place where multiplication matters. Lemmas about the operations of `vm.c`
(`MapPage`, `PageAdded`, `PagesRemoved`, `TableFreed`, `TableCreated`) say of a table
that maps the pages 0 to n - 1 what it maps afterwards, also when the allocation of a
middle table fails half-way, and that its tree gains the pages the free list loses.
`VmInv` then names, for each place inside `growproc`, `fork` and `exec`, the n of each
table a process has, the half-built one of `exec` and the child's under `fork`
included. `ChildRight` and `ChildrenApart` are needed because `fork` writes into the
entry of another process: no two parents copy into the same child, and a child is
not yet running. The sum over all processes is the size of a set of pairs (`Tally`),
of which a step changes one row. The facts about finite sets this needs are collected in
`Counting` and proved at the end of the module from the library's theorems
(`CountingRight`), since with the library in scope from the start the proofs take
several times as long.

Only model-checked: all liveness properties (temporal reasoning with fairness is
outside the prover's reach), the parser and the shell (`ShellParser` and `Shell` are
recursive), and everything about `File` and `Dir`. `File` starts from the image that
`Mkfs` computes by folding over the files; what that image contains for every list of
files would need induction over data. In `Dir`, what lies under the root is defined
level by level, so `LinksExact` and `TreeShape` need induction over the levels;
`NoLockCycle` rests on the same tree and is not proved either.

## Properties the code does not have

The modules also state six promises that comments or assertions make and that the
code does not keep. No run checks them; each can be seen with the constants given.

- `NoPanic` of `Log` with `OpBlocks = MAXOPBLOCKS`: `begin_op` reserves against
  `LOGSIZE` (log.c:133), `log_write` panics at `log.size - 1`, and `mkfs` makes
  `log.size` equal to `LOGSIZE` with the header in it (mkfs.c:25). Calls that
  use their reservation in full can exceed the log by one block. The run `log`
  has the same sizes, with calls that log one block less than they reserve.
- `KillsOnlyTarget` of `Proc` with `KillPids = {0, 2}`: a free entry has pid 0,
  `kill(0)` sets its `killed` (proc.c:592), and `allocproc` does not clear it.
- `SleepsOnlyOnEmpty` of `Pipe`: a writer killed between two bytes returns
  without waking the readers (pipe.c:84), and one can stay asleep although the
  pipe holds data. `NoLostWakeup` states what is still true: this lasts until the
  next wakeup, from a write that fills the pipe or ends, or from the last close.
- `UnlinkedIsFreed` of `File`, without crashes: `iput` frees the inode on disk
  and takes `itable.lock` again for `ip->ref--` (fs.c:357). In between, a create
  can get the same number and entry and give it up again: it sees two references
  and frees nothing, and the first `iput` does not look again. With crashes, a
  file that was open and unlinked stays allocated, since nothing looks for it
  at boot.
- `LocksAllocated` of `Dir`: `..` of a removed current directory may name a free
  inode, and `ilock` panics (fs.c:315, reached from fs.c:669).
- `NlinkIsLinks` of `Dir`, for fs.h:36, "Number of links to inode in file system":
  `create` and `link` do not look at `dp->nlink` once `nameiparent` has returned
  (sysfile.c:254), so they make entries in a directory that has been removed in
  between; with its last reference the entries go, and the inodes they name keep a
  link for each and are never freed. `LinksExact` states what is still true: `nlink`
  is the number of links and of links lost in this way, and nothing else is lost. It
  does not speak of behaviours in which a stale `..` has been followed. There a
  `link` can find an inode that another process has allocated and not yet locked in
  `create`, which then sets `nlink` to 1 over the count of the new link.

Other limits met on the way, which no comment contradicts:
- `NBUF` is 30, the log may pin 29 blocks and each of 64 processes may have up to two
  buffers, so nothing keeps `bget` from finding no free buffer and panicking. `Bcache`
  has the panic; what is proved is that it happens only with every buffer in use.
- `NINODE` is 50 and `NFILE` 100: with enough files open `iget` panics. `File`
  takes the step only when there is room.
- `mkfs` rounds the root's size up by a whole block when its entries fill the last
  one, and `readi` would then allocate a block outside a transaction. The image
  of this repository's build is not such a case, nor is the one `File` starts from.
- `wait` tests `killed` and then sleeps; a kill between the two is noticed only at
  the next wakeup.
- `sys_sleep` compares an `int` with unsigned ticks, so a negative argument is a
  very long sleep.

## Not modelled

- System call entry (`syscall.c`, argument fetching) and ticks: sequential, or one
  more use of `sleep` and `wakeup`.
- The kernel's own page table, register saving, the trampoline and the assembly of
  `swtch`: their effect is the switch of stacks that `Sched` has.
- The bytes that `copyin` and `copyout` move: that they may fail is in the models.
- Start-up, `printf` and string helpers: sequential, with no state that lasts.
- `ramdisk.c`: not built.
- `umalloc.c`, `ulib.c`, the other user programs: sequential clients of the calls
  that are modelled. The tests were read as statements of what is promised.
- The shell's `cd` and prompt, and `nulterminate`, which only lays out strings.

## Running it

    tlc -config File.cfg MCFile
    tlapm SchedProofs.tla

A run takes from seconds to a few minutes; the proofs about half an hour from
nothing, all modules together.
