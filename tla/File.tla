-------------------------------- MODULE File --------------------------------
(***************************************************************************)
(* Open files over inodes: kernel/file.c, the calls of kernel/sysfile.c    *)
(* that work on descriptors, and the inode layer of kernel/fs.c (module    *)
(* Inode) that they run.  Files live in one directory, the root; paths and *)
(* subdirectories are in module Dir.                                       *)
(*                                                                         *)
(* Grain.  A step runs from one lock (ftable.lock, itable.lock, an inode's *)
(* sleep-lock, the root's) or log_write that another process can see to    *)
(* the next; begin_op goes with the step after it and end_op with the step *)
(* before.  The disk becomes durable when end_op leaves no transaction     *)
(* active, and a crash goes back to what was durable (CrashSafeDisk, which *)
(* module Log implements).  A machine that stops later, in the middle of   *)
(* transactions, restarts in the very state it would restart in had it     *)
(* stopped then; so the model lets it stop when none is active.            *)
(***************************************************************************)
EXTENDS Inode

CONSTANTS
  Procs,
  Names,   \* names in the root directory
  NFILE, NOFILE,
  Sizes, Boot,  \* sizes and names of the files mkfs is given
  Crashes       \* whether the machine may stop

ASSUME ConstAssumption ==
  /\ Sizes \in Seq(Nat) /\ Boot \in Seq(Names) /\ Len(Boot) = Len(Sizes)
  /\ Crashes \in BOOLEAN /\ None \notin Procs /\ NFILE \in Nat /\ NOFILE \in Nat
  /\ NINODE \in Nat /\ Blocks \in Nat /\ Inums > Len(Sizes)

VARIABLES
  dir,        \* entries of the root directory, 0 for a name that is not there
  dirlock,    \* holder of the root's sleep-lock
  ftable,     \* ftable.file[]
  ofile,      \* p->ofile[]
  active,     \* processes between begin_op and end_op
  loc         \* where a process is in a call, with the call's variables

disk == <<dinode, bitmap, dir>>
vars == <<disk, itable, dirlock, ftable, ofile, active, loc>>

F == 1 .. NFILE
Fd == 1 .. NOFILE
NoFile == [ref |-> 0, type |-> "none", ip |-> 0, off |-> 0]
User == [pc |-> "user", ip |-> 0, f |-> 0, name |-> None]

TypeOK ==
  /\ bitmap \subseteq 1 .. Blocks
  /\ \A i \in Inum : dinode[i].nlink \in Nat /\ BlocksOf(dinode[i]) \subseteq 1 .. Blocks
  /\ \A s \in Slot : itable[s].ref \in Nat /\ itable[s].lock \in Procs \cup {None}
  /\ \A f \in F : ftable[f].ref \in Nat /\ ftable[f].ip \in Slot \cup {0} /\ ftable[f].off \in 0 .. MAXFILE
  /\ ofile \in [Procs -> [Fd -> F \cup {0}]]
  /\ dir \in [Names -> Inum \cup {0}]
  /\ active \subseteq Procs /\ dirlock \in Procs \cup {None}

Init ==
  /\ dinode = mkfs(Sizes).inode /\ bitmap = mkfs(Sizes).bitmap
  /\ dir = [n \in Names |-> IF \E k \in 1 .. Len(Boot) : Boot[k] = n
                            THEN 1 + CHOOSE k \in 1 .. Len(Boot) : Boot[k] = n ELSE 0]
  /\ itable = [s \in Slot |-> EmptyEntry] /\ dirlock = None
  /\ ftable = [f \in F |-> NoFile] /\ ofile = [p \in Procs |-> [fd \in Fd |-> 0]]
  /\ active = {}
  /\ loc = [p \in Procs |-> User]

At(p, pc) == loc[p].pc = pc
Goto(p, pc) == loc' = [loc EXCEPT ![p].pc = pc]

(* begin_op, and p goes on at l. *)
Begin(p, l) ==
  /\ At(p, "user")
  /\ active' = active \cup {p}
  /\ loc' = [loc EXCEPT ![p] = l]

(* end_op and return. *)
End(p) ==
  /\ active' = active \ {p}
  /\ loc' = [loc EXCEPT ![p] = User]
-----------------------------------------------------------------------------
(* sys_open.  A name that is there: dirlookup returns a reference to its   *)
(* inode.  (One that is not, without O_CREATE, changes nothing.)           *)
sys_open(p, n) ==
  /\ dirlock = None /\ dir[n] # 0 /\ HasRoom(dir[n])
  /\ Begin(p, [User EXCEPT !.pc = "open_lock", !.ip = SlotFor(dir[n])])
  /\ itable' = iget(dir[n])
  /\ UNCHANGED <<disk, dirlock, ftable, ofile>>

(* create: a new inode, allocated on disk before it is in the table. *)
create(p, n) ==
  /\ dirlock = None /\ dir[n] = 0 /\ ialloc # 0 /\ HasRoom(ialloc)
  /\ Begin(p, [User EXCEPT !.pc = "create_lock", !.ip = SlotFor(ialloc), !.name = n])
  /\ iupdate(ialloc, [NoInode EXCEPT !.type = "file"])
  /\ itable' = iget(ialloc)
  /\ dirlock' = p
  /\ UNCHANGED <<bitmap, dir, ftable, ofile>>

(* The block that an entry of a full root needs, from bmap. *)
RootBlock ==
  LET root == dinode[1] IN
  IF root.size < MAXFILE THEN bmap(root, bitmap, root.size) ELSE [d |-> root, bm |-> bitmap, ok |-> FALSE]

(* create goes on with the new inode locked: one link, and an entry, which *)
(* finds room in the root, grows it by a block, or cannot be had.          *)
CreateLock(p) ==
  LET s == loc[p].ip
      e == ilock(s, p)
      r == RootBlock
      links(n, root) ==
        /\ itable' = [itable EXCEPT ![s] = [e EXCEPT !.d.nlink = n, !.lock = IF n = 0 THEN None ELSE p]]
        /\ dinode' = [dinode EXCEPT ![e.inum] = [e.d EXCEPT !.nlink = n], ![1] = root]
  IN
  /\ At(p, "create_lock") /\ itable[s].lock = None
  /\ \/ /\ \/ links(1, dinode[1]) /\ UNCHANGED bitmap
           \/ r.ok /\ links(1, writei(r.d, r.d.size, TRUE)) /\ bitmap' = r.bm
        /\ dir' = [dir EXCEPT ![loc[p].name] = e.inum]
        /\ dirlock' = None
        /\ Goto(p, "opened")
     \/ /\ ~r.ok
        /\ links(0, r.d) /\ bitmap' = r.bm
        /\ Goto(p, "iput")
        /\ UNCHANGED <<dir, dirlock>>
  /\ UNCHANGED <<ftable, ofile, active>>

OpenLock(p) ==
  /\ At(p, "open_lock") /\ itable[loc[p].ip].lock = None
  /\ itable' = [itable EXCEPT ![loc[p].ip] = ilock(loc[p].ip, p)]
  /\ Goto(p, "opened")
  /\ UNCHANGED <<disk, dirlock, ftable, ofile, active>>

FreeFiles == {f \in F : ftable[f].ref = 0}
FreeFds(p) == {fd \in Fd : ofile[p][fd] = 0}

(* filealloc and fdalloc, itrunc if O_TRUNC is given, iunlock. *)
Opened(p, trunc) ==
  LET s == loc[p].ip
      d == itable[s].d
      d1 == IF trunc THEN itrunc(d) ELSE d
      f == Min(FreeFiles)
  IN
  /\ At(p, "opened")
  /\ FreeFiles # {} /\ FreeFds(p) # {}
  /\ ftable' = [ftable EXCEPT ![f] = [ref |-> 1, type |-> "inode", ip |-> s, off |-> 0]]
  /\ ofile' = [ofile EXCEPT ![p][Min(FreeFds(p))] = f]
  /\ bitmap' = IF trunc THEN bitmap \ BlocksOf(d) ELSE bitmap
  /\ iupdate(itable[s].inum, d1)
  /\ itable' = [itable EXCEPT ![s].d = d1, ![s].lock = None]
  /\ End(p)
  /\ UNCHANGED <<dir, dirlock>>

(* No file or no descriptor: fileclose of a file with no type, iunlockput. *)
OpenFails(p) ==
  /\ At(p, "opened")
  /\ FreeFiles = {} \/ FreeFds(p) = {}
  /\ itable' = [itable EXCEPT ![loc[p].ip].lock = None]
  /\ Goto(p, "iput")
  /\ UNCHANGED <<disk, dirlock, ftable, ofile, active>>
-----------------------------------------------------------------------------
(* sys_unlink, with the root locked. *)
sys_unlink(p, n) ==
  /\ dirlock = None /\ dir[n] # 0 /\ HasRoom(dir[n])
  /\ Begin(p, [User EXCEPT !.pc = "unlink_lock", !.ip = SlotFor(dir[n]), !.name = n])
  /\ itable' = iget(dir[n])
  /\ dirlock' = p
  /\ UNCHANGED <<disk, ftable, ofile>>

(* With both locked: the entry goes, and the inode's link. *)
UnlinkLock(p) ==
  LET s == loc[p].ip
      e == ilock(s, p)
      d1 == [e.d EXCEPT !.nlink = @ - 1]
  IN
  /\ At(p, "unlink_lock") /\ itable[s].lock = None
  /\ dir' = [dir EXCEPT ![loc[p].name] = 0]
  /\ iupdate(e.inum, d1)
  /\ itable' = [itable EXCEPT ![s] = [e EXCEPT !.d = d1, !.lock = None]]
  /\ dirlock' = None
  /\ Goto(p, "iput")
  /\ UNCHANGED <<bitmap, ftable, ofile, active>>
-----------------------------------------------------------------------------
(* fileclose calls begin_op; elsewhere p is in a transaction already. *)
PutOp(p) == active \cup {p}

(* iput, under itable.lock.  For the last reference it goes on with the    *)
(* inode locked: itrunc clears the bits of its blocks.                     *)
iput(p) ==
  LET s == loc[p].ip IN
  /\ At(p, "iput") \/ At(p, "close")
  /\ \/ /\ LastPut(s) /\ itable[s].lock = None
        /\ itable' = [itable EXCEPT ![s].lock = p, ![s].d = itrunc(@)]
        /\ bitmap' = bitmap \ BlocksOf(itable[s].d)
        /\ Goto(p, "ifree") /\ active' = PutOp(p)
        /\ UNCHANGED dirlock
     \/ /\ ~LastPut(s)
        /\ itable' = [itable EXCEPT ![s] = Dropped(s)]
        /\ dirlock' = IF dirlock = p THEN None ELSE dirlock
        /\ End(p)
        /\ UNCHANGED bitmap
  /\ UNCHANGED <<dinode, dir, ftable, ofile>>

(* Mutant: the entry is left valid. *)
BugFreed(e) == [e EXCEPT !.d.type = "none", !.lock = None]

(* The type is cleared, ip->valid = 0, and releasesleep. *)
Freed(e) == [e EXCEPT !.d = NoInode, !.valid = FALSE, !.lock = None]

(* iput goes on: the inode is free on disk, while the entry is held. *)
Ifree(p) ==
  LET s == loc[p].ip IN
  /\ At(p, "ifree")
  /\ iupdate(itable[s].inum, NoInode)
  /\ itable' = [itable EXCEPT ![s] = Freed(@)]
  /\ Goto(p, "deref")
  /\ UNCHANGED <<bitmap, dir, dirlock, ftable, ofile, active>>

(* itable.lock again, and ip->ref--; create also lets go of the root. *)
Deref(p) ==
  /\ At(p, "deref")
  /\ itable' = [itable EXCEPT ![loc[p].ip] = Dropped(loc[p].ip)]
  /\ dirlock' = IF dirlock = p THEN None ELSE dirlock
  /\ End(p)
  /\ UNCHANGED <<disk, ftable, ofile>>
-----------------------------------------------------------------------------
(* sys_dup. *)
sys_dup(p, fd) ==
  LET f == ofile[p][fd] IN
  /\ At(p, "user") /\ f # 0 /\ FreeFds(p) # {}
  /\ ofile' = [ofile EXCEPT ![p][Min(FreeFds(p))] = f]
  /\ ftable' = [ftable EXCEPT ![f].ref = @ + 1]
  /\ UNCHANGED <<disk, itable, dirlock, active, loc>>

(* Mutant: fork copies the descriptors and counts each file once. *)
BugForkRefs(p, f) == IF \E fd \in Fd : ofile[p][fd] = f THEN 1 ELSE 0

(* filedup, called by fork for each descriptor. *)
ForkRefs(p, f) == Cardinality({fd \in Fd : ofile[p][fd] = f})

(* fork: q, which has nothing open, gets p's descriptors. *)
fork(p, q) ==
  /\ At(p, "user") /\ At(q, "user") /\ p # q
  /\ ofile[q] = [fd \in Fd |-> 0] /\ ofile[p] # ofile[q]
  /\ ofile' = [ofile EXCEPT ![q] = ofile[p]]
  /\ ftable' = [f \in F |-> [ftable[f] EXCEPT !.ref = @ + ForkRefs(p, f)]]
  /\ UNCHANGED <<disk, itable, dirlock, active, loc>>

(* fileclose, called by sys_close and, for each descriptor, by exit. *)
sys_close(p, fd) ==
  LET f == ofile[p][fd] IN
  /\ At(p, "user") /\ f # 0
  /\ ofile' = [ofile EXCEPT ![p][fd] = 0]
  /\ \/ /\ ftable[f].ref > 1
        /\ ftable' = [ftable EXCEPT ![f].ref = @ - 1]
        /\ UNCHANGED loc
     \/ /\ ftable[f].ref = 1
        /\ ftable' = [ftable EXCEPT ![f] = NoFile]
        /\ loc' = [loc EXCEPT ![p].pc = "close", ![p].ip = ftable[f].ip]
  /\ UNCHANGED <<disk, itable, dirlock, active>>
-----------------------------------------------------------------------------
(* fileread of one block. *)
fileread(p, fd) ==
  LET f == ofile[p][fd]
      e == ilock(ftable[f].ip, None)
  IN
  /\ At(p, "user") /\ f # 0 /\ itable[ftable[f].ip].lock = None
  /\ itable' = [itable EXCEPT ![ftable[f].ip] = e]
  /\ ftable' = [ftable EXCEPT ![f].off = readi(e.d, @)]
  /\ UNCHANGED <<disk, dirlock, ofile, active, loc>>

(* filewrite: each block (the code: each max bytes) is a transaction.      *)
(* writei, with the inode locked, until bmap has found or made the block;  *)
(* an offset past the end, or a file at its largest, is an error.          *)
filewrite(p, fd) ==
  LET f == ofile[p][fd]
      s == ftable[f].ip
      e == ilock(s, p)
      r == bmap(e.d, bitmap, ftable[f].off)
  IN
  /\ f # 0 /\ itable[s].lock = None
  /\ ftable[f].off <= e.d.size /\ ftable[f].off + 1 <= MAXFILE
  /\ Begin(p, [User EXCEPT !.pc = IF r.ok THEN "written" ELSE "full", !.f = f])
  /\ itable' = [itable EXCEPT ![s] = [e EXCEPT !.d = r.d]]
  /\ bitmap' = r.bm
  /\ UNCHANGED <<dinode, dir, dirlock, ftable, ofile>>

(* The data is copied, unless there is no block or the user's address is   *)
(* bad; iupdate either way, since bmap may have added blocks; iunlock.     *)
WriteEnd(p, copied) ==
  LET f == loc[p].f
      s == ftable[f].ip
      off == ftable[f].off
      d1 == writei(itable[s].d, off, copied)
  IN
  /\ At(p, "written") \/ (At(p, "full") /\ ~copied)
  /\ iupdate(itable[s].inum, d1)
  /\ itable' = [itable EXCEPT ![s].d = d1, ![s].lock = None]
  /\ ftable' = [ftable EXCEPT ![f].off = IF copied THEN off + 1 ELSE off]
  /\ End(p)
  /\ UNCHANGED <<bitmap, dir, dirlock, ofile>>
-----------------------------------------------------------------------------
(* The machine stops and boots again; the log is recovered (fsinit). *)
Crash ==
  /\ Crashes /\ active = {}
  /\ itable' = [s \in Slot |-> EmptyEntry] /\ dirlock' = None
  /\ ftable' = [f \in F |-> NoFile] /\ ofile' = [p \in Procs |-> [fd \in Fd |-> 0]]
  /\ loc' = [p \in Procs |-> User]
  /\ UNCHANGED <<disk, active>>

InCall(p) ==
  \/ CreateLock(p) \/ OpenLock(p) \/ OpenFails(p) \/ UnlinkLock(p)
  \/ iput(p) \/ Ifree(p) \/ Deref(p)
  \/ \E b \in BOOLEAN : Opened(p, b) \/ WriteEnd(p, b)

Next ==
  \/ \E p \in Procs : InCall(p) \/ \E q \in Procs : fork(p, q)
  \/ \E p \in Procs, n \in Names : sys_open(p, n) \/ create(p, n) \/ sys_unlink(p, n)
  \/ \E p \in Procs, fd \in Fd : sys_dup(p, fd) \/ sys_close(p, fd) \/ fileread(p, fd) \/ filewrite(p, fd)
  \/ Crash

Spec == Init /\ [][Next]_vars
-----------------------------------------------------------------------------
(* f->ref counts the descriptors of all processes (file.c), ip->ref the    *)
(* open files and the calls that hold the inode (fs.c:133), and no inode   *)
(* has two entries, whatever opens, forks, closes and failures overlap.    *)
RefsRight ==
  /\ \A f \in F : ftable[f].ref = Cardinality({x \in Procs \X Fd : ofile[x[1]][x[2]] = f})
  /\ \A s \in Slot : itable[s].ref = Cardinality({f \in F : ftable[f].ip = s})
                                     + Cardinality({p \in Procs : loc[p].ip = s})
  /\ \A i \in Inum : Cardinality(Entries(i)) <= 1

(* What is open is there: the inode of an open file is allocated on disk   *)
(* and its entry, once nobody has it locked, agrees with the disk.  An     *)
(* unlink, or a new file that gets the number of one just freed, never     *)
(* pulls an inode from under a descriptor (iput, ialloc, iget).            *)
OpenFilesLive ==
  \A f \in F : ftable[f].ref > 0 =>
    LET e == itable[ftable[f].ip] IN
    /\ e.valid /\ dinode[e.inum].type = "file"
    /\ e.lock = None => e.d = dinode[e.inum]

(* iput's comment at fs.c:344: when it is about to free an inode nobody    *)
(* has it locked, so acquiresleep with a spin-lock held does not block;    *)
(* and no reference can be had to an inode that is being freed.            *)
PutNeverBlocks ==
  \A p \in Procs : /\ loc[p].pc \in {"iput", "close"} /\ LastPut(loc[p].ip) => itable[loc[p].ip].lock = None
                   /\ At(p, "ifree") => itable[loc[p].ip].ref = 1

(* Whatever is durable is a good file system, so a restart finds one:      *)
(* every name has an allocated inode, nlink counts its names, the inodes'  *)
(* blocks are pairwise distinct and they are the blocks in use: none is    *)
(* used twice and none is lost, and none is missing below an inode's size  *)
(* (readi would allocate it, outside a transaction), though calls fail     *)
(* half-way and commits take whatever the others have done so far.         *)
CrashConsistent ==
  LET used == Inum \ FreeInums IN
  active = {} =>
    /\ \A n \in Names : dir[n] # 0 => dir[n] \in used
    /\ \A i \in used \ {1} : dinode[i].nlink = Cardinality({n \in Names : dir[n] = i})
    /\ \A i \in used : dinode[i].size <= Len(dinode[i].addrs)
    /\ bitmap = UNION {BlocksOf(dinode[i]) : i \in used}
    /\ \A i \in used : Cardinality(BlocksOf(dinode[i])) = Len(dinode[i].addrs) + (IF dinode[i].ind = 0 THEN 0 ELSE 1)
    /\ \A i, j \in used : i # j => BlocksOf(dinode[i]) \cap BlocksOf(dinode[j]) = {}

(* fs.c:129: "ialloc() allocates, and iput() frees if the reference and    *)
(* link counts have fallen to zero."  So when nothing is open and no call  *)
(* is under way, every allocated inode has a name (no crash considered).   *)
UnlinkedIsFreed ==
  (\A p \in Procs : At(p, "user")) /\ (\A f \in F : ftable[f].ref = 0)
    => \A i \in Inum \ {1} : dinode[i].type # "none" => i \in {dir[n] : n \in Names}
=============================================================================
