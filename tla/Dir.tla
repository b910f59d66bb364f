--------------------------------- MODULE Dir --------------------------------
(***************************************************************************)
(* Directories: path look-up and dirlink of kernel/fs.c, and the calls of  *)
(* kernel/sysfile.c that change the tree: link, unlink, mkdir, mknod, open *)
(* with O_CREATE and chdir.                                                *)
(*                                                                         *)
(* Grain.  A step runs from one ilock to the next.  An inode is its copy   *)
(* in memory; the inode table, blocks and crashes are in module File.      *)
(* Every directory has "." (itself), which ents leaves out.                *)
(*                                                                         *)
(* Removed directories.  unlink removes an empty directory that others may *)
(* still use, as their current one or on the way to a name in it.  create  *)
(* and link do not look at dp->nlink and make entries in it (stray), which *)
(* are lost when it is freed.  Its ".." may name an inode that is free by  *)
(* then, so that ilock panics, or that is another one (stale); the calls   *)
(* that are under way when such a ".." is followed are finished, and the   *)
(* behaviour ends.  One thing is left out there: entries made in a         *)
(* directory that has no ".." because another process is still making it,  *)
(* or has failed to (HasDotDot).                                           *)
(***************************************************************************)
EXTENDS Integers, Sequences, FiniteSets, FiniteSetsExt

CONSTANTS
  Procs,
  Names,   \* names other than "." and ".."
  Inums,   \* number of inodes, 1 is the root
  Paths,   \* paths programs use: [abs |-> starts with "/", elems |-> names]
  NewPaths,\* those that name a new link
  MaxLink, \* bound: links to a file
  None

ASSUME ConstAssumption ==
  /\ Inums \in Nat /\ Inums > 0 /\ MaxLink \in Nat /\ None \notin Procs /\ {".", ".."} \cap Names = {}
  /\ NewPaths \subseteq Paths
  /\ \A q \in Paths : q.abs \in BOOLEAN /\ q.elems \in Seq(Names \cup {".", ".."})

VARIABLES
  inode,    \* type, nlink, entries, ref and the holder of the sleep-lock; history:
            \* names lost with a directory, and whether what ".." names has been freed
  cwd,      \* p->cwd
  loc,      \* where a process is in a call, with the call's variables
  stray,    \* history: an entry has been made in a removed directory
  stale     \* history: a ".." has been followed to an inode that was freed in between

hist == <<stray, stale>>
vars == <<inode, cwd, loc, hist>>

Inum == 1 .. Inums
NoEnts == [n \in Names \cup {".."} |-> 0]
Free == [type |-> "none", nlink |-> 0, ents |-> NoEnts, ref |-> 0, lock |-> None, lost |-> 0, orphan |-> FALSE]
User == [pc |-> "user", op |-> None, path |-> <<>>, new |-> None, at |-> 0, ip |-> 0, name |-> None]
Ops == {"mkdir", "create", "unlink", "link", "chdir"}

TypeOK ==
  /\ \A i \in Inum : /\ inode[i].type \in {"none", "dir", "file"} /\ inode[i].nlink \in Int /\ inode[i].ref \in Nat
                     /\ inode[i].ents \in [Names \cup {".."} -> Inum \cup {0}] /\ inode[i].lock \in Procs \cup {None}
  /\ cwd \in [Procs -> Inum] /\ stray \in BOOLEAN /\ stale \in BOOLEAN
  /\ \A p \in Procs : loc[p].at \in Inum \cup {0} /\ loc[p].ip \in Inum \cup {0} /\ loc[p].op \in Ops \cup {None}

Init ==
  /\ inode = [i \in Inum |-> IF i = 1 THEN [Free EXCEPT !.type = "dir", !.nlink = 1, !.ents[".."] = 1, !.ref = Cardinality(Procs)]
                             ELSE Free]
  /\ cwd = [p \in Procs |-> 1]
  /\ loc = [p \in Procs |-> User]
  /\ stray = FALSE /\ stale = FALSE
-----------------------------------------------------------------------------
iget(f, i) == [f EXCEPT ![i].ref = @ + 1]

(* iput: the last reference to an inode without links frees it, with the   *)
(* entries that a removed directory may have.                              *)
iput(f, i) ==
  LET names(j) == {n \in Names : f[i].ents[n] = j} IN
  IF f[i].ref = 1 /\ f[i].nlink = 0
  THEN [j \in Inum |-> IF j = i THEN Free
                      ELSE [f[j] EXCEPT !.lost = @ + Cardinality(names(j)), !.orphan = @ \/ f[j].ents[".."] = i]]
  ELSE [f EXCEPT ![i].ref = @ - 1]

(* iunlockput of an inode that was locked in an earlier step. *)
iunlockput(f, i) == iput([f EXCEPT ![i].lock = None], i)

dirlookup(i, n) == IF n = "." THEN i ELSE inode[i].ents[n]
IsDir(i) == inode[i].type = "dir"
isdirempty(i) == \A n \in Names : inode[i].ents[n] = 0

(* ilock(i) succeeds. *)
CanLock(i) == inode[i].lock = None /\ inode[i].type # "none"

Panicked == \E p \in Procs : loc[p].pc = "panic"
At(p, pc) == loc[p].pc = pc /\ ~Panicked
Goto(p, l) == loc' = [loc EXCEPT ![p] = l]
Return(p) == Goto(p, User)

EntriesFor(i) == {x \in Inum \X Names : inode[x[1]].ents[x[2]] = i}

(* dirlink in dp, which may have been removed; dirlookup in one that was. *)
Strays(dp) == stray' = (stray \/ (dp # 1 /\ EntriesFor(dp) = {})) /\ UNCHANGED stale
Follows(dp, n) == stale' = (stale \/ (n = ".." /\ inode[dp].orphan)) /\ UNCHANGED stray
HasDotDot(dp) == inode[dp].ents[".."] # 0
-----------------------------------------------------------------------------
(* namei: a path that is used up names the inode itself; the calls then    *)
(* lock it.  All other calls use nameiparent (link: for its second path).  *)
Parent(l) == l.op # "chdir" /\ l.new = None
Arrived(l) ==
  [l EXCEPT !.pc = IF l.path # <<>> THEN "walk" ELSE IF l.op = "chdir" THEN "chdir" ELSE "src"]

(* namex starts at the root or at the current directory. *)
From(p, q) == IF q.abs THEN 1 ELSE cwd[p]

(* A call, with its path.  nameiparent of a path without a name fails and  *)
(* changes nothing.                                                        *)
Call(p, op, q, new) ==
  LET l == [User EXCEPT !.op = op, !.path = q.elems, !.new = new, !.at = From(p, q)] IN
  /\ At(p, "user")
  /\ q.elems # <<>> \/ ~Parent(l)
  /\ inode' = iget(inode, l.at)
  /\ Goto(p, Arrived(l))
  /\ UNCHANGED <<cwd, hist>>

(* A path leads nowhere: link still has to take its count back. *)
LookupFails(p) == IF loc[p].ip # 0 THEN Goto(p, [loc[p] EXCEPT !.pc = "bad", !.at = 0]) ELSE Return(p)

(* One iteration of namex. *)
Walk(p) ==
  LET l == loc[p]
      n == Head(l.path)
      next == dirlookup(l.at, n)
      stop == Parent(l) /\ Len(l.path) = 1
  IN
  /\ At(p, "walk") /\ CanLock(l.at)
  /\ \/ /\ IsDir(l.at) /\ stop
        /\ Goto(p, [l EXCEPT !.pc = "dlock", !.name = n, !.path = <<>>])
        /\ UNCHANGED <<inode, hist>>
     \/ /\ IsDir(l.at) /\ ~stop /\ next # 0
        /\ inode' = iput(iget(inode, next), l.at)
        /\ Goto(p, Arrived([l EXCEPT !.at = next, !.path = Tail(@)]))
        /\ Follows(l.at, n)
     \/ /\ ~IsDir(l.at) \/ (~stop /\ next = 0)
        /\ inode' = iput(inode, l.at)
        /\ LookupFails(p)
        /\ UNCHANGED hist
  /\ UNCHANGED cwd
-----------------------------------------------------------------------------
(* sys_chdir. *)
Chdir(p) ==
  LET i == loc[p].at IN
  /\ At(p, "chdir") /\ CanLock(i)
  /\ \/ /\ IsDir(i)
        /\ inode' = iput(inode, cwd[p])
        /\ cwd' = [cwd EXCEPT ![p] = i]
     \/ /\ ~IsDir(i)
        /\ inode' = iput(inode, i)
        /\ UNCHANGED cwd
  /\ Return(p)
  /\ UNCHANGED hist
-----------------------------------------------------------------------------
(* Mutant: directories can be linked. *)
BugMayLink(i) == TRUE

MayLink(i) == ~IsDir(i)

(* sys_link: the old path's inode gets a link first, then the new path is  *)
(* looked up.                                                              *)
LinkSource(p) ==
  LET l == loc[p]
      from == From(p, l.new)
  IN
  /\ At(p, "src") /\ CanLock(l.at)
  /\ \/ /\ MayLink(l.at)
        /\ inode' = iget([inode EXCEPT ![l.at].nlink = @ + 1], from)
        /\ Goto(p, [User EXCEPT !.pc = "walk", !.op = "link", !.path = l.new.elems, !.at = from, !.ip = l.at])
     \/ /\ ~MayLink(l.at)
        /\ inode' = iput(inode, l.at)
        /\ Return(p)
  /\ UNCHANGED <<cwd, hist>>

(* dirlink of the new name; it fails if the name is there, and may fail    *)
(* when the disk is full.                                                  *)
LinkEntry(p) ==
  LET l == loc[p] IN
  /\ At(p, "dlock") /\ l.op = "link" /\ CanLock(l.at)
  /\ \/ /\ dirlookup(l.at, l.name) = 0 /\ HasDotDot(l.at)
        /\ inode' = iput(iput([inode EXCEPT ![l.at].ents[l.name] = l.ip], l.at), l.ip)
        /\ Strays(l.at)
        /\ Return(p)
     \/ /\ inode' = iput(inode, l.at)
        /\ LookupFails(p)
        /\ UNCHANGED hist
  /\ UNCHANGED cwd

(* bad: the link is taken back. *)
LinkUndo(p) ==
  LET i == loc[p].ip IN
  /\ At(p, "bad") /\ CanLock(i)
  /\ inode' = iput([inode EXCEPT ![i].nlink = @ - 1], i)
  /\ Return(p)
  /\ UNCHANGED <<cwd, hist>>
-----------------------------------------------------------------------------
(* Mutant: ".." can be unlinked. *)
BugFixed(n) == n = "."

Fixed(n) == n \in {".", ".."}

(* sys_unlink with the directory locked. *)
UnlinkLookup(p) ==
  LET l == loc[p]
      i == dirlookup(l.at, l.name)
  IN
  /\ At(p, "dlock") /\ l.op = "unlink" /\ CanLock(l.at)
  /\ \/ /\ Fixed(l.name) \/ i = 0
        /\ inode' = iput(inode, l.at)
        /\ Return(p)
     \/ /\ ~Fixed(l.name) /\ i # 0
        /\ inode' = iget([inode EXCEPT ![l.at].lock = p], i)
        /\ Goto(p, [l EXCEPT !.pc = "ilock", !.ip = i])
  /\ UNCHANGED <<cwd, hist>>

(* ... and with the inode locked too. *)
UnlinkEntry(p) ==
  LET l == loc[p]
      gone == [inode EXCEPT ![l.at].ents[l.name] = 0,
                            ![l.at].nlink = IF IsDir(l.ip) THEN @ - 1 ELSE @,
                            ![l.ip].nlink = @ - 1]
  IN
  /\ At(p, "ilock") /\ CanLock(l.ip) /\ inode[l.ip].nlink >= 1
  /\ inode' = iput(iunlockput(IF IsDir(l.ip) /\ ~isdirempty(l.ip) THEN inode ELSE gone, l.at), l.ip)
  /\ Return(p)
  /\ UNCHANGED <<cwd, hist>>
-----------------------------------------------------------------------------
FreeInums == {i \in Inum : inode[i].type = "none"}

(* create with the directory locked: a name that is there is only locked   *)
(* to look at its type; else a new inode is allocated.                     *)
CreateLookup(p) ==
  LET l == loc[p]
      i == dirlookup(l.at, l.name)
      new == Min(FreeInums)
  IN
  /\ At(p, "dlock") /\ l.op \in {"mkdir", "create"} /\ CanLock(l.at)
  /\ \/ /\ i # 0
        /\ inode' = iput(iget(inode, i), l.at)
        /\ Goto(p, [User EXCEPT !.pc = "found", !.ip = i])
        /\ Follows(l.at, l.name)
     \/ /\ i = 0 /\ FreeInums # {}
        /\ inode' = iget([inode EXCEPT ![l.at].lock = p, ![new].type = IF l.op = "mkdir" THEN "dir" ELSE "file"], new)
        /\ Goto(p, [l EXCEPT !.pc = "new", !.ip = new])
        /\ UNCHANGED hist
     \/ /\ i = 0 /\ FreeInums = {}
        /\ inode' = iput(inode, l.at)
        /\ Return(p)
        /\ UNCHANGED hist
  /\ UNCHANGED cwd

CreateFound(p) ==
  /\ At(p, "found") /\ CanLock(loc[p].ip)
  /\ inode' = iput(inode, loc[p].ip)
  /\ Return(p)
  /\ UNCHANGED <<cwd, hist>>

(* Mutant: the parent does not count the new directory's "..". *)
BugDotDot(f, dp, ip) == [f EXCEPT ![ip].ents[".."] = dp]

(* A new directory's ".." is a link to its parent. *)
DotDot(f, dp, ip) == [f EXCEPT ![ip].ents[".."] = dp, ![dp].nlink = @ + 1]

(* create goes on with the new inode locked.  When an entry cannot be      *)
(* written, for want of a block, the inode is given back; a directory may  *)
(* have got its ".." by then.                                              *)
CreateEntry(p) ==
  LET l == loc[p]
      named == [inode EXCEPT ![l.at].ents[l.name] = l.ip, ![l.ip].nlink = 1]
      made == IF IsDir(l.ip) THEN DotDot(named, l.at, l.ip) ELSE named
  IN
  /\ At(p, "new") /\ CanLock(l.ip)
  /\ \/ /\ HasDotDot(l.at)
        /\ inode' = iput(iunlockput(made, l.at), l.ip)
        /\ Strays(l.at)
     \/ /\ \E up \in IF IsDir(l.ip) THEN {0, l.at} ELSE {0} :
             inode' = iunlockput(iput([inode EXCEPT ![l.ip].ents[".."] = up, ![l.ip].nlink = 0], l.ip), l.at)
        /\ UNCHANGED hist
  /\ Return(p)
  /\ UNCHANGED cwd
-----------------------------------------------------------------------------
(* The inode p is about to lock, 0 if none. *)
Target(p) ==
  IF loc[p].pc \in {"walk", "chdir", "src", "dlock"} THEN loc[p].at
  ELSE IF loc[p].pc \in {"bad", "ilock", "new", "found"} THEN loc[p].ip ELSE 0

(* panic("ilock: no type") and panic("unlink: nlink < 1"). *)
Panic(p) ==
  /\ Target(p) # 0 /\ ~Panicked /\ inode[Target(p)].lock = None
  /\ \/ inode[Target(p)].type = "none"
     \/ loc[p].pc = "ilock" /\ inode[Target(p)].nlink < 1
  /\ Goto(p, [User EXCEPT !.pc = "panic"])
  /\ UNCHANGED <<inode, cwd, hist>>

Step(p) ==
  \/ Walk(p) \/ Chdir(p) \/ LinkSource(p) \/ LinkEntry(p) \/ LinkUndo(p) \/ UnlinkLookup(p) \/ UnlinkEntry(p)
  \/ CreateLookup(p) \/ CreateFound(p) \/ CreateEntry(p) \/ Panic(p)

(* The bounds: on links, and on what follows the use of a stale "..": the  *)
(* calls under way are finished.                                           *)
FewLinks == \A i \in Inum : inode[i].type = "file" => inode[i].nlink < MaxLink
Calls(p) ==
  /\ ~stale
  /\ \E q \in Paths : \/ \E op \in Ops \ {"link"} : Call(p, op, q, None)
                      \/ \E new \in NewPaths : new.elems # <<>> /\ FewLinks /\ Call(p, "link", q, new)

Next ==
  \/ \E p \in Procs : Calls(p) \/ Step(p)
  \/ (Panicked \/ stale) /\ UNCHANGED vars

Spec == Init /\ [][Next]_vars
-----------------------------------------------------------------------------
Subdirs(i) == {n \in Names : inode[i].ents[n] # 0 /\ IsDir(inode[i].ents[n])}
Links(i) == Cardinality(EntriesFor(i)) + Cardinality(Subdirs(i)) + (IF i = 1 THEN 1 ELSE 0)
Linking(i) == {p \in Procs : loc[p].op = "link" /\ loc[p].ip = i}

(* What a path leads to from an inode of S. *)
Named(S) == {inode[i].ents[n] : i \in S, n \in Names} \ {0}
Under(S) ==
  LET Level[n \in 0 .. Inums] == IF n = 0 THEN S ELSE LET T == Level[n - 1] IN T \cup Named(T)
  IN Level[Inums]

(* What the use of removed directories leads to: one that has entries, and *)
(* a file that had a name in one that is gone.                             *)
Adrift == {i \in Inum \ {1} : \/ IsDir(i) /\ EntriesFor(i) = {} /\ \E n \in Names : inode[i].ents[n] # 0
                              \/ inode[i].lost > 0}

(* nlink is exact, but for links that are being made and names that went  *)
(* with a removed directory; what a name leads to is allocated, so iput    *)
(* frees no inode before its last name goes; and an inode that nobody uses *)
(* has a name under the root, or was left adrift by an entry made in a     *)
(* directory after it was removed, in any order of link, unlink, mkdir and *)
(* their failures (sysfile.c:134, :229, :254), as long as nobody follows   *)
(* the ".." of a removed directory to an inode that was freed since.       *)
LinksExact ==
  stale \/ /\ \A i \in Inum : /\ inode[i].nlink = Links(i) + Cardinality(Linking(i)) + inode[i].lost
                              /\ EntriesFor(i) # {} => inode[i].type # "none"
                              /\ inode[i].type # "none" /\ inode[i].ref = 0 => i \in Under({1} \cup Adrift)
           /\ Adrift # {} => stray

(* The directories are a tree, removed ones and what is made in them       *)
(* included: one that has a name has only that name, its ".." is the       *)
(* directory the name is in, and it does not lie under itself; with the    *)
(* same proviso.                                                           *)
TreeShape ==
  stale \/ \A i \in Inum : IsDir(i) /\ EntriesFor(i) # {} =>
             \E x \in EntriesFor(i) : /\ EntriesFor(i) = {x} /\ x[1] = inode[i].ents[".."]
                                     /\ x[1] \notin Under({i})

(* No processes wait for each other's inodes in a circle, nor one for      *)
(* itself: path look-up holds one lock at a time, unlink and create lock a *)
(* directory before the inode in it (fs.c:662, sysfile.c:215, :270).       *)
NoLockCycle ==
  \A S \in SUBSET Procs \ {{}} :
    \E p \in S : Target(p) = 0 \/ \A q \in S : inode[Target(p)].lock # q

(* ilock's panic("ilock: no type") at fs.c:315 is never met: an inode that *)
(* a call is about to lock is allocated.                                   *)
LocksAllocated == \A p \in Procs : Target(p) # 0 => inode[Target(p)].type # "none"

(* fs.h:36, "Number of links to inode in file system": with no call under  *)
(* way, nlink is the number of names (and of ".." entries).                *)
NlinkIsLinks == (\A p \in Procs : loc[p] = User) => \A i \in Inum : inode[i].nlink = Links(i)
=============================================================================
