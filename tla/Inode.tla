-------------------------------- MODULE Inode -------------------------------
(***************************************************************************)
(* The inode layer of kernel/fs.c: blocks and their bitmap, inodes on disk *)
(* and the table of inodes in memory.  This module has the layer's state   *)
(* and what its functions compute; module File runs them.                  *)
(*                                                                         *)
(* dinode and bitmap are the buffer cache's view of the disk: what the     *)
(* next transaction will find.  The content of data blocks is left out.    *)
(***************************************************************************)
EXTENDS Mkfs, FiniteSets, FiniteSetsExt

CONSTANTS
  Blocks,  \* number of data blocks
  NINODE,  \* entries of the inode table
  None     \* no process

VARIABLES
  dinode,  \* inode blocks
  bitmap,  \* blocks in use
  itable   \* itable.inode[]: d is the copy of the disk inode

Inum == 1 .. Inums
Slot == 1 .. NINODE
EmptyEntry == [inum |-> 0, ref |-> 0, valid |-> FALSE, lock |-> None, d |-> NoInode]

(* balloc: the lowest block that bm says is free, 0 if there is none. *)
balloc(bm) == IF 1 .. Blocks \subseteq bm THEN 0 ELSE Min(1 .. Blocks \ bm)

(* Mutant: a block that cannot be had leaves no trace of the indirect one. *)
BugBmap(d, bm, bn) ==
  LET b1 == balloc(bm)
      b2 == IF bn >= NDIRECT /\ d.ind = 0 THEN balloc(bm \cup {b1}) ELSE b1
  IN IF bn < Len(d.addrs) THEN [d |-> d, bm |-> bm, ok |-> TRUE]
     ELSE IF b2 = 0 THEN [d |-> d, bm |-> bm \cup ({b1} \ {0}), ok |-> FALSE]
     ELSE [d |-> [d EXCEPT !.addrs = Append(@, b2), !.ind = IF b1 # b2 THEN b1 ELSE @],
           bm |-> bm \cup {b1, b2}, ok |-> TRUE]

(* bmap(d, bn) for the block after the last, or one that is there: a block *)
(* past NDIRECT needs the indirect block first, which stays if the data    *)
(* block cannot be had.                                                    *)
bmap(d, bm, bn) ==
  LET needsInd == bn >= NDIRECT /\ d.ind = 0
      ind == balloc(bm)
      bm1 == IF needsInd THEN bm \cup ({ind} \ {0}) ELSE bm
      d1 == IF needsInd THEN [d EXCEPT !.ind = ind] ELSE d
      b == balloc(bm1)
  IN IF bn < Len(d.addrs) THEN [d |-> d, bm |-> bm, ok |-> TRUE]
     ELSE IF b = 0 THEN [d |-> d1, bm |-> bm1, ok |-> FALSE]
     ELSE [d |-> [d1 EXCEPT !.addrs = Append(@, b)], bm |-> bm1 \cup {b}, ok |-> TRUE]

BlocksOf(d) == {d.addrs[k] : k \in 1 .. Len(d.addrs)} \cup ({d.ind} \ {0})

(* itrunc: the blocks are freed and the inode is empty. *)
itrunc(d) == [d EXCEPT !.addrs = <<>>, !.ind = 0, !.size = 0]

(* readi of one block at off: where the next read starts. *)
readi(d, off) == IF off < d.size THEN off + 1 ELSE off

(* writei of one block at off, when bmap has a block for it: the inode     *)
(* grows if the data could be copied and off was its end.                  *)
writei(d, off, copied) == IF copied /\ off = d.size THEN [d EXCEPT !.size = @ + 1] ELSE d

(* iupdate: the inode block gets the copy in memory. *)
iupdate(i, d) == dinode' = [dinode EXCEPT ![i] = d]

(* ialloc: the lowest free inode on disk, 0 if there is none. *)
FreeInums == {i \in Inum : dinode[i].type = "none"}
ialloc == IF FreeInums = {} THEN 0 ELSE Min(FreeInums)

(* iget looks for an entry in use for inode i, else takes the first free.  *)
(* A table with no free entry is a panic: HasRoom says it is not met.      *)
Entries(i) == {s \in Slot : itable[s].ref > 0 /\ itable[s].inum = i}
Unused == {s \in Slot : itable[s].ref = 0}
HasRoom(i) == Entries(i) # {} \/ Unused # {}
SlotFor(i) == IF Entries(i) # {} THEN Min(Entries(i)) ELSE Min(Unused)
iget(i) ==
  [itable EXCEPT ![SlotFor(i)] =
     IF Entries(i) # {} THEN [@ EXCEPT !.ref = @ + 1]
     ELSE [EmptyEntry EXCEPT !.inum = i, !.ref = 1]]

(* ilock, when the sleep-lock is free: the entry locked by p and valid. *)
ilock(s, p) ==
  LET e == itable[s]
  IN [e EXCEPT !.lock = p, !.valid = TRUE, !.d = IF e.valid THEN @ ELSE dinode[e.inum]]

(* ip->ref--.  What an entry without references holds is dead: reset. *)
Dropped(s) == IF itable[s].ref = 1 THEN EmptyEntry ELSE [itable[s] EXCEPT !.ref = @ - 1]

(* Mutant: the reference count is not looked at. *)
BugLastPut(s) == itable[s].valid /\ itable[s].d.nlink = 0

(* iput decides, under itable.lock, whether this reference was the last to *)
(* an inode without links.                                                 *)
LastPut(s) == itable[s].ref = 1 /\ itable[s].valid /\ itable[s].d.nlink = 0
=============================================================================
