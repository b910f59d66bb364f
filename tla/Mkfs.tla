-------------------------------- MODULE Mkfs --------------------------------
(***************************************************************************)
(* mkfs/mkfs.c: the file system image a machine boots from.  The program   *)
(* is sequential; it is modelled as the function from the sizes of the     *)
(* files it is given to the inodes and the bitmap it writes.               *)
(*                                                                         *)
(* Sizes are in blocks and data blocks are numbered from 1 (the code adds  *)
(* nmeta).  The content of a block is left out, but for the entries of the *)
(* root directory.                                                         *)
(***************************************************************************)
EXTENDS Naturals, Sequences, SequencesExt

CONSTANTS
  Inums,    \* number of inodes, 1 is the root
  NDIRECT,
  MAXFILE,  \* most blocks of one file
  DPB       \* directory entries that fit in one block

(* The struct dinode of a free inode. *)
NoInode == [type |-> "none", nlink |-> 0, addrs |-> <<>>, ind |-> 0, size |-> 0]

(* ialloc: the next inode, with one link. *)
MkInode(img, type) ==
  [img EXCEPT !.inode[img.freeinode] = [NoInode EXCEPT !.type = type, !.nlink = 1],
              !.freeinode = @ + 1]

(* iappend of one more block: past NDIRECT it needs the indirect block. *)
MkBlock(img, inum) ==
  LET d == img.inode[inum]
      makesInd == Len(d.addrs) >= NDIRECT /\ d.ind = 0
      b == IF makesInd THEN img.freeblock + 1 ELSE img.freeblock
  IN [img EXCEPT !.inode[inum] = [d EXCEPT !.addrs = Append(@, b),
                                           !.ind = IF makesInd THEN img.freeblock ELSE @,
                                           !.size = @ + 1],
                 !.freeblock = b + 1]

MkBlocks(img, inum, n) == FoldLeft(LAMBDA m, k : MkBlock(m, inum), img, [k \in 1 .. n |-> k])

(* One iteration of main's loop: an entry in the root, then the content. *)
MkFile(img, n) ==
  LET inum == img.freeinode
      i1 == MkInode(img, "file")
      i2 == IF i1.entries % DPB = 0 THEN MkBlock(i1, 1) ELSE i1
  IN MkBlocks([i2 EXCEPT !.entries = @ + 1], inum, n)

(* main: the root with "." and "..", and the files; the root's size is     *)
(* rounded up to the block after its last entry; balloc marks the blocks   *)
(* below freeblock.                                                        *)
mkfs(sizes) ==
  LET blank == [inode |-> [i \in 1 .. Inums |-> NoInode], freeinode |-> 1, freeblock |-> 1, entries |-> 2]
      img == FoldLeft(MkFile, MkBlock(MkInode(blank, "dir"), 1), sizes)
  IN [inode |-> [img.inode EXCEPT ![1].size = img.entries \div DPB + 1], bitmap |-> 1 .. img.freeblock - 1]
=============================================================================
