--------------------------------- MODULE Vm ---------------------------------
(***************************************************************************)
(* Physical pages and address spaces: kernel/kalloc.c, kernel/vm.c, exec   *)
(* and the parts of kernel/proc.c that make, grow, copy and free a page    *)
(* table, when memory runs out anywhere.                                   *)
(*                                                                         *)
(* A page is only ever owned through one pointer, and which page kalloc    *)
(* returns makes no difference; so the free list is its length and a page  *)
(* table is the set of places that hold a page.  Sizes count units of      *)
(* which PGSIZE make a page, and need not be whole pages.                  *)
(*                                                                         *)
(* Grain.  A loop that allocates is one step for each page; what only      *)
(* frees goes with the step before.  A page table has one user, so steps   *)
(* of two processes meet only at the free list.                            *)
(***************************************************************************)
EXTENDS Integers, Sequences, FiniteSets

CONSTANTS
  Procs, init,  \* entries of the process table, and the first process
  NPAGES,       \* pages of physical memory
  PGSIZE, FAN,  \* units of a page and entries of a page-table page (512)
  MaxSz,        \* bound: largest size a program asks for
  Progs         \* programs: the ends (vaddr + memsz) of their segments

(* Sv39: three levels; the topmost pages are the trampoline and trapframe. *)
VPN == 0 .. FAN * FAN * FAN - 1
TRAMPOLINE == FAN * FAN * FAN - 1
TRAPFRAME == FAN * FAN * FAN - 2

(* The address space is larger than memory (2^27 pages, PHYSTOP), so that  *)
(* a program and its stack stay clear of the trapframe; and there are the  *)
(* pages that the first process takes, at most.                            *)
ASSUME ConstAssumption ==
  /\ IsFiniteSet(Procs) /\ init \in Procs
  /\ PGSIZE \in Nat \ {0} /\ FAN \in Nat \ {0, 1}
  /\ MaxSz \in Nat /\ MaxSz + 2 * PGSIZE <= PGSIZE * TRAPFRAME
  /\ NPAGES \in Nat /\ NPAGES >= 9
  /\ Progs \subseteq Seq(1 .. MaxSz)

VARIABLES
  nfree,    \* length of kmem.freelist
  st,       \* "unused", "used" (in fork) or "live"
  pt, sz,   \* p->pagetable and p->sz
  loc,      \* a process in fork, growproc or exec
  panicked  \* some panic was called

vars == <<nfree, st, pt, sz, loc, panicked>>

NoTable == [root |-> FALSE, mid |-> {}, tab |-> {}, leaf |-> {}, user |-> {}]
User == [pc |-> "user", t |-> NoTable, sz |-> 0, a |-> 0, to |-> 0, segs |-> <<>>, child |-> init]

TypeOK ==
  /\ nfree \in 0 .. NPAGES /\ panicked \in BOOLEAN
  /\ st \in [Procs -> {"unused", "used", "live"}] /\ sz \in [Procs -> 0 .. PGSIZE * TRAPFRAME]
  /\ \A p \in Procs : \A t \in {pt[p], loc[p].t} : t.user \subseteq t.leaf /\ t.leaf \subseteq VPN
-----------------------------------------------------------------------------
(* Operations on [t |-> table, free |-> pages, ok, panic]. *)

(* walk(va, 1) needs a page for each level that is not there yet.  When    *)
(* the lower one cannot be had the upper one stays.                        *)
mappages(m, v, user) ==
  LET mids == {v \div (FAN * FAN)} \ m.t.mid
      tabs == {v \div FAN} \ m.t.tab
      need == Cardinality(mids) + Cardinality(tabs)
  IN IF m.free >= need
     THEN [m EXCEPT !.t.mid = @ \cup mids, !.t.tab = @ \cup tabs, !.t.leaf = @ \cup {v},
                    !.t.user = IF user THEN @ \cup {v} ELSE @,
                    !.free = @ - need, !.ok = TRUE, !.panic = @ \/ v \in m.t.leaf]
     ELSE [m EXCEPT !.t.mid = IF m.free > 0 THEN @ \cup mids ELSE @,
                    !.free = IF m.free > 0 THEN @ - Cardinality(mids) ELSE @, !.ok = FALSE]

(* uvmunmap: every page of vs must be mapped. *)
uvmunmap(m, vs, do_free) ==
  [m EXCEPT !.t.leaf = @ \ vs, !.t.user = @ \ vs,
            !.free = IF do_free THEN @ + Cardinality(vs) ELSE @,
            !.panic = @ \/ ~(vs \subseteq m.t.leaf)]

(* Mutant: the last, partial page is forgotten. *)
BugPages(n) == n \div PGSIZE

(* PGROUNDUP(n) / PGSIZE. *)
Pages(n) == (n + PGSIZE - 1) \div PGSIZE

(* uvmdealloc from oldsz to newsz. *)
uvmdealloc(m, oldsz, newsz) ==
  IF newsz >= oldsz THEN m ELSE uvmunmap(m, Pages(newsz) .. Pages(oldsz) - 1, TRUE)

(* freewalk: no leaf may be left. *)
freewalk(m) ==
  [m EXCEPT !.t = NoTable, !.free = @ + 1 + Cardinality(m.t.mid) + Cardinality(m.t.tab),
            !.panic = @ \/ m.t.leaf # {}]

uvmfree(m, size) == freewalk(uvmunmap(m, 0 .. Pages(size) - 1, TRUE))

(* Mutant: only the trampoline is unmapped. *)
BugFreepagetable(m, size) == uvmfree(uvmunmap(m, {TRAMPOLINE}, FALSE), size)

proc_freepagetable(m, size) == uvmfree(uvmunmap(m, {TRAMPOLINE, TRAPFRAME}, FALSE), size)

(* uvmcreate, and the two pages that are not the user's. *)
proc_pagetable(free) ==
  LET m0 == [t |-> NoTable, free |-> free, ok |-> FALSE, panic |-> FALSE]
      m1 == mappages([m0 EXCEPT !.t.root = TRUE, !.free = @ - 1], TRAMPOLINE, FALSE)
      m2 == mappages(m1, TRAPFRAME, FALSE)
  IN IF free = 0 THEN m0
     ELSE IF ~m1.ok THEN freewalk(m1)
     ELSE IF ~m2.ok THEN freewalk(uvmunmap(m2, {TRAMPOLINE}, FALSE))
     ELSE m2

(* Mutant: a page that cannot be mapped is not freed. *)
BugNewPage(m, v, user) == IF m.free = 0 THEN [m EXCEPT !.ok = FALSE] ELSE mappages([m EXCEPT !.free = @ - 1], v, user)

(* A page of user memory: kalloc, mappages, and kfree if that fails. *)
NewPage(m, v, user) ==
  LET r == mappages([m EXCEPT !.free = @ - 1], v, user)
  IN IF m.free = 0 THEN [m EXCEPT !.ok = FALSE]
     ELSE IF r.ok THEN r ELSE [r EXCEPT !.free = @ + 1]

(* walkaddr, for copyout of the arguments: only pages with PTE_U. *)
copyout(t, v) == v \in t.user
-----------------------------------------------------------------------------
Mem(t) == [t |-> t, free |-> nfree, ok |-> TRUE, panic |-> panicked]
Result(m) == nfree' = m.free /\ panicked' = m.panic
At(p, pc) == loc[p].pc = pc /\ ~panicked
Goto(p, l) == loc' = [loc EXCEPT ![p] = l]
Return(p) == Goto(p, User)

(* kinit, and userinit with uvmfirst: one page of initcode. *)
Init ==
  LET m == NewPage(proc_pagetable(NPAGES - 1), 0, TRUE) IN
  /\ nfree = m.free /\ panicked = FALSE
  /\ st = [p \in Procs |-> IF p = init THEN "live" ELSE "unused"]
  /\ pt = [p \in Procs |-> IF p = init THEN m.t ELSE NoTable]
  /\ sz = [p \in Procs |-> IF p = init THEN PGSIZE ELSE 0]
  /\ loc = [p \in Procs |-> User]
-----------------------------------------------------------------------------
(* growproc(n), n < 0.  A size below zero wraps and changes nothing. *)
Shrink(p, n) ==
  LET m == uvmdealloc(Mem(pt[p]), sz[p], sz[p] - n) IN
  /\ At(p, "user") /\ st[p] = "live" /\ n <= sz[p]
  /\ Result(m)
  /\ pt' = [pt EXCEPT ![p] = m.t] /\ sz' = [sz EXCEPT ![p] = @ - n]
  /\ UNCHANGED <<st, loc>>

(* growproc(n), n > 0: uvmalloc from the page after sz. *)
Grow(p, n) ==
  /\ At(p, "user") /\ st[p] = "live" /\ sz[p] + n <= MaxSz
  /\ Goto(p, [User EXCEPT !.pc = "grow", !.a = Pages(sz[p]), !.to = sz[p] + n])
  /\ UNCHANGED <<nfree, st, pt, sz, panicked>>

GrowPage(p) ==
  LET l == loc[p]
      m == NewPage(Mem(pt[p]), l.a, TRUE)
      undone == uvmdealloc(m, l.a * PGSIZE, Pages(sz[p]) * PGSIZE)
  IN
  /\ At(p, "grow") /\ l.a * PGSIZE < l.to
  /\ \/ /\ m.ok /\ Result(m)
        /\ pt' = [pt EXCEPT ![p] = m.t]
        /\ Goto(p, [l EXCEPT !.a = @ + 1])
     \/ /\ ~m.ok /\ Result(undone)
        /\ pt' = [pt EXCEPT ![p] = undone.t]
        /\ Return(p)
  /\ UNCHANGED <<st, sz>>

GrowDone(p) ==
  /\ At(p, "grow") /\ loc[p].a * PGSIZE >= loc[p].to
  /\ sz' = [sz EXCEPT ![p] = loc[p].to]
  /\ Return(p)
  /\ UNCHANGED <<nfree, st, pt, panicked>>
-----------------------------------------------------------------------------
(* fork: allocproc takes the trapframe and an empty page table for q. *)
Fork(p, q) ==
  LET m == proc_pagetable(nfree - 1) IN
  /\ At(p, "user") /\ st[p] = "live" /\ st[q] = "unused"
  /\ nfree > 0 /\ m.ok
  /\ Result(m)
  /\ st' = [st EXCEPT ![q] = "used"] /\ pt' = [pt EXCEPT ![q] = m.t]
  /\ Goto(p, [User EXCEPT !.pc = "copy", !.child = q])
  /\ UNCHANGED sz

(* allocproc fails, and gives back what it took: freeproc. *)
ForkFails(p) ==
  LET m == proc_pagetable(nfree - 1) IN
  /\ At(p, "user") /\ st[p] = "live" /\ \E q \in Procs : st[q] = "unused"
  /\ nfree > 0 /\ ~m.ok
  /\ nfree' = m.free + 1 /\ panicked' = m.panic
  /\ UNCHANGED <<st, pt, sz, loc>>

(* freeproc(q): the trapframe, the page table and what it maps. *)
freeproc(m, size) == proc_freepagetable([m EXCEPT !.free = @ + 1], size)

(* One iteration of uvmcopy; on failure the pages copied so far are freed  *)
(* and so is the child, whose sz is still 0.                               *)
CopyPage(p) ==
  LET l == loc[p]
      q == l.child
      m0 == [Mem(pt[q]) EXCEPT !.panic = @ \/ l.a \notin pt[p].leaf]
      m == NewPage(m0, l.a, l.a \in pt[p].user)
      undone == freeproc(uvmunmap(m, 0 .. l.a - 1, TRUE), sz[q])
  IN
  /\ At(p, "copy") /\ l.a * PGSIZE < sz[p]
  /\ \/ /\ m.ok /\ Result(m)
        /\ pt' = [pt EXCEPT ![q] = m.t]
        /\ Goto(p, [l EXCEPT !.a = @ + 1])
        /\ UNCHANGED st
     \/ /\ ~m.ok /\ Result(undone)
        /\ pt' = [pt EXCEPT ![q] = NoTable] /\ st' = [st EXCEPT ![q] = "unused"]
        /\ Return(p)
  /\ UNCHANGED sz

CopyDone(p) ==
  LET q == loc[p].child IN
  /\ At(p, "copy") /\ loc[p].a * PGSIZE >= sz[p]
  /\ sz' = [sz EXCEPT ![q] = sz[p]] /\ st' = [st EXCEPT ![q] = "live"]
  /\ Return(p)
  /\ UNCHANGED <<nfree, pt, panicked>>

(* exit, and the parent's wait: freeproc. *)
Exit(p) ==
  LET m == freeproc(Mem(pt[p]), sz[p]) IN
  /\ At(p, "user") /\ st[p] = "live" /\ p # init
  /\ Result(m)
  /\ pt' = [pt EXCEPT ![p] = NoTable] /\ sz' = [sz EXCEPT ![p] = 0] /\ st' = [st EXCEPT ![p] = "unused"]
  /\ UNCHANGED loc
-----------------------------------------------------------------------------
(* exec: a new page table, and the first program header is next. *)
Exec(p, segs) ==
  LET m == proc_pagetable(nfree) IN
  /\ At(p, "user") /\ st[p] = "live"
  /\ Result(m)
  /\ IF m.ok THEN Goto(p, [User EXCEPT !.pc = "segment", !.t = m.t, !.segs = segs]) ELSE UNCHANGED loc
  /\ UNCHANGED <<st, pt, sz>>

(* bad: the new page table is freed, with size bytes of memory. *)
ExecBad(p, m, size) == Result(proc_freepagetable(m, size)) /\ Return(p)

(* uvmalloc has come to the end of a segment or of the stack. *)
Full(l) == l.a * PGSIZE >= l.to

(* One page of a segment or of the stack. *)
ExecPage(p) ==
  LET l == loc[p]
      m == NewPage(Mem(l.t), l.a, TRUE)
  IN
  /\ At(p, "segment") \/ At(p, "stack")
  /\ ~Full(l)
  /\ \/ m.ok /\ Result(m) /\ Goto(p, [l EXCEPT !.t = m.t, !.a = @ + 1])
     \/ ~m.ok /\ ExecBad(p, uvmdealloc(m, l.a * PGSIZE, Pages(l.sz) * PGSIZE), l.sz)
  /\ UNCHANGED <<st, pt, sz>>

(* A segment, if there has been one, is allocated; loadseg reads it, or it *)
(* or the next header cannot be read.  A segment that ends below sz leaves *)
(* sz alone.  After the last one come two pages for the stack.             *)
Segment(p) ==
  LET l == loc[p]
      size == IF l.to < l.sz THEN l.sz ELSE l.to
  IN
  /\ At(p, "segment") /\ Full(l)
  /\ \/ ExecBad(p, Mem(l.t), size)
     \/ /\ IF l.segs # <<>>
           THEN Goto(p, [l EXCEPT !.sz = size, !.a = Pages(size), !.to = Head(l.segs), !.segs = Tail(@)])
           ELSE Goto(p, [l EXCEPT !.pc = "stack", !.sz = Pages(size) * PGSIZE, !.a = Pages(size), !.to = (Pages(size) + 2) * PGSIZE])
        /\ UNCHANGED <<nfree, panicked>>
  /\ UNCHANGED <<st, pt, sz>>

(* uvmclear makes the lower stack page a guard.  The arguments are copied, *)
(* if they fit, and the old image is freed.                                *)
Commit(p) ==
  LET l == loc[p]
      t == [l.t EXCEPT !.user = @ \ {l.to \div PGSIZE - 2}]
      m == proc_freepagetable(Mem(pt[p]), sz[p])
  IN
  /\ At(p, "stack") /\ Full(l)
  /\ \/ /\ copyout(t, l.to \div PGSIZE - 1)
        /\ Result(m)
        /\ pt' = [pt EXCEPT ![p] = t] /\ sz' = [sz EXCEPT ![p] = l.to]
        /\ Return(p)
     \/ /\ ExecBad(p, Mem(t), l.to)
        /\ UNCHANGED <<pt, sz>>
  /\ UNCHANGED st

Next ==
  \/ \E p \in Procs, n \in 1 .. MaxSz : Shrink(p, n) \/ Grow(p, n)
  \/ \E p \in Procs : \/ GrowPage(p) \/ GrowDone(p) \/ CopyPage(p) \/ CopyDone(p) \/ Exit(p) \/ ForkFails(p)
                      \/ ExecPage(p) \/ Segment(p) \/ Commit(p)
  \/ \E p, q \in Procs : Fork(p, q)
  \/ \E p \in Procs, segs \in Progs : Exec(p, segs)

Spec == Init /\ [][Next]_vars
-----------------------------------------------------------------------------
Own(t) == IF t.root THEN 1 + Cardinality(t.mid) + Cardinality(t.tab) + Cardinality(t.leaf \ {TRAMPOLINE, TRAPFRAME}) ELSE 0

Held(p) == (IF st[p] = "unused" THEN 0 ELSE 1) + Own(pt[p]) + Own(loc[p].t)

(* As many as the sum of Held(p). *)
HeldPages == UNION {{p} \X (1 .. Held(p)) : p \in Procs}

(* Every page is free or has one owner: a trapframe, a page table of some  *)
(* level, or user memory of a process or of an exec under way.  No failure *)
(* of fork, exec or sbrk, at whichever allocation it happens, loses a page *)
(* or frees one twice (the undo code of vm.c, exec.c and allocproc).       *)
PagesCounted == ~panicked => nfree + Cardinality(HeldPages) = NPAGES

(* The consistency panics of vm.c are never called: mappages on a page     *)
(* that is mapped ("remap"), uvmunmap and uvmcopy on one that is not,      *)
(* freewalk on a table that still maps one ("leaf").                       *)
NoPanic == ~panicked

(* A process that runs has mapped the pages below sz, the trampoline and   *)
(* its trapframe, and nothing else, whatever sizes it grew and shrank      *)
(* through and whatever failed; the last two are not the user's, and at    *)
(* most one page below sz, the stack's guard, is not.                      *)
SpaceRight ==
  \A p \in Procs : st[p] = "live" /\ loc[p].pc # "grow" =>
    LET below == 0 .. (sz[p] + PGSIZE - 1) \div PGSIZE - 1 IN
    /\ pt[p].leaf = below \cup {TRAMPOLINE, TRAPFRAME}
    /\ pt[p].user \subseteq below /\ Cardinality(below \ pt[p].user) <= 1
=============================================================================
