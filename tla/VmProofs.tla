------------------------------ MODULE VmProofs ------------------------------
(***************************************************************************)
(* Proofs about Vm: for any number of processes, of pages and of page      *)
(* table entries, and any programs, no consistency panic is reached, an    *)
(* address space maps exactly the pages below its size, and no page is     *)
(* lost or freed twice.                                                    *)
(*                                                                         *)
(* The argument is in three parts.  Lemmas about Pages let the rest count  *)
(* pages only.  Lemmas about the operations of vm.c say, of a table that   *)
(* maps pages 0 to n - 1, what it maps afterwards and that the pages it    *)
(* gains are the ones the free list loses.  The invariant then names, for  *)
(* every place inside fork, growproc and exec, the n of each table.        *)
(*                                                                         *)
(* The facts about Cardinality that the steps use are collected in one     *)
(* formula, Counting, which the lemmas assume and CountingRight proves.    *)
(***************************************************************************)
EXTENDS Vm, TLAPS

(* The time that the provers get for a step that does not say otherwise. *)
USE SMTT(20), ZenonT(20)

Table == [root : BOOLEAN, mid : SUBSET Nat, tab : SUBSET Nat, leaf : SUBSET Nat, user : SUBSET Nat]
Memory == [t : Table, free : Nat, ok : BOOLEAN, panic : BOOLEAN]
Place == [pc : {"user", "grow", "copy", "segment", "stack"}, t : Table, sz : Nat, a : Nat, to : Nat,
          segs : Seq(1 .. MaxSz), child : Procs]

Low(n) == 0 .. n - 1

(* The pages of the tree itself. *)
Tree(t) == 1 + Cardinality(t.mid) + Cardinality(t.tab)
Finite(t) == IsFiniteSet(t.mid) /\ IsFiniteSet(t.tab)

(* A whole table, of a space of n pages. *)
Maps(t, n) ==
  /\ t \in Table /\ t.root /\ Finite(t)
  /\ t.leaf = Low(n) \cup {TRAMPOLINE, TRAPFRAME}
  /\ t.user \subseteq Low(n)

(* At most one of its pages is a guard. *)
OneGuard(t, n) == \A x, y \in Low(n) \ t.user : x = y
-----------------------------------------------------------------------------
(* The pages of an entry of the process table in state s, with page table  *)
(* t and at place l.                                                       *)
Hold(s, t, l) == (IF s = "unused" THEN 0 ELSE 1) + Own(t) + Own(l.t)

(* The image of a live process, which growproc may be extending. *)
ImageRight(t, z, l) ==
  LET n == IF l.pc = "grow" THEN l.a ELSE Pages(z) IN
  /\ Maps(t, n) /\ OneGuard(t, n)
  /\ l.pc = "grow" => Pages(z) <= l.a /\ l.a <= Pages(l.to) /\ l.to <= MaxSz

(* The image that exec is building; what uvmalloc has added to it lies     *)
(* between sz and to.                                                      *)
NewImageRight(l) ==
  /\ l.pc \notin {"segment", "stack"} => l.t = NoTable
  /\ l.pc \in {"segment", "stack"} =>
       /\ Maps(l.t, l.a) /\ l.t.user = Low(l.a)
       /\ Pages(l.sz) <= l.a /\ (l.a <= Pages(l.sz) \/ l.a <= Pages(l.to))
  /\ l.pc = "segment" => l.sz <= MaxSz /\ l.to <= MaxSz
  /\ l.pc = "stack" => \E k \in 0 .. Pages(MaxSz) : l.sz = k * PGSIZE /\ l.to = (k + 2) * PGSIZE

(* An entry of the process table. *)
Entry(s, t, z, l) ==
  /\ s \in {"unused", "used", "live"} /\ t \in Table /\ z \in 0 .. PGSIZE * TRAPFRAME /\ l \in Place
  /\ Hold(s, t, l) \in Nat
  /\ l.pc = "user" => l = User
  /\ s # "live" => z = 0 /\ l = User
  /\ s = "unused" => t = NoTable
  /\ s = "live" => ImageRight(t, z, l) /\ NewImageRight(l)

(* The child that fork is filling has the parent's pages below a. *)
ChildRight(p) ==
  loc[p].pc = "copy" =>
    LET l == loc[p]
        t == pt[l.child]
    IN st[l.child] = "used" /\ l.a <= Pages(sz[p]) /\ Maps(t, l.a) /\ t.user = pt[p].user \cap Low(l.a)

(* No two forks fill the same child. *)
ChildrenApart ==
  \A p, q \in Procs : p # q /\ loc[p].pc = "copy" /\ loc[q].pc = "copy" => loc[p].child # loc[q].child

OnProcs(f) == f = [p \in Procs |-> f[p]]

VmInv ==
  /\ nfree \in Nat /\ panicked = FALSE
  /\ OnProcs(st) /\ OnProcs(pt) /\ OnProcs(sz) /\ OnProcs(loc)
  /\ \A p \in Procs : Entry(st[p], pt[p], sz[p], loc[p]) /\ ChildRight(p)
  /\ ChildrenApart
  /\ nfree + Cardinality(HeldPages) = NPAGES
-----------------------------------------------------------------------------
(* What the assumption says of sizes, without the products. *)
LEMMA Constants ==
  /\ TRAMPOLINE = TRAPFRAME + 1 /\ TRAPFRAME \in Nat /\ TRAPFRAME >= 2
  /\ PGSIZE \in Nat /\ PGSIZE >= 1 /\ MaxSz \in Nat /\ NPAGES \in Nat /\ NPAGES >= 9
  /\ IsFiniteSet(Procs) /\ init \in Procs
<1>1. FAN \in Nat /\ FAN >= 2 BY ConstAssumption
<1>2. FAN * FAN \in Nat /\ FAN * FAN >= 4 BY <1>1
<1>3. FAN * FAN * FAN \in Nat /\ FAN * FAN * FAN >= 8 BY <1>1, <1>2
<1> DEFINE c == FAN * FAN * FAN
<1>4. c \in Nat /\ c >= 8 BY <1>3, Zenon
<1>5. TRAPFRAME = c - 2 /\ TRAMPOLINE = c - 1 BY Zenon DEF TRAPFRAME, TRAMPOLINE
<1> HIDE DEF c
<1> QED BY <1>4, <1>5, ConstAssumption

(* Page a begins below address n exactly when it is one of the Pages(n). *)
LEMMA PagesRight ==
  ASSUME NEW n \in Nat, NEW a \in Nat
  PROVE  Pages(n) \in Nat /\ (a * PGSIZE < n <=> a < Pages(n))
<1> DEFINE g == PGSIZE
           x == n + g - 1
           d == x \div g
<1>1. g \in Nat /\ g >= 1 BY Constants, Zenon
<1>2. x \in Nat BY <1>1
<1> HIDE DEF x, g
<1>3. d \in Nat /\ g * d <= x /\ x < g * d + g BY <1>1, <1>2, SMTT(30)
<1> HIDE DEF d
<1>4. Pages(n) = d BY Zenon DEF Pages, d, x, g
<1>5. x = n + g - 1 BY Zenon DEF x, g
<1>6. CASE a < d
  <2>1. g * (a + 1) <= g * d BY <1>1, <1>3, <1>6
  <2>2. g * (a + 1) = a * g + g BY <1>1
  <2> QED BY <2>1, <2>2, <1>1, <1>3, <1>4, <1>5, <1>6 DEF g
<1>7. CASE ~(a < d)
  <2>1. g * d <= a * g BY <1>1, <1>3, <1>7
  <2> QED BY <2>1, <1>1, <1>3, <1>4, <1>5, <1>7 DEF g
<1> QED BY <1>6, <1>7, Zenon
(* Whole pages are not rounded, and rounding is monotonic. *)
LEMMA PagesWhole ==
  ASSUME NEW k \in Nat
  PROVE  k * PGSIZE \in Nat /\ Pages(k * PGSIZE) = k
<1> DEFINE n == k * PGSIZE
           c == Pages(n)
<1>1. n \in Nat BY Constants
<1>2. c \in Nat /\ ~(c < k) /\ ~(k < c)
  <2>1. c \in Nat BY <1>1, PagesRight, Zenon
  <2>2. k < c <=> k * PGSIZE < n BY <1>1, PagesRight, Zenon
  <2>3. c < c <=> c * PGSIZE < n BY <1>1, <2>1, PagesRight, Zenon
  <2>4. c < k => c * PGSIZE < k * PGSIZE BY <2>1, Constants
  <2> QED BY <2>1, <2>2, <2>3, <2>4, <1>1
<1> QED BY <1>1, <1>2

(* Rounding up is monotonic. *)
LEMMA PagesMonotonic ==
  ASSUME NEW m \in Nat, NEW n \in Nat, m <= n
  PROVE  Pages(m) <= Pages(n)
<1>1. Pages(m) \in Nat /\ Pages(n) \in Nat BY PagesRight, Zenon
<1>2. SUFFICES ASSUME Pages(n) < Pages(m) PROVE FALSE BY <1>1
<1>3. Pages(n) * PGSIZE < m BY <1>1, <1>2, PagesRight, Zenon
<1>4. ~(Pages(n) * PGSIZE < n)
  <2>1. Pages(n) * PGSIZE < n <=> Pages(n) < Pages(n) BY <1>1, PagesRight, Zenon
  <2> QED BY <2>1, <1>1
<1>5. Pages(n) * PGSIZE \in Nat BY <1>1, Constants
<1> QED BY <1>3, <1>4, <1>5

(* An empty space has no pages. *)
LEMMA PagesZero == Pages(0) = 0
<1>1. 0 * PGSIZE = 0 BY Constants
<1> QED BY <1>1, PagesWhole, Zenon

(* A program and its stack, and every size, stay below the trapframe. *)
LEMMA PagesFit ==
  ASSUME NEW n \in Nat
  PROVE  /\ n <= MaxSz => Pages(n) <= Pages(MaxSz)
         /\ Pages(MaxSz) \in Nat /\ Pages(MaxSz) + 2 <= TRAPFRAME
         /\ n <= PGSIZE * TRAPFRAME => Pages(n) <= TRAPFRAME
<1> USE Constants
<1>1. n <= MaxSz => Pages(n) <= Pages(MaxSz) BY PagesMonotonic, Zenon
<1>2. Pages(MaxSz) \in Nat BY PagesRight, Zenon
<1> DEFINE k == TRAPFRAME - 2
<1>3. k \in Nat /\ k + 2 = TRAPFRAME OBVIOUS
<1>4. MaxSz <= k * PGSIZE
  <2>1. (k + 2) * PGSIZE = k * PGSIZE + 2 * PGSIZE BY <1>3
  <2>2. MaxSz + 2 * PGSIZE <= PGSIZE * TRAPFRAME BY ConstAssumption, Zenon
  <2>3. PGSIZE * TRAPFRAME = (k + 2) * PGSIZE BY <1>3
  <2> QED BY <2>1, <2>2, <2>3, <1>3
<1>5. Pages(MaxSz) <= k
  <2>1. k * PGSIZE \in Nat /\ Pages(k * PGSIZE) = k BY <1>3, PagesWhole, Zenon
  <2> HIDE DEF k
  <2> QED BY <2>1, <1>4, PagesMonotonic, Zenon
<1>6. n <= PGSIZE * TRAPFRAME => Pages(n) <= TRAPFRAME
  <2>1. TRAPFRAME * PGSIZE \in Nat /\ Pages(TRAPFRAME * PGSIZE) = TRAPFRAME BY PagesWhole, Zenon
  <2>2. PGSIZE * TRAPFRAME = TRAPFRAME * PGSIZE OBVIOUS
  <2> QED BY <2>1, <2>2, PagesMonotonic, Zenon
<1> QED BY <1>1, <1>2, <1>3, <1>5, <1>6
-----------------------------------------------------------------------------
(* What the steps use of finite sets: the number of elements of a finite   *)
(* set, of an interval and of a set that gains the page of one level of a  *)
(* walk, and how a sum over the processes, taken as the size of a set,     *)
(* changes with one of them.  The library's theorems give all of it, at    *)
(* the end of the module.                                                  *)
Tally(f) == UNION {{q} \X (1 .. f[q]) : q \in Procs}

Counting ==
  /\ \A S : IsFiniteSet(S) => Cardinality(S) \in Nat
  /\ \A S, x : IsFiniteSet(S) =>
       /\ Cardinality({x} \ S) \in 0 .. 1 /\ IsFiniteSet(S \cup ({x} \ S))
       /\ Cardinality(S \cup ({x} \ S)) = Cardinality(S) + Cardinality({x} \ S)
  /\ \A k, n \in Nat : k <= n => Cardinality(k .. n - 1) = n - k
  /\ IsFiniteSet({}) /\ Cardinality({}) = 0
  /\ \A x : Cardinality({x}) = 1
  /\ \A f, g \in [Procs -> Nat], p \in Procs :
       (\A q \in Procs \ {p} : g[q] = f[q]) =>
         /\ Cardinality(Tally(f)) \in Nat /\ Cardinality(Tally(g)) \in Nat
         /\ Cardinality(Tally(g)) + f[p] = Cardinality(Tally(f)) + g[p]

(* Its conjuncts, by name. *)
LEMMA SizeType == ASSUME Counting, NEW S, IsFiniteSet(S) PROVE Cardinality(S) \in Nat
BY ZenonT(30) DEF Counting

(* The page of one level that walk adds, if it is not there. *)
LEMMA OneMore ==
  ASSUME Counting, NEW S, IsFiniteSet(S), NEW x
  PROVE  /\ Cardinality(S) \in Nat /\ Cardinality({x} \ S) \in 0 .. 1
         /\ IsFiniteSet(S \cup ({x} \ S))
         /\ Cardinality(S \cup ({x} \ S)) = Cardinality(S) + Cardinality({x} \ S)
BY ZenonT(30) DEF Counting

(* The pages from k up to n. *)
LEMMA IntervalSize ==
  ASSUME Counting, NEW k \in Nat, NEW n \in Nat, k <= n
  PROVE  Cardinality(k .. n - 1) = n - k
BY ZenonT(30) DEF Counting

(* No page and one page. *)
LEMMA SmallSize ==
  ASSUME Counting, NEW x
  PROVE  IsFiniteSet({}) /\ Cardinality({}) = 0 /\ Cardinality({x}) = 1
BY ZenonT(30) DEF Counting

(* The pages the processes hold, when one of them changes. *)
LEMMA TallyChanges ==
  ASSUME Counting, NEW f \in [Procs -> Nat], NEW g \in [Procs -> Nat], NEW p \in Procs,
         \A q \in Procs \ {p} : g[q] = f[q]
  PROVE  /\ Cardinality(Tally(f)) \in Nat /\ Cardinality(Tally(g)) \in Nat
         /\ Cardinality(Tally(g)) + f[p] = Cardinality(Tally(f)) + g[p]
BY ZenonT(30) DEF Counting

(* A process without a page table maps nothing and holds nothing.          *)
LEMMA NoTableRight ==
  /\ NoTable \in Table /\ ~NoTable.root /\ NoTable.mid = {} /\ NoTable.tab = {}
  /\ NoTable.leaf = {} /\ NoTable.user = {} /\ Own(NoTable) = 0
<1> DEFINE e == {}
<1>1. e \subseteq Nat OBVIOUS
<1>2. NoTable = [root |-> FALSE, mid |-> e, tab |-> e, leaf |-> e, user |-> e] BY Zenon DEF NoTable
<1> HIDE DEF e
<1>3. NoTable \in Table BY <1>1, <1>2, Zenon DEF Table
<1>4. ~NoTable.root BY <1>2, Zenon
<1> QED BY <1>3, <1>4, Zenon DEF NoTable, Own

(* A record of these four fields is a state of memory that an operation works on. *)
LEMMA IsMemory ==
  ASSUME NEW t \in Table, NEW free \in Nat, NEW ok \in BOOLEAN, NEW panic \in BOOLEAN
  PROVE  [t |-> t, free |-> free, ok |-> ok, panic |-> panic] \in Memory
BY Zenon DEF Memory

(* mappages: the tree gains the pages the free list loses, on failure too, *)
(* and only success maps the page.                                         *)
Mapped(m, v, user, r) ==
  /\ r \in Memory /\ Finite(r.t) /\ r.t.root = m.t.root
  /\ r.free + Tree(r.t) = m.free + Tree(m.t)
  /\ r.ok => /\ r.t.leaf = m.t.leaf \cup {v}
             /\ r.t.user = IF user THEN m.t.user \cup {v} ELSE m.t.user
             /\ r.panic = (m.panic \/ v \in m.t.leaf)
  /\ ~r.ok => r.t.leaf = m.t.leaf /\ r.t.user = m.t.user /\ r.panic = m.panic
  /\ m.free >= 2 => r.ok
  /\ r.free + 2 >= m.free

(* What Mapped says holds of mappages. *)
LEMMA MapPage ==
  ASSUME Counting, NEW m \in Memory, Finite(m.t), NEW v \in Nat, NEW user \in BOOLEAN
  PROVE  Mapped(m, v, user, mappages(m, v, user))
<1> DEFINE x == v \div (FAN * FAN)
           y == v \div FAN
           mids == {x} \ m.t.mid
           tabs == {y} \ m.t.tab
           cm == Cardinality(mids)
           ct == Cardinality(tabs)
           r == mappages(m, v, user)
<1>1. x \in Nat /\ y \in Nat
  <2>1. FAN \in Nat /\ FAN >= 2 BY ConstAssumption
  <2>2. FAN * FAN \in Nat /\ FAN * FAN >= 1 BY <2>1
  <2> DEFINE f == FAN * FAN
  <2> HIDE DEF f
  <2>3. f \in Nat /\ f >= 1 BY <2>2, Zenon DEF f
  <2>4. v \div f \in Nat /\ v \div FAN \in Nat BY <2>1, <2>3
  <2> QED BY <2>4, Zenon DEF f
<1> HIDE DEF x, y
<1>2. /\ Cardinality(m.t.mid) \in Nat /\ cm \in 0 .. 1
      /\ IsFiniteSet(m.t.mid \cup mids) /\ Cardinality(m.t.mid \cup mids) = Cardinality(m.t.mid) + cm
  BY OneMore, ZenonT(30) DEF Finite
<1>3. /\ Cardinality(m.t.tab) \in Nat /\ ct \in 0 .. 1
      /\ IsFiniteSet(m.t.tab \cup tabs) /\ Cardinality(m.t.tab \cup tabs) = Cardinality(m.t.tab) + ct
  BY OneMore, ZenonT(30) DEF Finite
<1>4. mids \subseteq Nat /\ tabs \subseteq Nat BY <1>1, Zenon
<1>5. r = IF m.free >= cm + ct
          THEN [m EXCEPT !.t.mid = @ \cup mids, !.t.tab = @ \cup tabs, !.t.leaf = @ \cup {v},
                         !.t.user = IF user THEN @ \cup {v} ELSE @,
                         !.free = @ - (cm + ct), !.ok = TRUE, !.panic = @ \/ v \in m.t.leaf]
          ELSE [m EXCEPT !.t.mid = IF m.free > 0 THEN @ \cup mids ELSE @,
                         !.free = IF m.free > 0 THEN @ - cm ELSE @, !.ok = FALSE]
  BY Zenon DEF mappages, x, y
<1> HIDE DEF mids, tabs, cm, ct, r
<1>6. /\ m.free \in Nat /\ m.t \in Table /\ m.panic \in BOOLEAN /\ m.ok \in BOOLEAN BY Zenon DEF Memory
<1>7. CASE m.free >= cm + ct
  <2>1. /\ r = [t |-> r.t, free |-> m.free - (cm + ct), ok |-> TRUE, panic |-> (m.panic \/ v \in m.t.leaf)]
        /\ r.t = [root |-> m.t.root, mid |-> m.t.mid \cup mids, tab |-> m.t.tab \cup tabs,
                  leaf |-> m.t.leaf \cup {v}, user |-> IF user THEN m.t.user \cup {v} ELSE m.t.user]
    BY <1>5, <1>6, <1>7, ZenonT(60) DEF Memory, Table
  <2>2. r.t \in Table BY <2>1, <1>4, <1>6 DEF Table
  <2>3. r \in Memory
    <3>1. m.free - (cm + ct) \in Nat BY <1>2, <1>3, <1>6, <1>7
    <3>2. (m.panic \/ v \in m.t.leaf) \in BOOLEAN OBVIOUS
    <3> QED BY <2>1, <2>2, <3>1, <3>2, IsMemory, ZenonT(30)
  <2>4. Finite(r.t) BY <2>1, <1>2, <1>3 DEF Finite
  <2>5. r.free + Tree(r.t) = m.free + Tree(m.t) /\ r.free + 2 >= m.free
    BY <2>1, <1>2, <1>3, <1>6 DEF Tree
  <2> QED BY <2>1, <2>3, <2>4, <2>5 DEF r, Mapped
<1>8. CASE ~(m.free >= cm + ct)
  <2>1. /\ r = [t |-> r.t, free |-> IF m.free > 0 THEN m.free - cm ELSE m.free, ok |-> FALSE, panic |-> m.panic]
        /\ r.t = [m.t EXCEPT !.mid = IF m.free > 0 THEN m.t.mid \cup mids ELSE m.t.mid]
    BY <1>5, <1>6, <1>8, ZenonT(30) DEF Memory, Table
  <2>2. r.t \in Table BY <2>1, <1>4, <1>6, Zenon DEF Table
  <2>3. r \in Memory
    <3> DEFINE f == IF m.free > 0 THEN m.free - cm ELSE m.free
    <3>1. f \in Nat BY <1>2, <1>6
    <3>2. r = [t |-> r.t, free |-> f, ok |-> FALSE, panic |-> m.panic] BY <2>1, Zenon
    <3> HIDE DEF f
    <3> QED BY <2>2, <3>1, <3>2, <1>6, IsMemory, ZenonT(30)
  <2>4. Finite(r.t) BY <2>1, <1>2, <1>6, Zenon DEF Finite, Table
  <2>5. r.free + Tree(r.t) = m.free + Tree(m.t) /\ r.free + 2 >= m.free
    BY <2>1, <1>2, <1>3, <1>6 DEF Tree, Table
  <2>6. ~(m.free >= 2) BY <1>8, <1>2, <1>3, <1>6
  <2>7. r.t.leaf = m.t.leaf /\ r.t.user = m.t.user /\ r.t.root = m.t.root /\ r.panic = m.panic /\ ~r.ok
    BY <2>1, <1>6 DEF Table
  <2> QED BY <2>3, <2>4, <2>5, <2>6, <2>7, Zenon DEF r, Mapped
<1> QED BY <1>7, <1>8, Zenon
(* A page of user memory at the end of a space of n pages. *)
Added(m, n, user, r) ==
  /\ r \in Memory /\ r.panic = m.panic
  /\ r.ok => /\ Maps(r.t, n + 1) /\ r.free + Tree(r.t) + 1 = m.free + Tree(m.t)
             /\ r.t.user = IF user THEN m.t.user \cup {n} ELSE m.t.user
  /\ ~r.ok => Maps(r.t, n) /\ r.free + Tree(r.t) = m.free + Tree(m.t) /\ r.t.user = m.t.user
  /\ m.free >= 3 => r.ok

(* What Added says holds of uvmalloc's and uvmcopy's loop bodies.          *)
LEMMA PageAdded ==
  ASSUME Counting, NEW m \in Memory, NEW n \in Nat, n < TRAPFRAME, Maps(m.t, n), NEW user \in BOOLEAN
  PROVE  Added(m, n, user, NewPage(m, n, user))
<1> DEFINE r == NewPage(m, n, user)
           m0 == [m EXCEPT !.free = @ - 1]
           s == mappages(m0, n, user)
<1>1. m.free \in Nat /\ m.t \in Table /\ m.panic \in BOOLEAN /\ m.ok \in BOOLEAN BY Zenon DEF Memory
<1>2. r = IF m.free = 0 THEN [m EXCEPT !.ok = FALSE] ELSE IF s.ok THEN s ELSE [s EXCEPT !.free = @ + 1]
  BY Zenon DEF NewPage
<1>3. CASE m.free = 0
  <2>1. r = [t |-> m.t, free |-> 0, ok |-> FALSE, panic |-> m.panic]
    BY <1>2, <1>3, ZenonT(30) DEF Memory
  <2>2. r \in Memory BY <2>1, <1>1, IsMemory, ZenonT(30)
  <2> QED BY <2>1, <2>2, <1>3 DEF Added
<1>4. CASE m.free # 0
  <2>1. m0 = [t |-> m.t, free |-> m.free - 1, ok |-> m.ok, panic |-> m.panic] BY DEF Memory
  <2>2. m.free - 1 \in Nat BY <1>1, <1>4
  <2>3. m0 \in Memory BY <2>1, <2>2, <1>1, IsMemory
  <2>4. m0.t = m.t /\ m0.free = m.free - 1 /\ m0.panic = m.panic BY <2>1, Zenon
  <2>5. Finite(m0.t) BY <2>4, Zenon DEF Maps
  <2> HIDE DEF m0
  <2>6. Mapped(m0, n, user, s) BY <2>3, <2>5, MapPage, Zenon
  <2> HIDE DEF s
  <2>7. s.free \in Nat /\ s.t \in Table /\ s.panic \in BOOLEAN BY <2>6, Zenon DEF Memory, Mapped
  <2>8. CASE s.ok
    <3>1. r = s BY <1>2, <1>4, <2>8, Zenon
    <3>2. n \notin m.t.leaf BY Constants DEF Maps, Low
    <3>3. s.panic = m.panic BY <2>4, <2>6, <2>8, <3>2, <1>1, Zenon DEF Mapped
    <3>4. Low(n) \cup {n} = Low(n + 1) BY DEF Low
    <3>5. Maps(s.t, n + 1) BY <2>4, <2>6, <2>7, <2>8, <3>4, Zenon DEF Maps, Mapped
    <3>6. s.free + Tree(s.t) + 1 = m.free + Tree(m.t)
      <4>1. Tree(m.t) \in Int /\ Tree(s.t) \in Int BY <2>6, SizeType DEF Maps, Finite, Tree, Mapped
      <4> QED BY <2>4, <2>6, <2>7, <4>1, <1>1 DEF Mapped
    <3> HIDE DEF r
    <3> QED BY <3>1, <3>3, <3>5, <3>6, <2>4, <2>6, <2>8, Zenon DEF r, Added, Mapped
  <2>9. CASE ~s.ok
    <3>1. r = [t |-> s.t, free |-> s.free + 1, ok |-> s.ok, panic |-> s.panic]
      BY <1>2, <1>4, <2>9, <2>6, Zenon DEF Memory, Mapped
    <3>2. s.free + 1 \in Nat /\ s.ok \in BOOLEAN BY <2>6, <2>7 DEF Memory, Mapped
    <3>3. r \in Memory BY <3>1, <3>2, <2>7, IsMemory, Zenon
    <3>4. r.t = s.t /\ r.free = s.free + 1 /\ ~r.ok /\ r.panic = s.panic BY <3>1, <2>9
    <3> HIDE DEF r
    <3>5. Maps(s.t, n) BY <2>4, <2>6, <2>7, <2>9, Zenon DEF Maps, Mapped
    <3>6. s.free + 1 + Tree(s.t) = m.free + Tree(m.t)
      <4>1. Tree(m.t) \in Int /\ Tree(s.t) \in Int BY <2>6, SizeType DEF Maps, Finite, Tree, Mapped
      <4> QED BY <2>4, <2>6, <2>7, <4>1, <1>1 DEF Mapped
    <3>7. ~(m.free >= 3) BY <2>4, <2>6, <2>9, <1>1 DEF Mapped
    <3> QED BY <3>3, <3>4, <3>5, <3>6, <3>7, <2>4, <2>6, <2>9, Zenon DEF r, Added, Mapped
  <2> QED BY <2>8, <2>9, Zenon
<1> QED BY <1>3, <1>4, Zenon

(* A space of n pages loses the pages from k up. *)
Removed(m, n, k, r) ==
  /\ r \in Memory /\ r.panic = m.panic /\ r.free = m.free + (n - k)
  /\ Maps(r.t, k) /\ Tree(r.t) = Tree(m.t) /\ r.t.user = m.t.user \cap Low(k)

(* What Removed says holds of uvmunmap with do_free. *)
LEMMA PagesRemoved ==
  ASSUME Counting, NEW m \in Memory, NEW n \in Nat, n <= TRAPFRAME, Maps(m.t, n), NEW k \in Nat, k <= n
  PROVE  Removed(m, n, k, uvmunmap(m, k .. n - 1, TRUE))
<1> DEFINE vs == k .. n - 1
           r == uvmunmap(m, vs, TRUE)
<1>1. m.free \in Nat /\ m.t \in Table /\ m.panic \in BOOLEAN /\ m.ok \in BOOLEAN BY Zenon DEF Memory
<1>2. Cardinality(vs) = n - k BY IntervalSize, Zenon
<1>3. vs \subseteq m.t.leaf BY DEF Maps, Low
<1> DEFINE t == [root |-> m.t.root, mid |-> m.t.mid, tab |-> m.t.tab, leaf |-> m.t.leaf \ vs, user |-> m.t.user \ vs]
<1>4. r = [t |-> t, free |-> m.free + (n - k), ok |-> m.ok, panic |-> m.panic]
  <2>1. (m.panic \/ ~(vs \subseteq m.t.leaf)) = m.panic BY <1>1, <1>3, Zenon
  <2> HIDE DEF vs
  <2>2. r = [m EXCEPT !.t.leaf = @ \ vs, !.t.user = @ \ vs, !.free = @ + (n - k), !.panic = m.panic]
    BY <2>1, <1>2, ZenonT(30) DEF uvmunmap
  <2> HIDE DEF r
  <2>3. r.t = t BY <2>2, <1>1, ZenonT(30) DEF Memory, Table
  <2> HIDE DEF t
  <2> QED BY <2>2, <2>3, <1>1, ZenonT(30) DEF Memory
<1>5. t \in Table BY <1>1, Zenon DEF Table
<1>6. m.t.leaf \ vs = Low(k) \cup {TRAMPOLINE, TRAPFRAME} BY Constants DEF Maps, Low
<1>7. m.t.user \ vs = m.t.user \cap Low(k) BY DEF Maps, Low
<1>8. /\ t.root /\ t.mid = m.t.mid /\ t.tab = m.t.tab
      /\ t.leaf = Low(k) \cup {TRAMPOLINE, TRAPFRAME} /\ t.user = m.t.user \cap Low(k)
  BY <1>6, <1>7, Zenon DEF Maps
<1> HIDE DEF t
<1>9. Maps(t, k) /\ Tree(t) = Tree(m.t) BY <1>5, <1>8, Zenon DEF Maps, Finite, Tree
<1>10. m.free + (n - k) \in Nat BY <1>1
<1>11. r \in Memory BY <1>1, <1>4, <1>5, <1>10, IsMemory, ZenonT(30)
<1> HIDE DEF r
<1>12. r.t = t /\ r.free = m.free + (n - k) /\ r.panic = m.panic BY <1>4, Zenon
<1> QED BY <1>8, <1>9, <1>11, <1>12, ZenonT(30) DEF r, Removed

(* uvmdealloc, for sizes that need not be whole pages. *)
LEMMA Dealloc ==
  ASSUME Counting, NEW m \in Memory, NEW oldsz \in Nat, NEW newsz \in Nat,
         Pages(newsz) <= Pages(oldsz), Pages(oldsz) <= TRAPFRAME, Maps(m.t, Pages(oldsz))
  PROVE  Removed(m, Pages(oldsz), Pages(newsz), uvmdealloc(m, oldsz, newsz))
<1>1. Pages(newsz) \in Nat /\ Pages(oldsz) \in Nat BY PagesRight, Zenon
<1>2. CASE newsz >= oldsz
  <2>1. Pages(newsz) = Pages(oldsz) BY <1>1, <1>2, PagesMonotonic
  <2>2. uvmdealloc(m, oldsz, newsz) = m BY <1>2, Zenon DEF uvmdealloc
  <2>3. m.t.user \cap Low(Pages(oldsz)) = m.t.user BY Zenon DEF Maps
  <2>4. m.free \in Nat BY Zenon DEF Memory
  <2>5. m.free = m.free + (Pages(oldsz) - Pages(newsz)) BY <2>1, <2>4, <1>1
  <2> QED BY <2>1, <2>2, <2>3, <2>5, Zenon DEF Removed
<1>3. CASE ~(newsz >= oldsz)
  <2>1. uvmdealloc(m, oldsz, newsz) = uvmunmap(m, Pages(newsz) .. Pages(oldsz) - 1, TRUE)
    BY <1>3, Zenon DEF uvmdealloc
  <2> QED BY <2>1, <1>1, PagesRemoved, ZenonT(30)
<1> QED BY <1>2, <1>3, Zenon

(* freewalk frees all of a tree, and panics on a leaf only. *)
LEMMA FreeWalk ==
  ASSUME Counting, NEW m \in Memory, Finite(m.t)
  PROVE  LET r == freewalk(m) IN
         /\ r.t = NoTable /\ r.free \in Nat /\ r.free = m.free + Tree(m.t) /\ r.ok = m.ok
         /\ m.t.leaf = {} => r.panic = m.panic
<1>1. m.free \in Nat /\ m.t \in Table /\ m.panic \in BOOLEAN /\ m.ok \in BOOLEAN BY Zenon DEF Memory
<1>2. Cardinality(m.t.mid) \in Nat /\ Cardinality(m.t.tab) \in Nat BY SizeType, Zenon DEF Finite
<1> DEFINE f == m.free + 1 + Cardinality(m.t.mid) + Cardinality(m.t.tab)
<1>3. f \in Nat /\ f = m.free + Tree(m.t) BY <1>1, <1>2 DEF Tree
<1> HIDE DEF f
<1>4. freewalk(m) = [m EXCEPT !.t = NoTable, !.free = f, !.panic = m.panic \/ m.t.leaf # {}]
  BY Zenon DEF freewalk, f
<1>5. freewalk(m) = [t |-> NoTable, free |-> f, ok |-> m.ok, panic |-> m.panic \/ m.t.leaf # {}]
  BY <1>4, ZenonT(30) DEF Memory
<1>6. m.t.leaf = {} => (m.panic \/ m.t.leaf # {}) = m.panic BY <1>1, Zenon
<1> QED BY <1>3, <1>5, <1>6

(* proc_freepagetable of a space of size bytes frees all it holds. *)
Freed(m, n, r) == r.free \in Nat /\ r.free = m.free + Tree(m.t) + n /\ r.panic = m.panic

(* What Freed says holds of proc_freepagetable. *)
LEMMA TableFreed ==
  ASSUME Counting, NEW m \in Memory, NEW size \in Nat, Pages(size) <= TRAPFRAME, Maps(m.t, Pages(size))
  PROVE  Freed(m, Pages(size), proc_freepagetable(m, size))
<1> DEFINE n == Pages(size)
           m1 == uvmunmap(m, {TRAMPOLINE, TRAPFRAME}, FALSE)
           m2 == uvmunmap(m1, 0 .. n - 1, TRUE)
           t1 == [m.t EXCEPT !.leaf = Low(n)]
           t2 == [m.t EXCEPT !.leaf = {}, !.user = {}]
<1>1. m.free \in Nat /\ m.t \in Table /\ m.panic \in BOOLEAN /\ m.ok \in BOOLEAN BY Zenon DEF Memory
<1>2. n \in Nat BY PagesRight, Zenon
<1> HIDE DEF n
<1>3. m1 = [t |-> t1, free |-> m.free, ok |-> m.ok, panic |-> m.panic]
  <2>1. m.t.leaf \ {TRAMPOLINE, TRAPFRAME} = Low(n) BY <1>2, Constants DEF Maps, Low, n
  <2>2. m.t.user \ {TRAMPOLINE, TRAPFRAME} = m.t.user BY <1>2, Constants DEF Maps, Low, n
  <2>3. (m.panic \/ ~({TRAMPOLINE, TRAPFRAME} \subseteq m.t.leaf)) = m.panic BY <1>1, Zenon DEF Maps
  <2>4. m1 = [m EXCEPT !.t.leaf = Low(n), !.t.user = m.t.user, !.panic = m.panic]
    BY <2>1, <2>2, <2>3, <1>1, ZenonT(30) DEF uvmunmap, Memory, Table
  <2> HIDE DEF m1
  <2>5. m1.t = t1 BY <2>4, <1>1, ZenonT(30) DEF Memory, Table
  <2> HIDE DEF t1
  <2> QED BY <2>4, <2>5, <1>1, ZenonT(30) DEF Memory
<1>4. m2 = [t |-> t2, free |-> m.free + n, ok |-> m.ok, panic |-> m.panic]
  <2>1. Cardinality(0 .. n - 1) = n BY <1>2, IntervalSize
  <2>2. /\ m1.t.leaf = Low(n) /\ m1.t.user = m.t.user /\ m1.t = t1
        /\ m1.free = m.free /\ m1.panic = m.panic /\ m1.ok = m.ok
    <3>1. t1.leaf = Low(n) /\ t1.user = m.t.user BY <1>1, Zenon DEF Table
    <3> HIDE DEF m1, t1
    <3> QED BY <1>3, <3>1, Zenon
  <2>3. m.t.user \ (0 .. n - 1) = {} /\ Low(n) \ (0 .. n - 1) = {} BY Zenon DEF Maps, Low, n
  <2>4. (m1.panic \/ ~(0 .. n - 1 \subseteq m1.t.leaf)) = m.panic BY <1>1, <2>2, ZenonT(30) DEF Low
  <2>5. m1 \in Memory
    <3>1. t1 \in Table BY <1>1, <1>2 DEF Table, Low
    <3> QED BY <3>1, <1>1, <1>3, IsMemory, ZenonT(30)
  <2> HIDE DEF m1
  <2>6. m2 = [m1 EXCEPT !.t.leaf = {}, !.t.user = {}, !.free = m.free + n, !.panic = m.panic]
    BY <2>1, <2>2, <2>3, <2>4, <2>5, ZenonT(30) DEF uvmunmap, Memory, Table
  <2> HIDE DEF m2
  <2>7. m2.t = t2 BY <2>2, <2>5, <2>6, <1>1, ZenonT(30) DEF Memory, Table
  <2> HIDE DEF t1, t2
  <2> QED BY <2>2, <2>5, <2>6, <2>7, ZenonT(30) DEF Memory
<1> HIDE DEF m2
<1>5. t2 \in Table /\ Finite(t2) /\ t2.leaf = {} /\ Tree(t2) = Tree(m.t)
  BY <1>1, ZenonT(30) DEF Table, Finite, Tree, Maps
<1> HIDE DEF t2
<1>6. m.free + n \in Nat BY <1>1, <1>2
<1>7. m2 \in Memory BY <1>1, <1>4, <1>5, <1>6, IsMemory, Zenon
<1>8. m2.t = t2 /\ m2.free = m.free + n /\ m2.panic = m.panic BY <1>4, Zenon
<1> DEFINE r == freewalk(m2)
<1>9. r.free \in Nat /\ r.free = m2.free + Tree(m2.t) /\ r.panic = m2.panic
  BY <1>5, <1>7, <1>8, FreeWalk, Zenon
<1>10. proc_freepagetable(m, size) = r BY Zenon DEF proc_freepagetable, uvmfree, m2, n
<1>11. Tree(m.t) \in Int BY SizeType DEF Maps, Finite, Tree
<1> HIDE DEF r
<1> QED BY <1>1, <1>2, <1>5, <1>8, <1>9, <1>10, <1>11 DEF Freed, n
(* proc_pagetable: the two pages that are not the user's, or nothing. *)
Created(free, r) ==
  /\ r.ok \in BOOLEAN /\ r.panic = FALSE /\ r.free \in Nat
  /\ r.ok => r \in Memory /\ Maps(r.t, 0) /\ r.t.user = {} /\ r.free + Tree(r.t) = free /\ r.free + 5 >= free
  /\ ~r.ok => r.t = NoTable /\ r.free = free
  /\ free >= 5 => r.ok

(* What Created says holds of proc_pagetable. *)
LEMMA TableCreated ==
  ASSUME Counting, NEW free \in Nat
  PROVE  Created(free, proc_pagetable(free))
<1> DEFINE m0 == [t |-> NoTable, free |-> free, ok |-> FALSE, panic |-> FALSE]
           n0 == [m0 EXCEPT !.t.root = TRUE, !.free = @ - 1]
           m1 == mappages(n0, TRAMPOLINE, FALSE)
           m2 == mappages(m1, TRAPFRAME, FALSE)
           u2 == uvmunmap(m2, {TRAMPOLINE}, FALSE)
           r == proc_pagetable(free)
<1>1. r = IF free = 0 THEN m0 ELSE IF ~m1.ok THEN freewalk(m1) ELSE IF ~m2.ok THEN freewalk(u2) ELSE m2
  BY Zenon DEF proc_pagetable
<1>2. CASE free = 0
  <2>1. r = m0 BY <1>1, <1>2, Zenon
  <2> QED BY <2>1, <1>2 DEF Created
<1>3. CASE free # 0
  <2> DEFINE e == [NoTable EXCEPT !.root = TRUE]
  <2>1. n0 = [t |-> e, free |-> free - 1, ok |-> FALSE, panic |-> FALSE]
    <3>1. n0 = [m0 EXCEPT !.t = e, !.free = free - 1] OBVIOUS
    <3> HIDE DEF n0, e
    <3> QED BY <3>1, ZenonT(30)
  <2>2. e \in Table /\ Finite(e) /\ Tree(e) = 1
    <3>1. e \in Table BY NoTableRight, ZenonT(30) DEF Table
    <3>2. e.mid = {} /\ e.tab = {} BY NoTableRight, Zenon DEF Table
    <3> HIDE DEF e
    <3>3. IsFiniteSet(e.mid) /\ IsFiniteSet(e.tab) /\ Cardinality(e.mid) = 0 /\ Cardinality(e.tab) = 0
      BY <3>2, SmallSize, ZenonT(30)
    <3> QED BY <3>1, <3>3 DEF Finite, Tree
  <2>3. e.leaf = {} /\ e.user = {} /\ e.root BY NoTableRight, Zenon DEF Table
  <2> HIDE DEF e
  <2>4. free - 1 \in Nat BY <1>3
  <2>5. n0 \in Memory BY <2>1, <2>2, <2>4, IsMemory, ZenonT(30)
  <2>6. n0.t = e /\ n0.free = free - 1 /\ n0.panic = FALSE BY <2>1, ZenonT(30)
  <2> HIDE DEF n0
  <2>7. Mapped(n0, TRAMPOLINE, FALSE, m1) 
    <3>1. TRAMPOLINE \in Nat BY Constants
    <3>2. Finite(n0.t) BY <2>2, <2>6, Zenon
    <3> QED BY <2>5, <3>1, <3>2, MapPage, ZenonT(30)
  <2> HIDE DEF m1
  <2>8. m1 \in Memory /\ Finite(m1.t) /\ m1.free \in Nat /\ Tree(m1.t) \in Int
    BY <2>7, SizeType DEF Mapped, Memory, Finite, Tree
  <2>9. m1.free + Tree(m1.t) = free /\ m1.free + 3 >= free BY <2>2, <2>6, <2>7, <2>8 DEF Mapped
  <2>10. CASE ~m1.ok
    <3>1. r = freewalk(m1) BY <1>1, <1>3, <2>10, Zenon
    <3>2. m1.t.leaf = {} /\ m1.panic = FALSE BY <2>3, <2>6, <2>7, <2>10, Zenon DEF Mapped
    <3>3. /\ r.t = NoTable /\ r.free \in Nat /\ r.free = m1.free + Tree(m1.t) /\ r.ok = m1.ok
          /\ m1.t.leaf = {} => r.panic = m1.panic
      BY <3>1, <2>8, FreeWalk, Zenon
    <3>4. ~(free >= 5) BY <2>6, <2>7, <2>10 DEF Mapped
    <3> HIDE DEF r
    <3> QED BY <3>2, <3>3, <3>4, <2>8, <2>9, <2>10, Zenon DEF Created, r, Memory
  <2>11. CASE m1.ok
    <3>1. m1.t.leaf = {TRAMPOLINE} /\ m1.t.user = {} /\ m1.t.root /\ m1.panic = FALSE
      BY <2>3, <2>6, <2>7, <2>11, ZenonT(30) DEF Mapped
    <3>2. Mapped(m1, TRAPFRAME, FALSE, m2) BY <2>8, Constants, MapPage, ZenonT(30)
    <3> HIDE DEF m2
    <3>3. m2 \in Memory /\ Finite(m2.t) /\ m2.free \in Nat /\ Tree(m2.t) \in Int /\ m2.t.root
      BY <3>1, <3>2, SizeType DEF Mapped, Memory, Finite, Tree
    <3>4. m2.free + Tree(m2.t) = free /\ m2.free + 5 >= free BY <2>8, <2>9, <3>2, <3>3 DEF Mapped
    <3>5. CASE ~m2.ok
      <4>1. r = freewalk(u2) BY <1>1, <1>3, <2>11, <3>5, Zenon
      <4>2. m2.t.leaf = {TRAMPOLINE} /\ m2.panic = FALSE BY <3>1, <3>2, <3>5, Zenon DEF Mapped
      <4>3. /\ u2 \in Memory /\ Finite(u2.t) /\ u2.t.leaf = {} /\ u2.panic = FALSE
            /\ u2.ok = m2.ok /\ u2.free = m2.free /\ Tree(u2.t) = Tree(m2.t)
        <5> DEFINE t == [m2.t EXCEPT !.leaf = {}, !.user = m2.t.user \ {TRAMPOLINE}]
        <5>1. m2.t \in Table /\ m2.ok \in BOOLEAN BY <3>3, Zenon DEF Memory
        <5>2. t \in Table /\ t.leaf = {} /\ t.mid = m2.t.mid /\ t.tab = m2.t.tab
          BY <5>1, ZenonT(30) DEF Table
        <5>3. m2.t.leaf \ {TRAMPOLINE} = {} BY <4>2, Zenon
        <5>4. (m2.panic \/ ~({TRAMPOLINE} \subseteq m2.t.leaf)) = FALSE BY <4>2, Zenon
        <5>5. u2 = [m2 EXCEPT !.t.leaf = {}, !.t.user = m2.t.user \ {TRAMPOLINE}, !.panic = FALSE]
          BY <5>1, <5>3, <5>4, <3>3, ZenonT(30) DEF uvmunmap, Memory, Table
        <5> HIDE DEF u2
        <5>6. u2.t = t BY <5>1, <5>5, <3>3, Zenon DEF Memory, Table
        <5> HIDE DEF t
        <5>7. u2 = [t |-> t, free |-> m2.free, ok |-> m2.ok, panic |-> FALSE]
          BY <5>5, <5>6, <3>3, ZenonT(30) DEF Memory
        <5>8. u2 \in Memory BY <5>1, <5>2, <5>7, <3>3, IsMemory, ZenonT(30)
        <5>9. u2.panic = FALSE /\ u2.ok = m2.ok /\ u2.free = m2.free BY <5>7, Zenon
        <5> QED BY <5>2, <5>6, <5>8, <5>9, <3>3, Zenon DEF Finite, Tree
      <4> HIDE DEF u2
      <4>4. /\ r.t = NoTable /\ r.free \in Nat /\ r.free = u2.free + Tree(u2.t) /\ r.ok = u2.ok
            /\ u2.t.leaf = {} => r.panic = u2.panic
        BY <4>1, <4>3, FreeWalk, Zenon
      <4>5. ~(free >= 5) BY <2>8, <2>9, <3>2, <3>5 DEF Mapped
      <4> HIDE DEF r
      <4> QED BY <4>3, <4>4, <4>5, <3>3, <3>4, <3>5, Zenon DEF Created, r, Memory
    <3>6. CASE m2.ok
      <4>1. r = m2 BY <1>1, <1>3, <2>11, <3>6, Zenon
      <4>2. TRAPFRAME \notin m1.t.leaf BY <3>1, Constants
      <4>3. m2.panic = FALSE /\ m2.t.user = {} /\ m2.t.leaf = {TRAMPOLINE, TRAPFRAME}
        BY <3>1, <3>2, <3>6, <4>2, ZenonT(30) DEF Mapped
      <4>4. Low(0) = {} BY DEF Low
      <4>5. Maps(m2.t, 0) BY <3>3, <4>3, <4>4, Zenon DEF Maps, Memory
      <4> HIDE DEF r
      <4> QED BY <4>1, <4>3, <4>5, <3>3, <3>4, <3>6, Zenon DEF Created, r
    <3> QED BY <3>5, <3>6, Zenon
  <2> QED BY <2>10, <2>11, Zenon
<1> QED BY <1>2, <1>3, Zenon
-----------------------------------------------------------------------------
(* The pages of a whole table. *)
LEMMA OwnRight ==
  ASSUME Counting, NEW t, NEW n \in Nat, n <= TRAPFRAME, Maps(t, n)
  PROVE  Tree(t) \in Nat /\ Own(t) = Tree(t) + n
<1>1. t.leaf \ {TRAMPOLINE, TRAPFRAME} = 0 .. n - 1 BY Constants DEF Maps, Low
<1>2. Cardinality(0 .. n - 1) = n BY IntervalSize
<1>3. Cardinality(t.mid) \in Nat /\ Cardinality(t.tab) \in Nat BY SizeType, Zenon DEF Maps, Finite
<1>4. t.root BY Zenon DEF Maps
<1>5. Own(t) = 1 + Cardinality(t.mid) + Cardinality(t.tab) + n
  BY <1>1, <1>2, <1>4, ZenonT(30) DEF Own
<1> QED BY <1>3, <1>5 DEF Tree
-----------------------------------------------------------------------------
(* A step changes entries p and c only. *)
Only(p, c) ==
  /\ OnProcs(st') /\ OnProcs(pt') /\ OnProcs(sz') /\ OnProcs(loc')
  /\ \A q \in Procs \ {p, c} : st'[q] = st[q] /\ pt'[q] = pt[q] /\ sz'[q] = sz[q] /\ loc'[q] = loc[q]

(* A step of a live process p, which may change its child c too (or else   *)
(* c is p itself), and in which only the pages of c change: what has to be *)
(* shown about these two.                                                  *)
LEMMA StepRight ==
  ASSUME Counting, VmInv, NEW p \in Procs, NEW c \in Procs, Only(p, c),
         nfree' \in Nat, panicked' = FALSE, st[p] = "live",
         \A q \in Procs \ {p} : loc[q].pc = "copy" => loc[q].child # c,
         Entry(st'[p], pt'[p], sz'[p], loc'[p]), Entry(st'[c], pt'[c], sz'[c], loc'[c]),
         ChildRight(p)', loc'[p].pc = "copy" => loc'[p].child = c,
         c # p => loc'[c].pc # "copy" /\ Hold(st'[p], pt'[p], loc'[p]) = Hold(st[p], pt[p], loc[p]),
         nfree' + Hold(st'[c], pt'[c], loc'[c]) = nfree + Hold(st[c], pt[c], loc[c])
  PROVE  VmInv'
<1>1. ASSUME NEW q \in Procs
      PROVE  Entry(st'[q], pt'[q], sz'[q], loc'[q])
  BY Zenon DEF Only, VmInv
<1>2. ASSUME NEW q \in Procs
      PROVE  ChildRight(q)'
  <2>1. CASE q = p BY <2>1, Zenon
  <2>2. CASE q # p /\ q = c BY <2>2, Zenon DEF ChildRight
  <2>3. CASE q \in Procs \ {p, c}
    <3>1. st'[q] = st[q] /\ pt'[q] = pt[q] /\ sz'[q] = sz[q] /\ loc'[q] = loc[q] BY <2>3, Zenon DEF Only
    <3>2. SUFFICES ASSUME loc[q].pc = "copy" PROVE ChildRight(q)' BY <3>1, Zenon DEF ChildRight
    <3> DEFINE d == loc[q].child
    <3>3. d \in Procs BY Zenon DEF VmInv, Entry, Place
    <3>4. ChildRight(q) BY Zenon DEF VmInv
    <3>5. d # p /\ d # c BY <2>3, <3>2, <3>4, ZenonT(30) DEF ChildRight
    <3>6. st'[d] = st[d] /\ pt'[d] = pt[d] BY <3>3, <3>5, Zenon DEF Only
    <3> QED BY <3>1, <3>2, <3>4, <3>6, Zenon DEF ChildRight
  <2> QED BY <2>1, <2>2, <2>3, Zenon
<1>3. ChildrenApart'
  <2>1. SUFFICES ASSUME NEW q \in Procs, NEW r \in Procs, q # r, loc'[q].pc = "copy", loc'[r].pc = "copy"
                 PROVE  loc'[q].child # loc'[r].child
    BY Zenon DEF ChildrenApart
  <2>2. ASSUME NEW x \in Procs \ {p}, loc'[x].pc = "copy" PROVE loc'[x] = loc[x] /\ loc'[x].child # c
    BY <2>2, Zenon DEF Only
  <2>3. CASE q = p BY <2>1, <2>2, <2>3, Zenon
  <2>4. CASE r = p BY <2>1, <2>2, <2>4, Zenon
  <2>5. CASE q # p /\ r # p BY <2>1, <2>2, <2>5, ZenonT(30) DEF VmInv, ChildrenApart
  <2> QED BY <2>3, <2>4, <2>5, Zenon
<1>4. nfree' + Cardinality(HeldPages') = NPAGES
  <2> DEFINE f == [q \in Procs |-> Hold(st[q], pt[q], loc[q])]
             g == [q \in Procs |-> Hold(st'[q], pt'[q], loc'[q])]
  <2>1. f \in [Procs -> Nat] /\ g \in [Procs -> Nat] BY <1>1, Zenon DEF VmInv, Entry
  <2>2. \A q \in Procs \ {c} : g[q] = f[q] BY Zenon DEF Only
  <2>3. HeldPages = Tally(f) /\ HeldPages' = Tally(g) BY Zenon DEF HeldPages, Held, Hold, Tally
  <2>4. f[c] = Hold(st[c], pt[c], loc[c]) /\ g[c] = Hold(st'[c], pt'[c], loc'[c]) OBVIOUS
  <2>5. f[c] \in Nat /\ g[c] \in Nat BY <2>1, Zenon
  <2> HIDE DEF f, g
  <2>6. /\ Cardinality(Tally(f)) \in Nat /\ Cardinality(Tally(g)) \in Nat
        /\ Cardinality(Tally(g)) + f[c] = Cardinality(Tally(f)) + g[c]
    BY <2>1, <2>2, TallyChanges, Zenon
  <2>7. nfree \in Nat /\ nfree + Cardinality(Tally(f)) = NPAGES BY <2>3, Zenon DEF VmInv
  <2>8. nfree' + g[c] = nfree + f[c] BY <2>4, Zenon
  <2>9. nfree' + Cardinality(Tally(g)) = NPAGES
    <3> DEFINE x == Cardinality(Tally(f))
               y == Cardinality(Tally(g))
    <3>1. x \in Nat /\ y \in Nat /\ y + f[c] = x + g[c] /\ nfree + x = NPAGES BY <2>6, <2>7, Zenon
    <3> HIDE DEF x, y
    <3>2. nfree' + y = NPAGES BY ONLY <3>1, <2>5, <2>7, <2>8, nfree' \in Nat, SMTT(30)
    <3> QED BY <3>2, Zenon DEF y
  <2> QED BY <2>3, <2>9, Zenon
<1> QED BY <1>1, <1>2, <1>3, <1>4, Zenon DEF VmInv, Only

(* The same for a step that changes the entry of p only. *)
LEMMA OwnStepRight ==
  ASSUME Counting, VmInv, NEW p \in Procs, Only(p, p),
         nfree' \in Nat, panicked' = FALSE, st[p] = "live",
         Entry(st'[p], pt'[p], sz'[p], loc'[p]), loc'[p].pc # "copy",
         nfree' + Hold(st'[p], pt'[p], loc'[p]) = nfree + Hold(st[p], pt[p], loc[p])
  PROVE  VmInv'
<1>1. \A q \in Procs \ {p} : loc[q].pc = "copy" => loc[q].child # p BY Zenon DEF VmInv, ChildRight
<1>2. ChildRight(p)' BY Zenon DEF ChildRight
<1> QED BY <1>1, <1>2, StepRight, ZenonT(30)

(* What the invariant says of a process that makes a step. *)
LEMMA EntryFacts ==
  ASSUME VmInv, NEW p \in Procs
  PROVE  /\ Entry(st[p], pt[p], sz[p], loc[p]) /\ loc[p] \in Place /\ pt[p] \in Table
         /\ sz[p] \in Nat /\ Pages(sz[p]) \in Nat /\ Pages(sz[p]) <= TRAPFRAME
         /\ loc[p].pc # "user" => st[p] = "live"
         /\ nfree \in Nat /\ panicked = FALSE
         /\ Mem(pt[p]) \in Memory /\ Mem(loc[p].t) \in Memory
<1>1. Entry(st[p], pt[p], sz[p], loc[p]) BY Zenon DEF VmInv
<1>2. loc[p] \in Place /\ pt[p] \in Table BY <1>1, Zenon DEF Entry
<1>3. sz[p] \in Nat /\ sz[p] <= PGSIZE * TRAPFRAME
  <2>1. sz[p] \in 0 .. PGSIZE * TRAPFRAME BY <1>1, Zenon DEF Entry
  <2>2. PGSIZE * TRAPFRAME \in Nat BY Constants
  <2> QED BY <2>1, <2>2
<1>4. Pages(sz[p]) \in Nat /\ Pages(sz[p]) <= TRAPFRAME BY <1>3, PagesRight, PagesFit, Zenon
<1>5. loc[p].pc # "user" => st[p] = "live" BY <1>1 DEF Entry, User
<1>6. nfree \in Nat /\ panicked = FALSE BY Zenon DEF VmInv
<1>7. loc[p].t \in Table BY <1>2, Zenon DEF Place
<1>8. Mem(pt[p]) \in Memory /\ Mem(loc[p].t) \in Memory
  BY <1>2, <1>6, <1>7, IsMemory, ZenonT(30) DEF Mem
<1> QED BY <1>1, <1>2, <1>3, <1>4, <1>5, <1>6, <1>8, Zenon
-----------------------------------------------------------------------------
(* A process in user space is in no call and builds no table. *)
LEMMA UserPlace == User \in Place /\ User.pc = "user" /\ User.t = NoTable
<1>1. init \in Procs /\ 0 \in Nat /\ <<>> \in Seq(1 .. MaxSz) BY Constants
<1>2. User \in Place BY <1>1, NoTableRight, Zenon DEF User, Place
<1> QED BY <1>2, Zenon DEF User

(* A process that builds no image has the pages below its size. *)
LEMMA SettledEntry ==
  ASSUME Counting, NEW t, NEW z \in Nat, z <= PGSIZE * TRAPFRAME, Maps(t, Pages(z)), OneGuard(t, Pages(z)),
         NEW l \in Place, l = User \/ l.pc = "copy", l.t = NoTable
  PROVE  /\ Entry("live", t, z, l)
         /\ Tree(t) \in Nat /\ Hold("live", t, l) = 1 + Tree(t) + Pages(z)
<1>1. Pages(z) \in Nat /\ Pages(z) <= TRAPFRAME BY PagesRight, PagesFit, Zenon
<1>2. Tree(t) \in Nat /\ Own(t) = Tree(t) + Pages(z) BY <1>1, OwnRight, Zenon
<1>3. Hold("live", t, l) = 1 + Tree(t) + Pages(z) BY <1>1, <1>2, NoTableRight DEF Hold
<1>4. z \in 0 .. PGSIZE * TRAPFRAME BY Constants
<1>5. t \in Table BY Zenon DEF Maps
<1>6. l.pc \in {"user", "copy"} BY UserPlace, Zenon
<1>7. ImageRight(t, z, l) /\ NewImageRight(l) BY <1>6, Zenon DEF ImageRight, NewImageRight
<1> QED BY <1>1, <1>2, <1>3, <1>4, <1>5, <1>6, <1>7 DEF Entry

(* What the invariant says of a process whose table is settled. *)
LEMMA SettledFacts ==
  ASSUME Counting, VmInv, NEW p \in Procs, st[p] = "live", loc[p].pc # "grow"
  PROVE  /\ Maps(pt[p], Pages(sz[p])) /\ OneGuard(pt[p], Pages(sz[p])) /\ sz[p] <= PGSIZE * TRAPFRAME
         /\ loc[p].pc \in {"user", "copy"} =>
              /\ (loc[p] = User \/ loc[p].pc = "copy") /\ loc[p].t = NoTable
              /\ Hold(st[p], pt[p], loc[p]) = 1 + Tree(pt[p]) + Pages(sz[p])
<1>1. Entry(st[p], pt[p], sz[p], loc[p]) /\ sz[p] \in Nat /\ loc[p] \in Place
  BY EntryFacts, ZenonT(30)
<1>2. sz[p] <= PGSIZE * TRAPFRAME BY <1>1, Constants DEF Entry
<1>3. Maps(pt[p], Pages(sz[p])) /\ OneGuard(pt[p], Pages(sz[p])) BY <1>1, Zenon DEF Entry, ImageRight
<1>4. loc[p].pc \in {"user", "copy"} => (loc[p] = User \/ loc[p].pc = "copy") /\ loc[p].t = NoTable
  BY <1>1, Zenon DEF Entry, NewImageRight
<1> QED BY <1>1, <1>2, <1>3, <1>4, SettledEntry, Zenon

(* growproc has come to page l.a. *)
LEMMA GrowEntry ==
  ASSUME Counting, NEW t, NEW z \in Nat, z <= PGSIZE * TRAPFRAME, NEW l \in Place, l.pc = "grow", l.t = NoTable,
         Maps(t, l.a), OneGuard(t, l.a), Pages(z) <= l.a, l.a <= Pages(l.to), l.to <= MaxSz
  PROVE  /\ Entry("live", t, z, l) /\ l.a \in Nat /\ l.a + 2 <= TRAPFRAME
         /\ Tree(t) \in Nat /\ Hold("live", t, l) = 1 + Tree(t) + l.a
<1>1. l.a \in Nat /\ l.to \in Nat BY Zenon DEF Place
<1>2. Pages(l.to) <= Pages(MaxSz) /\ Pages(MaxSz) \in Nat /\ Pages(MaxSz) + 2 <= TRAPFRAME /\ Pages(l.to) \in Nat
  BY <1>1, PagesFit, PagesRight, Zenon
<1>3. l.a + 2 <= TRAPFRAME BY <1>1, <1>2, Constants
<1>4. Tree(t) \in Nat /\ Own(t) = Tree(t) + l.a BY <1>1, <1>3, Constants, OwnRight
<1>5. Hold("live", t, l) = 1 + Tree(t) + l.a BY <1>1, <1>4, NoTableRight DEF Hold
<1>6. z \in 0 .. PGSIZE * TRAPFRAME BY Constants
<1>7. t \in Table BY Zenon DEF Maps
<1>8. ImageRight(t, z, l) /\ NewImageRight(l) BY Zenon DEF ImageRight, NewImageRight
<1> QED BY <1>1, <1>3, <1>4, <1>5, <1>6, <1>7, <1>8 DEF Entry

(* A subset of the pages has no more guards. *)
LEMMA GuardKept ==
  ASSUME NEW t, NEW u, NEW n \in Nat, NEW k \in Nat, k <= n, OneGuard(t, n), u.user = t.user \cap Low(k)
  PROVE  OneGuard(u, k)
BY DEF OneGuard, Low
(* growproc(n), n < 0. *)
LEMMA ShrinkRight ==
  ASSUME Counting, VmInv, NEW p \in Procs, NEW n \in 1 .. MaxSz, Shrink(p, n)
  PROVE  VmInv'
<1> DEFINE m0 == Mem(pt[p])
           z == sz[p] - n
           m == uvmdealloc(m0, sz[p], z)
<1>1. /\ st[p] = "live" /\ loc[p].pc = "user" /\ n <= sz[p] /\ nfree' = m.free /\ panicked' = m.panic
      /\ pt' = [pt EXCEPT ![p] = m.t] /\ sz' = [sz EXCEPT ![p] = z] /\ UNCHANGED <<st, loc>>
  BY Zenon DEF Shrink, At, Result
<1>2. /\ Entry(st[p], pt[p], sz[p], loc[p]) /\ sz[p] \in Nat /\ m0 \in Memory /\ loc[p] \in Place
      /\ Pages(sz[p]) \in Nat /\ Pages(sz[p]) <= TRAPFRAME /\ nfree \in Nat /\ panicked = FALSE
  BY EntryFacts, ZenonT(30)
<1>3. /\ Maps(pt[p], Pages(sz[p])) /\ OneGuard(pt[p], Pages(sz[p])) /\ sz[p] <= PGSIZE * TRAPFRAME
      /\ loc[p] = User /\ loc[p].t = NoTable /\ Hold(st[p], pt[p], loc[p]) = 1 + Tree(pt[p]) + Pages(sz[p])
  BY <1>1, SettledFacts, Zenon
<1>4. z \in Nat /\ z <= sz[p] BY <1>1, <1>2, Constants
<1>5. m0.t = pt[p] /\ m0.free = nfree /\ m0.panic = FALSE BY <1>2, Zenon DEF Mem
<1> HIDE DEF m0, z
<1>6. Pages(z) \in Nat /\ Pages(z) <= Pages(sz[p]) BY <1>2, <1>4, PagesRight, PagesMonotonic, Zenon
<1>7. Removed(m0, Pages(sz[p]), Pages(z), m) BY <1>2, <1>3, <1>4, <1>5, <1>6, Dealloc, Zenon
<1> HIDE DEF m
<1>8. OneGuard(m.t, Pages(z)) BY <1>2, <1>3, <1>5, <1>6, <1>7, GuardKept, Zenon DEF Removed
<1>9. z <= PGSIZE * TRAPFRAME BY <1>2, <1>3, <1>4, Constants
<1>10. /\ Entry("live", m.t, z, loc[p])
       /\ Tree(m.t) \in Nat /\ Hold("live", m.t, loc[p]) = 1 + Tree(m.t) + Pages(z)
  BY <1>1, <1>2, <1>3, <1>4, <1>7, <1>8, <1>9, SettledEntry, Zenon DEF Removed
<1>11. OnProcs(st) /\ OnProcs(pt) /\ OnProcs(sz) /\ OnProcs(loc) BY Zenon DEF VmInv
<1>12. Only(p, p) BY <1>1, <1>11, ZenonT(30) DEF Only, OnProcs
<1>13. st'[p] = "live" /\ pt'[p] = m.t /\ sz'[p] = z /\ loc'[p] = loc[p] BY <1>1, <1>11, Zenon DEF OnProcs
<1>14. nfree' \in Nat /\ panicked' = FALSE BY <1>1, <1>5, <1>7, Zenon DEF Removed, Memory
<1>15. nfree' + Hold("live", m.t, loc[p]) = nfree + Hold(st[p], pt[p], loc[p])
  BY <1>1, <1>2, <1>3, <1>5, <1>6, <1>7, <1>10 DEF Removed
<1> QED BY <1>1, <1>10, <1>12, <1>13, <1>14, <1>15, OwnStepRight, ZenonT(30)
(* growproc(n), n > 0, begins. *)
LEMMA GrowRight ==
  ASSUME Counting, VmInv, NEW p \in Procs, NEW n \in 1 .. MaxSz, Grow(p, n)
  PROVE  VmInv'
<1> DEFINE l == [User EXCEPT !.pc = "grow", !.a = Pages(sz[p]), !.to = sz[p] + n]
<1>1. /\ st[p] = "live" /\ loc[p].pc = "user" /\ sz[p] + n <= MaxSz
      /\ loc' = [loc EXCEPT ![p] = l] /\ UNCHANGED <<nfree, st, pt, sz, panicked>>
  BY Zenon DEF Grow, At, Goto
<1>2. sz[p] \in Nat /\ Pages(sz[p]) \in Nat /\ nfree \in Nat /\ panicked = FALSE
  BY EntryFacts, ZenonT(30)
<1>3. /\ Maps(pt[p], Pages(sz[p])) /\ OneGuard(pt[p], Pages(sz[p])) /\ sz[p] <= PGSIZE * TRAPFRAME
      /\ Hold(st[p], pt[p], loc[p]) = 1 + Tree(pt[p]) + Pages(sz[p])
  BY <1>1, SettledFacts, Zenon
<1>4. sz[p] + n \in Nat /\ sz[p] <= sz[p] + n BY <1>2
<1>5. l \in Place /\ l.pc = "grow" /\ l.t = NoTable /\ l.a = Pages(sz[p]) /\ l.to = sz[p] + n
  BY <1>2, <1>4, UserPlace, ZenonT(30) DEF Place
<1> HIDE DEF l
<1>6. Pages(sz[p]) <= Pages(l.to) BY <1>2, <1>4, <1>5, PagesMonotonic, Zenon
<1>7. Entry("live", pt[p], sz[p], l) /\ Hold("live", pt[p], l) = 1 + Tree(pt[p]) + l.a
  BY <1>1, <1>2, <1>3, <1>5, <1>6, GrowEntry
<1>8. OnProcs(st) /\ OnProcs(pt) /\ OnProcs(sz) /\ OnProcs(loc) BY Zenon DEF VmInv
<1>9. Only(p, p) BY <1>1, <1>8, Zenon DEF Only, OnProcs
<1>10. st'[p] = "live" /\ pt'[p] = pt[p] /\ sz'[p] = sz[p] /\ loc'[p] = l BY <1>1, <1>8, Zenon DEF OnProcs
<1> QED BY <1>1, <1>2, <1>3, <1>5, <1>7, <1>9, <1>10, OwnStepRight, ZenonT(30)

(* What the invariant says of a process in growproc. *)
LEMMA GrowFacts ==
  ASSUME Counting, VmInv, NEW p \in Procs, loc[p].pc = "grow"
  PROVE  LET l == loc[p] IN
         /\ st[p] = "live" /\ l \in Place /\ l.a \in Nat /\ l.to \in Nat /\ l.t = NoTable
         /\ sz[p] \in Nat /\ sz[p] <= PGSIZE * TRAPFRAME /\ Pages(sz[p]) \in Nat /\ Pages(sz[p]) <= l.a
         /\ Maps(pt[p], l.a) /\ OneGuard(pt[p], l.a) /\ l.a <= Pages(l.to) /\ l.to <= MaxSz
         /\ l.a + 2 <= TRAPFRAME /\ Tree(pt[p]) \in Nat /\ Hold(st[p], pt[p], l) = 1 + Tree(pt[p]) + l.a
<1> DEFINE l == loc[p]
<1>1. /\ Entry(st[p], pt[p], sz[p], l) /\ sz[p] \in Nat /\ l \in Place /\ st[p] = "live" /\ Pages(sz[p]) \in Nat
  BY EntryFacts, ZenonT(30)
<1>2. sz[p] <= PGSIZE * TRAPFRAME BY <1>1, Constants DEF Entry
<1>3. /\ Pages(sz[p]) <= l.a /\ l.a <= Pages(l.to) /\ l.to <= MaxSz
      /\ Maps(pt[p], l.a) /\ OneGuard(pt[p], l.a)
  BY <1>1, Zenon DEF Entry, ImageRight
<1>4. l.t = NoTable BY <1>1, Zenon DEF Entry, NewImageRight
<1>5. l.a \in Nat /\ l.to \in Nat BY <1>1, Zenon DEF Place
<1> QED BY <1>1, <1>2, <1>3, <1>4, <1>5, GrowEntry, ZenonT(30)

(* One page of growproc, or the undoing of all of them. *)
LEMMA GrowPageRight ==
  ASSUME Counting, VmInv, NEW p \in Procs, GrowPage(p)
  PROVE  VmInv'
<1> DEFINE l == loc[p]
           m0 == Mem(pt[p])
           m == NewPage(m0, l.a, TRUE)
           u == uvmdealloc(m, l.a * PGSIZE, Pages(sz[p]) * PGSIZE)
           next == [l EXCEPT !.a = @ + 1]
<1>1. /\ l.pc = "grow" /\ l.a * PGSIZE < l.to /\ UNCHANGED <<st, sz>>
      /\ \/ /\ m.ok /\ nfree' = m.free /\ panicked' = m.panic
            /\ pt' = [pt EXCEPT ![p] = m.t] /\ loc' = [loc EXCEPT ![p] = next]
         \/ /\ ~m.ok /\ nfree' = u.free /\ panicked' = u.panic
            /\ pt' = [pt EXCEPT ![p] = u.t] /\ loc' = [loc EXCEPT ![p] = User]
  BY ZenonT(30) DEF GrowPage, At, Result, Goto, Return
<1>2. /\ st[p] = "live" /\ l \in Place /\ l.a \in Nat /\ l.to \in Nat /\ l.t = NoTable
      /\ sz[p] \in Nat /\ sz[p] <= PGSIZE * TRAPFRAME /\ Pages(sz[p]) \in Nat /\ Pages(sz[p]) <= l.a
      /\ Maps(pt[p], l.a) /\ OneGuard(pt[p], l.a) /\ l.a <= Pages(l.to) /\ l.to <= MaxSz
      /\ l.a + 2 <= TRAPFRAME /\ Tree(pt[p]) \in Nat /\ Hold(st[p], pt[p], l) = 1 + Tree(pt[p]) + l.a
  BY <1>1, GrowFacts, Zenon
<1>3. nfree \in Nat /\ panicked = FALSE /\ m0 \in Memory BY EntryFacts, ZenonT(30)
<1>4. m0.t = pt[p] /\ m0.free = nfree /\ m0.panic = FALSE BY <1>3, Zenon DEF Mem
<1> HIDE DEF m0
<1>5. Added(m0, l.a, TRUE, m)
  <2>1. l.a < TRAPFRAME /\ Maps(m0.t, l.a) BY <1>2, <1>4, Constants
  <2> QED BY <2>1, <1>2, <1>3, PageAdded, ZenonT(30)
<1> HIDE DEF m
<1>6. m \in Memory /\ m.free \in Nat /\ m.panic = FALSE BY <1>4, <1>5, Zenon DEF Added, Memory
<1>7. OnProcs(st) /\ OnProcs(pt) /\ OnProcs(sz) /\ OnProcs(loc) BY Zenon DEF VmInv
<1>8. CASE m.ok
  <2>1. /\ nfree' = m.free /\ panicked' = m.panic /\ pt' = [pt EXCEPT ![p] = m.t]
        /\ loc' = [loc EXCEPT ![p] = next]
    BY <1>1, <1>8, Zenon
  <2>2. Maps(m.t, l.a + 1) /\ m.free + Tree(m.t) + 1 = nfree + Tree(pt[p]) /\ m.t.user = pt[p].user \cup {l.a}
    BY <1>4, <1>5, <1>8, Zenon DEF Added
  <2>3. next \in Place /\ next.pc = "grow" /\ next.t = NoTable /\ next.a = l.a + 1 /\ next.to = l.to
    <3>1. l.a + 1 \in Nat BY <1>2
    <3> HIDE DEF l
    <3> QED BY <3>1, <1>1, <1>2, Zenon DEF Place
  <2> HIDE DEF next
  <2>4. OneGuard(m.t, next.a) BY <1>2, <2>2, <2>3 DEF OneGuard, Low
  <2>5. next.a <= Pages(next.to)
    <3>1. l.a < Pages(l.to) /\ Pages(l.to) \in Nat BY <1>1, <1>2, PagesRight, Zenon
    <3> QED BY <3>1, <2>3, <1>2
  <2>6. Pages(sz[p]) <= next.a BY <1>2, <2>3
  <2>7. /\ Entry("live", m.t, sz[p], next) /\ Tree(m.t) \in Nat
        /\ Hold("live", m.t, next) = 1 + Tree(m.t) + next.a
    BY <1>2, <2>2, <2>3, <2>4, <2>5, <2>6, GrowEntry
  <2>8. Only(p, p) BY <1>1, <1>7, <2>1, ZenonT(30) DEF Only, OnProcs
  <2>9. st'[p] = "live" /\ pt'[p] = m.t /\ sz'[p] = sz[p] /\ loc'[p] = next
    BY <1>1, <1>2, <1>7, <2>1, Zenon DEF OnProcs
  <2>10. nfree' + Hold("live", m.t, next) = nfree + Hold(st[p], pt[p], l)
    BY <1>2, <1>3, <1>6, <2>1, <2>2, <2>3, <2>7
  <2> QED BY <1>2, <1>6, <2>1, <2>3, <2>7, <2>8, <2>9, <2>10, OwnStepRight, ZenonT(30)
<1>9. CASE ~m.ok
  <2>1. /\ nfree' = u.free /\ panicked' = u.panic /\ pt' = [pt EXCEPT ![p] = u.t]
        /\ loc' = [loc EXCEPT ![p] = User]
    BY <1>1, <1>9, Zenon
  <2>2. Maps(m.t, l.a) /\ m.free + Tree(m.t) = nfree + Tree(pt[p]) /\ m.t.user = pt[p].user
    BY <1>4, <1>5, <1>9, Zenon DEF Added
  <2> DEFINE k == Pages(sz[p])
             x == l.a * PGSIZE
             y == k * PGSIZE
  <2>3. x \in Nat /\ Pages(x) = l.a BY <1>2, PagesWhole, Zenon
  <2>4. y \in Nat /\ Pages(y) = k BY <1>2, PagesWhole, Zenon
  <2> HIDE DEF x, y
  <2>5. u = uvmdealloc(m, x, y) BY Zenon DEF x, y
  <2> HIDE DEF u
  <2>6. Removed(m, Pages(x), Pages(y), u) BY <1>2, <1>6, <2>2, <2>3, <2>4, <2>5, Constants, Dealloc
  <2>7. OneGuard(u.t, k)
    <3>1. OneGuard(m.t, l.a) BY <1>2, <2>2, Zenon DEF OneGuard
    <3> QED BY <3>1, <1>2, <2>3, <2>4, <2>6, GuardKept, Zenon DEF Removed
  <2>8. Maps(u.t, k) BY <2>4, <2>6, Zenon DEF Removed
  <2>9. /\ Entry("live", u.t, sz[p], User) /\ Tree(u.t) \in Nat
        /\ Hold("live", u.t, User) = 1 + Tree(u.t) + k
    BY <1>2, <2>7, <2>8, UserPlace, SettledEntry, Zenon
  <2>10. Only(p, p) BY <1>1, <1>7, <2>1, ZenonT(30) DEF Only, OnProcs
  <2>11. st'[p] = "live" /\ pt'[p] = u.t /\ sz'[p] = sz[p] /\ loc'[p] = User
    BY <1>1, <1>2, <1>7, <2>1, Zenon DEF OnProcs
  <2>12. u.free = m.free + (l.a - k) /\ Tree(u.t) = Tree(m.t) /\ u.free \in Nat /\ u.panic = FALSE
    BY <1>6, <2>3, <2>4, <2>6, Zenon DEF Removed, Memory
  <2>13. nfree' + Hold("live", u.t, User) = nfree + Hold(st[p], pt[p], l)
    BY <1>2, <1>3, <1>6, <2>1, <2>2, <2>9, <2>12
  <2> QED BY <1>2, <2>1, <2>9, <2>10, <2>11, <2>12, <2>13, UserPlace, OwnStepRight, ZenonT(30)
<1> QED BY <1>1, <1>8, <1>9, Zenon

(* growproc has all its pages. *)
LEMMA GrowDoneRight ==
  ASSUME Counting, VmInv, NEW p \in Procs, GrowDone(p)
  PROVE  VmInv'
<1> DEFINE l == loc[p]
<1>1. /\ l.pc = "grow" /\ l.a * PGSIZE >= l.to /\ UNCHANGED <<nfree, st, pt, panicked>>
      /\ sz' = [sz EXCEPT ![p] = l.to] /\ loc' = [loc EXCEPT ![p] = User]
  BY Zenon DEF GrowDone, At, Goto, Return
<1>2. /\ st[p] = "live" /\ l.a \in Nat /\ l.to \in Nat
      /\ Maps(pt[p], l.a) /\ OneGuard(pt[p], l.a) /\ l.a <= Pages(l.to) /\ l.to <= MaxSz
      /\ Hold(st[p], pt[p], l) = 1 + Tree(pt[p]) + l.a
  BY <1>1, GrowFacts, Zenon
<1>3. l.a = Pages(l.to)
  <2>1. Pages(l.to) \in Nat /\ (l.a * PGSIZE < l.to <=> l.a < Pages(l.to)) BY <1>2, PagesRight, Zenon
  <2>2. l.a * PGSIZE \in Nat BY <1>2, Constants
  <2> QED BY <2>1, <2>2, <1>1, <1>2
<1>4. l.to <= PGSIZE * TRAPFRAME
  <2>1. PGSIZE * TRAPFRAME \in Nat /\ MaxSz + 2 * PGSIZE <= PGSIZE * TRAPFRAME /\ MaxSz \in Nat
    BY Constants, ConstAssumption
  <2> QED BY <2>1, <1>2, Constants
<1>5. Entry("live", pt[p], l.to, User) /\ Hold("live", pt[p], User) = 1 + Tree(pt[p]) + Pages(l.to)
  BY <1>2, <1>3, <1>4, UserPlace, SettledEntry, Zenon
<1>6. OnProcs(st) /\ OnProcs(pt) /\ OnProcs(sz) /\ OnProcs(loc) BY Zenon DEF VmInv
<1>7. Only(p, p) BY <1>1, <1>6, ZenonT(30) DEF Only, OnProcs
<1>8. st'[p] = "live" /\ pt'[p] = pt[p] /\ sz'[p] = l.to /\ loc'[p] = User
  BY <1>1, <1>2, <1>6, Zenon DEF OnProcs
<1>9. nfree \in Nat /\ panicked = FALSE BY EntryFacts, ZenonT(30)
<1> QED BY <1>1, <1>2, <1>3, <1>5, <1>7, <1>8, <1>9, UserPlace, OwnStepRight, ZenonT(30)
-----------------------------------------------------------------------------
(* An entry that is free, and one that fork is filling. *)
LEMMA UnusedEntry == Entry("unused", NoTable, 0, User) /\ Hold("unused", NoTable, User) = 0
<1>1. Hold("unused", NoTable, User) = 0 BY UserPlace, NoTableRight DEF Hold
<1>2. 0 \in 0 .. PGSIZE * TRAPFRAME BY Constants
<1> QED BY <1>1, <1>2, UserPlace, NoTableRight DEF Entry

(* The entry of a child that fork is still filling. *)
LEMMA UsedEntry ==
  ASSUME Counting, NEW t, NEW n \in Nat, n <= TRAPFRAME, Maps(t, n)
  PROVE  Entry("used", t, 0, User) /\ Tree(t) \in Nat /\ Hold("used", t, User) = 1 + Tree(t) + n
<1>1. Tree(t) \in Nat /\ Own(t) = Tree(t) + n BY OwnRight, Zenon
<1>2. Hold("used", t, User) = 1 + Tree(t) + n BY <1>1, UserPlace, NoTableRight DEF Hold
<1>3. 0 \in 0 .. PGSIZE * TRAPFRAME BY Constants
<1>4. t \in Table BY Zenon DEF Maps
<1> QED BY <1>1, <1>2, <1>3, <1>4, UserPlace DEF Entry

(* freeproc gives back the trapframe too. *)
LEMMA ProcFreed ==
  ASSUME Counting, NEW m \in Memory, NEW size \in Nat, Pages(size) <= TRAPFRAME, Maps(m.t, Pages(size))
  PROVE  LET r == freeproc(m, size) IN
         r.free \in Nat /\ r.free = m.free + 1 + Tree(m.t) + Pages(size) /\ r.panic = m.panic
<1> DEFINE m1 == [m EXCEPT !.free = @ + 1]
           r == proc_freepagetable(m1, size)
<1>1. m.free \in Nat /\ m.t \in Table /\ m.panic \in BOOLEAN /\ m.ok \in BOOLEAN BY Zenon DEF Memory
<1>2. m1 = [t |-> m.t, free |-> m.free + 1, ok |-> m.ok, panic |-> m.panic] BY DEF Memory
<1>3. m.free + 1 \in Nat BY <1>1
<1>4. m1 \in Memory BY <1>1, <1>2, <1>3, IsMemory
<1>5. m1.t = m.t /\ m1.free = m.free + 1 /\ m1.panic = m.panic BY <1>2, Zenon
<1> HIDE DEF m1
<1>6. Freed(m1, Pages(size), r) BY <1>4, <1>5, TableFreed, Zenon
<1>7. freeproc(m, size) = r BY Zenon DEF freeproc, m1
<1> HIDE DEF r
<1> QED BY <1>5, <1>6, <1>7, Zenon DEF Freed

(* fork has a child with an empty space. *)
LEMMA ForkRight ==
  ASSUME Counting, VmInv, NEW p \in Procs, NEW q \in Procs, Fork(p, q)
  PROVE  VmInv'
<1> DEFINE m == proc_pagetable(nfree - 1)
           l == [User EXCEPT !.pc = "copy", !.child = q]
<1>1. /\ st[p] = "live" /\ loc[p].pc = "user" /\ st[q] = "unused" /\ nfree > 0 /\ m.ok
      /\ nfree' = m.free /\ panicked' = m.panic
      /\ st' = [st EXCEPT ![q] = "used"] /\ pt' = [pt EXCEPT ![q] = m.t]
      /\ loc' = [loc EXCEPT ![p] = l] /\ UNCHANGED sz
  BY Zenon DEF Fork, At, Result, Goto
<1>2. nfree \in Nat /\ sz[p] \in Nat /\ Pages(sz[p]) \in Nat BY EntryFacts, ZenonT(30)
<1>3. /\ Maps(pt[p], Pages(sz[p])) /\ OneGuard(pt[p], Pages(sz[p])) /\ sz[p] <= PGSIZE * TRAPFRAME
      /\ Hold(st[p], pt[p], loc[p]) = 1 + Tree(pt[p]) + Pages(sz[p])
  BY <1>1, SettledFacts, Zenon
<1>4. p # q /\ sz[q] = 0 /\ loc[q] = User /\ pt[q] = NoTable
  <2>1. Entry(st[q], pt[q], sz[q], loc[q]) BY EntryFacts, ZenonT(30)
  <2> QED BY <2>1, <1>1, Zenon DEF Entry
<1>5. Created(nfree - 1, m)
  <2>1. nfree - 1 \in Nat BY <1>1, <1>2
  <2> QED BY <2>1, TableCreated, Zenon
<1> HIDE DEF m
<1>6. /\ Maps(m.t, 0) /\ m.t.user = {} /\ m.free + Tree(m.t) = nfree - 1 /\ m.free \in Nat /\ m.panic = FALSE
  BY <1>1, <1>5, Zenon DEF Created
<1>7. l \in Place /\ l.pc = "copy" /\ l.t = NoTable /\ l.child = q /\ l.a = 0
  BY UserPlace, ZenonT(30) DEF Place, User
<1> HIDE DEF l
<1>8. Entry("live", pt[p], sz[p], l) /\ Hold("live", pt[p], l) = 1 + Tree(pt[p]) + Pages(sz[p])
  BY <1>2, <1>3, <1>7, SettledEntry, Zenon
<1>9. Entry("used", m.t, 0, User) /\ Tree(m.t) \in Nat /\ Hold("used", m.t, User) = 1 + Tree(m.t) + 0
  BY <1>6, Constants, UsedEntry
<1>10. OnProcs(st) /\ OnProcs(pt) /\ OnProcs(sz) /\ OnProcs(loc) BY Zenon DEF VmInv
<1>11. Only(p, q) BY <1>1, <1>10, ZenonT(30) DEF Only, OnProcs
<1>12. st'[p] = "live" /\ pt'[p] = pt[p] /\ sz'[p] = sz[p] /\ loc'[p] = l
  BY <1>1, <1>4, <1>10, ZenonT(30) DEF OnProcs
<1>13. st'[q] = "used" /\ pt'[q] = m.t /\ sz'[q] = 0 /\ loc'[q] = User
  BY <1>1, <1>4, <1>10, Zenon DEF OnProcs
<1>14. \A r \in Procs \ {p} : loc[r].pc = "copy" => loc[r].child # q BY <1>1, Zenon DEF VmInv, ChildRight
<1>15. ChildRight(p)'
  <2>1. Low(0) = {} BY DEF Low
  <2> QED BY <2>1, <1>2, <1>6, <1>7, <1>12, <1>13 DEF ChildRight
<1>16. nfree' + Hold(st'[q], pt'[q], loc'[q]) = nfree + Hold(st[q], pt[q], loc[q])
  BY <1>1, <1>2, <1>4, <1>6, <1>9, <1>13, UnusedEntry
<1>17. Hold(st'[p], pt'[p], loc'[p]) = Hold(st[p], pt[p], loc[p]) BY <1>3, <1>8, <1>12, Zenon
<1>18. loc'[q].pc # "copy" BY <1>13, UserPlace, Zenon
<1>19. nfree' \in Nat /\ panicked' = FALSE BY <1>1, <1>6, Zenon
<1> QED BY <1>1, <1>7, <1>8, <1>9, <1>11, <1>12, <1>13, <1>14, <1>15, <1>16, <1>17, <1>18, <1>19, StepRight, ZenonT(30)

(* allocproc gives back what it took. *)
LEMMA ForkFailsRight ==
  ASSUME Counting, VmInv, NEW p \in Procs, ForkFails(p)
  PROVE  UNCHANGED vars
<1> DEFINE m == proc_pagetable(nfree - 1)
<1>1. /\ nfree > 0 /\ ~m.ok /\ nfree' = m.free + 1 /\ panicked' = m.panic /\ UNCHANGED <<st, pt, sz, loc>>
  BY Zenon DEF ForkFails
<1>2. nfree \in Nat /\ panicked = FALSE BY Zenon DEF VmInv
<1>3. Created(nfree - 1, m)
  <2>1. nfree - 1 \in Nat BY <1>1, <1>2
  <2> QED BY <2>1, TableCreated, Zenon
<1> HIDE DEF m
<1>4. m.free = nfree - 1 /\ m.panic = FALSE BY <1>1, <1>3, Zenon DEF Created
<1>5. nfree' = nfree BY <1>1, <1>2, <1>4
<1>6. panicked' = panicked BY <1>1, <1>2, <1>4, Zenon
<1> QED BY <1>1, <1>5, <1>6, Zenon DEF vars
(* What the invariant says of fork's loop. *)
LEMMA CopyFacts ==
  ASSUME Counting, VmInv, NEW p \in Procs, loc[p].pc = "copy"
  PROVE  LET l == loc[p]
             q == l.child
         IN
         /\ st[p] = "live" /\ l \in Place /\ l.a \in Nat /\ l.t = NoTable /\ q \in Procs /\ q # p
         /\ st[q] = "used" /\ sz[q] = 0 /\ loc[q] = User
         /\ l.a <= Pages(sz[p]) /\ l.a <= TRAPFRAME /\ Maps(pt[q], l.a) /\ pt[q].user = pt[p].user \cap Low(l.a)
         /\ Tree(pt[q]) \in Nat /\ Hold(st[q], pt[q], loc[q]) = 1 + Tree(pt[q]) + l.a
         /\ \A r \in Procs \ {p} : loc[r].pc = "copy" => loc[r].child # q
<1> DEFINE l == loc[p]
           q == l.child
<1>1. /\ l \in Place /\ st[p] = "live" /\ Pages(sz[p]) \in Nat /\ Pages(sz[p]) <= TRAPFRAME
  BY EntryFacts, ZenonT(30)
<1>2. l.a \in Nat /\ q \in Procs BY <1>1, Zenon DEF Place
<1>3. l.t = NoTable BY <1>1, SettledFacts, Zenon
<1>4. /\ st[q] = "used" /\ l.a <= Pages(sz[p]) /\ Maps(pt[q], l.a) /\ pt[q].user = pt[p].user \cap Low(l.a)
  BY Zenon DEF VmInv, ChildRight
<1>5. Entry(st[q], pt[q], sz[q], loc[q]) BY <1>2, EntryFacts, ZenonT(30)
<1>6. sz[q] = 0 /\ loc[q] = User /\ q # p BY <1>1, <1>4, <1>5, Zenon DEF Entry
<1>7. l.a <= TRAPFRAME BY <1>1, <1>2, <1>4, Constants
<1>8. Tree(pt[q]) \in Nat /\ Hold("used", pt[q], User) = 1 + Tree(pt[q]) + l.a
  BY <1>2, <1>4, <1>7, UsedEntry, Zenon
<1>9. \A r \in Procs \ {p} : loc[r].pc = "copy" => loc[r].child # q BY Zenon DEF VmInv, ChildrenApart
<1> QED BY <1>1, <1>2, <1>3, <1>4, <1>6, <1>7, <1>8, <1>9, Zenon

(* One page of uvmcopy, or the freeing of the child. *)
LEMMA CopyPageRight ==
  ASSUME Counting, VmInv, NEW p \in Procs, CopyPage(p)
  PROVE  VmInv'
<1> DEFINE l == loc[p]
           q == l.child
           m0 == [Mem(pt[q]) EXCEPT !.panic = @ \/ l.a \notin pt[p].leaf]
           m == NewPage(m0, l.a, l.a \in pt[p].user)
           u == uvmunmap(m, 0 .. l.a - 1, TRUE)
           f == freeproc(u, sz[q])
           next == [l EXCEPT !.a = @ + 1]
<1>1. /\ l.pc = "copy" /\ l.a * PGSIZE < sz[p] /\ UNCHANGED sz
      /\ \/ /\ m.ok /\ nfree' = m.free /\ panicked' = m.panic
            /\ pt' = [pt EXCEPT ![q] = m.t] /\ loc' = [loc EXCEPT ![p] = next] /\ UNCHANGED st
         \/ /\ ~m.ok /\ nfree' = f.free /\ panicked' = f.panic
            /\ pt' = [pt EXCEPT ![q] = NoTable] /\ st' = [st EXCEPT ![q] = "unused"]
            /\ loc' = [loc EXCEPT ![p] = User]
  BY ZenonT(30) DEF CopyPage, At, Result, Goto, Return
<1>2. /\ st[p] = "live" /\ l \in Place /\ l.a \in Nat /\ l.t = NoTable /\ q \in Procs /\ q # p
      /\ st[q] = "used" /\ sz[q] = 0 /\ loc[q] = User
      /\ Maps(pt[q], l.a) /\ pt[q].user = pt[p].user \cap Low(l.a) /\ Tree(pt[q]) \in Nat
      /\ Hold(st[q], pt[q], loc[q]) = 1 + Tree(pt[q]) + l.a
      /\ \A r \in Procs \ {p} : loc[r].pc = "copy" => loc[r].child # q
  BY <1>1, CopyFacts, ZenonT(30)
<1>3. nfree \in Nat /\ panicked = FALSE /\ sz[p] \in Nat /\ Pages(sz[p]) \in Nat /\ Pages(sz[p]) <= TRAPFRAME
  BY EntryFacts, ZenonT(30)
<1>4. l.a < Pages(sz[p]) /\ l.a < TRAPFRAME
  <2>1. l.a < Pages(sz[p]) BY <1>1, <1>2, <1>3, PagesRight, ZenonT(30)
  <2> QED BY <2>1, <1>2, <1>3, Constants
<1>5. /\ Maps(pt[p], Pages(sz[p])) /\ OneGuard(pt[p], Pages(sz[p])) /\ sz[p] <= PGSIZE * TRAPFRAME
      /\ Hold(st[p], pt[p], l) = 1 + Tree(pt[p]) + Pages(sz[p])
  BY <1>1, <1>2, SettledFacts, ZenonT(30)
<1>6. m0 \in Memory /\ m0.t = pt[q] /\ m0.free = nfree /\ m0.panic = FALSE
  <2>1. l.a \in pt[p].leaf BY <1>2, <1>3, <1>4, <1>5 DEF Maps, Low
  <2>2. (panicked \/ l.a \notin pt[p].leaf) = FALSE BY <2>1, <1>3, Zenon
  <2> DEFINE M == Mem(pt[q])
  <2>3. M \in Memory /\ M.t = pt[q] /\ M.free = nfree /\ M.panic = FALSE
    <3>1. M \in Memory BY <1>2, EntryFacts, ZenonT(30)
    <3> QED BY <3>1, <1>3, Zenon DEF Mem
  <2>4. m0 = [M EXCEPT !.panic = FALSE]
    <3>1. m0 = [M EXCEPT !.panic = (panicked \/ l.a \notin pt[p].leaf)] BY Zenon DEF Mem
    <3> QED BY ONLY <3>1, <2>2, Zenon
  <2> HIDE DEF M, m0
  <2>5. m0 \in Memory BY <2>3, <2>4, ZenonT(30) DEF Memory
  <2>6. m0.t = M.t /\ m0.free = M.free /\ m0.panic = FALSE BY <2>3, <2>4, Zenon DEF Memory
  <2> QED BY <2>3, <2>5, <2>6, Zenon
<1> HIDE DEF m0
<1>7. Added(m0, l.a, l.a \in pt[p].user, m)
  <2> DEFINE b == l.a \in pt[p].user
  <2>1. b \in BOOLEAN OBVIOUS
  <2>2. m = NewPage(m0, l.a, b) OBVIOUS
  <2> HIDE DEF m, b
  <2>3. Maps(m0.t, l.a) BY <1>2, <1>6, Zenon
  <2>4. Added(m0, l.a, b, m) BY <2>1, <2>2, <2>3, <1>2, <1>4, <1>6, PageAdded, Zenon
  <2> QED BY <2>4, Zenon DEF b
<1> HIDE DEF m
<1>8. m \in Memory /\ m.free \in Nat /\ m.panic = FALSE BY <1>6, <1>7, Zenon DEF Added, Memory
<1>9. OnProcs(st) /\ OnProcs(pt) /\ OnProcs(sz) /\ OnProcs(loc) BY Zenon DEF VmInv
<1>10. CASE m.ok
  <2>1. /\ nfree' = m.free /\ panicked' = m.panic /\ pt' = [pt EXCEPT ![q] = m.t]
        /\ loc' = [loc EXCEPT ![p] = next] /\ UNCHANGED st
    BY <1>1, <1>10, Zenon
  <2>2. /\ Maps(m.t, l.a + 1) /\ m.free + Tree(m.t) + 1 = nfree + Tree(pt[q])
        /\ m.t.user = IF l.a \in pt[p].user THEN pt[q].user \cup {l.a} ELSE pt[q].user
    BY <1>6, <1>7, <1>10, Zenon DEF Added
  <2>3. m.t.user = pt[p].user \cap Low(l.a + 1)
    <3>1. Low(l.a + 1) = Low(l.a) \cup {l.a} BY <1>2 DEF Low
    <3> QED BY <3>1, <2>2, <1>2, Zenon
  <2>4. next \in Place /\ next.pc = "copy" /\ next.t = NoTable /\ next.a = l.a + 1 /\ next.child = q
    <3>1. l.a + 1 \in Nat BY <1>2
    <3> HIDE DEF l
    <3> QED BY <3>1, <1>1, <1>2, Zenon DEF Place
  <2> HIDE DEF next
  <2>5. Entry("live", pt[p], sz[p], next) /\ Hold("live", pt[p], next) = 1 + Tree(pt[p]) + Pages(sz[p])
    BY <1>3, <1>5, <2>4, SettledEntry, Zenon
  <2>6. l.a + 1 \in Nat /\ l.a + 1 <= TRAPFRAME /\ l.a + 1 <= Pages(sz[p])
    BY <1>2, <1>3, <1>4, Constants
  <2>7. Entry("used", m.t, 0, User) /\ Tree(m.t) \in Nat /\ Hold("used", m.t, User) = 1 + Tree(m.t) + (l.a + 1)
    BY <2>2, <2>6, UsedEntry, Zenon
  <2>8. Only(p, q) BY <1>1, <1>9, <2>1, ZenonT(30) DEF Only, OnProcs
  <2>9. st'[p] = "live" /\ pt'[p] = pt[p] /\ sz'[p] = sz[p] /\ loc'[p] = next
    BY <1>1, <1>2, <1>9, <2>1, Zenon DEF OnProcs
  <2>10. st'[q] = "used" /\ pt'[q] = m.t /\ sz'[q] = 0 /\ loc'[q] = User
    BY <1>1, <1>2, <1>9, <2>1, Zenon DEF OnProcs
  <2>11. ChildRight(p)' BY <2>2, <2>3, <2>4, <2>6, <2>9, <2>10, Zenon DEF ChildRight
  <2>12. nfree' + Hold(st'[q], pt'[q], loc'[q]) = nfree + Hold(st[q], pt[q], loc[q])
    <3> DEFINE x == Tree(pt[q])
               y == Tree(m.t)
               a == l.a
               G == Hold(st[q], pt[q], loc[q])
               H == Hold(st'[q], pt'[q], loc'[q])
    <3>1. G = 1 + x + a /\ x \in Nat /\ a \in Nat BY <1>2, Zenon
    <3>2. H = 1 + y + (a + 1) /\ y \in Nat BY <2>7, <2>10, ZenonT(30)
    <3>3. nfree' = m.free /\ m.free \in Nat /\ m.free + y + 1 = nfree + x /\ nfree \in Nat
      BY <1>3, <1>8, <2>1, <2>2, Zenon
    <3> HIDE DEF x, y, a, G, H
    <3>4. nfree' + H = nfree + G BY ONLY <3>1, <3>2, <3>3
    <3> QED BY <3>4, Zenon DEF G, H
  <2>13. Hold(st'[p], pt'[p], loc'[p]) = Hold(st[p], pt[p], loc[p]) BY <1>5, <2>5, <2>9, Zenon
  <2>14. loc'[q].pc # "copy" BY <2>10, UserPlace, Zenon
  <2>15. nfree' \in Nat /\ panicked' = FALSE BY <1>8, <2>1, Zenon
  <2> QED BY <1>2, <2>4, <2>5, <2>7, <2>8, <2>9, <2>10, <2>11, <2>12, <2>13, <2>14, <2>15, StepRight, ZenonT(30)
<1>11. CASE ~m.ok
  <2>1. /\ nfree' = f.free /\ panicked' = f.panic /\ pt' = [pt EXCEPT ![q] = NoTable]
        /\ st' = [st EXCEPT ![q] = "unused"] /\ loc' = [loc EXCEPT ![p] = User]
    BY <1>1, <1>11, ZenonT(30)
  <2>2. Maps(m.t, l.a) /\ m.free + Tree(m.t) = nfree + Tree(pt[q]) BY <1>6, <1>7, <1>11, Zenon DEF Added
  <2>3. Removed(m, l.a, 0, u) 
    <3>1. 0 \in Nat /\ 0 <= l.a /\ l.a <= TRAPFRAME BY <1>2, <1>4, Constants
    <3> QED BY <3>1, <1>2, <1>8, <2>2, PagesRemoved, ZenonT(30)
  <2> HIDE DEF u
  <2>4. u \in Memory /\ u.free = m.free + l.a /\ u.panic = FALSE /\ Maps(u.t, 0) /\ Tree(u.t) = Tree(m.t)
    <3>1. Removed(m, l.a, 0, u) /\ l.a \in Nat /\ m.panic = FALSE BY <1>2, <1>8, <2>3, Zenon
    <3>2. u.free = m.free + (l.a - 0) /\ l.a - 0 = l.a BY <3>1 DEF Removed
    <3> QED BY <3>1, <3>2, ZenonT(30) DEF Removed
  <2>5. f.free \in Nat /\ f.free = u.free + 1 + Tree(u.t) + 0 /\ f.panic = u.panic
    <3>1. f = freeproc(u, 0) BY <1>2, Zenon
    <3> HIDE DEF f
    <3>2. 0 \in Nat /\ Pages(0) = 0 /\ Pages(0) <= TRAPFRAME /\ Maps(u.t, Pages(0))
      BY <2>4, PagesZero, Constants
    <3> QED BY <3>1, <3>2, <2>4, ProcFreed, Zenon
  <2> HIDE DEF f
  <2>6. Tree(m.t) \in Nat BY <1>2, <1>4, <2>2, Constants, OwnRight
  <2>7. Entry("live", pt[p], sz[p], User) /\ Hold("live", pt[p], User) = 1 + Tree(pt[p]) + Pages(sz[p])
    BY <1>3, <1>5, UserPlace, SettledEntry, Zenon
  <2>8. Only(p, q) BY <1>1, <1>9, <2>1, ZenonT(30) DEF Only, OnProcs
  <2>9. st'[p] = "live" /\ pt'[p] = pt[p] /\ sz'[p] = sz[p] /\ loc'[p] = User
    BY <1>1, <1>2, <1>9, <2>1, ZenonT(30) DEF OnProcs
  <2>10. st'[q] = "unused" /\ pt'[q] = NoTable /\ sz'[q] = 0 /\ loc'[q] = User
    BY <1>1, <1>2, <1>9, <2>1, Zenon DEF OnProcs
  <2>11. ChildRight(p)' BY <2>9, UserPlace, Zenon DEF ChildRight
  <2>12. nfree' + Hold(st'[q], pt'[q], loc'[q]) = nfree + Hold(st[q], pt[q], loc[q])
    <3> DEFINE x == Tree(pt[q])
               y == Tree(m.t)
               a == l.a
               r == m.free
               G == Hold(st[q], pt[q], loc[q])
               H == Hold(st'[q], pt'[q], loc'[q])
    <3>1. G = 1 + x + a /\ x \in Nat /\ a \in Nat BY <1>2, Zenon
    <3>2. H = 0 BY <2>10, UnusedEntry, Zenon
    <3>3. nfree' = r + a + 1 + y + 0 BY <2>1, <2>4, <2>5, Zenon
    <3>4. r + y = nfree + x /\ r \in Nat /\ y \in Nat /\ nfree \in Nat
      BY <1>3, <1>8, <2>2, <2>6, Zenon
    <3> HIDE DEF x, y, a, r, G, H
    <3>5. nfree' + H = nfree + G BY ONLY <3>1, <3>2, <3>3, <3>4
    <3> QED BY <3>5, Zenon DEF G, H
  <2>13. Hold(st'[p], pt'[p], loc'[p]) = Hold(st[p], pt[p], loc[p]) BY <1>5, <2>7, <2>9, ZenonT(30)
  <2>14. loc'[q].pc # "copy" /\ loc'[p].pc # "copy" BY <2>9, <2>10, UserPlace, Zenon
  <2>15. nfree' \in Nat /\ panicked' = FALSE BY <2>1, <2>4, <2>5, Zenon
  <2> QED BY <1>2, <2>7, <2>8, <2>9, <2>10, <2>11, <2>12, <2>13, <2>14, <2>15, UnusedEntry, StepRight, ZenonT(30)
<1> QED BY <1>10, <1>11, Zenon

(* The child is as large as its parent. *)
LEMMA CopyDoneRight ==
  ASSUME Counting, VmInv, NEW p \in Procs, CopyDone(p)
  PROVE  VmInv'
<1> DEFINE l == loc[p]
           q == l.child
<1>1. /\ l.pc = "copy" /\ l.a * PGSIZE >= sz[p] /\ UNCHANGED <<nfree, pt, panicked>>
      /\ sz' = [sz EXCEPT ![q] = sz[p]] /\ st' = [st EXCEPT ![q] = "live"]
      /\ loc' = [loc EXCEPT ![p] = User]
  BY Zenon DEF CopyDone, At, Goto, Return
<1>2. /\ st[p] = "live" /\ l.a \in Nat /\ q \in Procs /\ q # p /\ loc[q] = User
      /\ l.a <= Pages(sz[p]) /\ Maps(pt[q], l.a) /\ pt[q].user = pt[p].user \cap Low(l.a)
      /\ Hold(st[q], pt[q], loc[q]) = 1 + Tree(pt[q]) + l.a
      /\ \A r \in Procs \ {p} : loc[r].pc = "copy" => loc[r].child # q
  BY <1>1, CopyFacts, Zenon
<1>3. nfree \in Nat /\ panicked = FALSE /\ sz[p] \in Nat /\ Pages(sz[p]) \in Nat
  BY EntryFacts, ZenonT(30)
<1>4. l.a = Pages(sz[p])
  <2>1. l.a * PGSIZE < sz[p] <=> l.a < Pages(sz[p]) BY <1>2, <1>3, PagesRight, Zenon
  <2>2. l.a * PGSIZE \in Nat BY <1>2, Constants
  <2> QED BY <2>1, <2>2, <1>1, <1>2, <1>3
<1>5. /\ Maps(pt[p], Pages(sz[p])) /\ OneGuard(pt[p], Pages(sz[p])) /\ sz[p] <= PGSIZE * TRAPFRAME
      /\ Hold(st[p], pt[p], l) = 1 + Tree(pt[p]) + Pages(sz[p])
  BY <1>1, <1>2, SettledFacts, Zenon
<1>6. OneGuard(pt[q], Pages(sz[p])) BY <1>2, <1>3, <1>4, <1>5, GuardKept
<1>7. Entry("live", pt[q], sz[p], User) /\ Hold("live", pt[q], User) = 1 + Tree(pt[q]) + Pages(sz[p])
  <2>1. Maps(pt[q], Pages(sz[p])) BY <1>2, <1>4, Zenon
  <2> QED BY <2>1, <1>3, <1>5, <1>6, UserPlace, SettledEntry, Zenon
<1>8. Entry("live", pt[p], sz[p], User) /\ Hold("live", pt[p], User) = 1 + Tree(pt[p]) + Pages(sz[p])
  BY <1>3, <1>5, UserPlace, SettledEntry, Zenon
<1>9. OnProcs(st) /\ OnProcs(pt) /\ OnProcs(sz) /\ OnProcs(loc) BY Zenon DEF VmInv
<1>10. Only(p, q) BY <1>1, <1>9, ZenonT(30) DEF Only, OnProcs
<1>11. st'[p] = "live" /\ pt'[p] = pt[p] /\ sz'[p] = sz[p] /\ loc'[p] = User
  BY <1>1, <1>2, <1>9, ZenonT(30) DEF OnProcs
<1>12. st'[q] = "live" /\ pt'[q] = pt[q] /\ sz'[q] = sz[p] /\ loc'[q] = User
  BY <1>1, <1>2, <1>9, Zenon DEF OnProcs
<1>13. ChildRight(p)' BY <1>11, UserPlace, Zenon DEF ChildRight
<1>14. nfree' + Hold(st'[q], pt'[q], loc'[q]) = nfree + Hold(st[q], pt[q], loc[q])
  BY <1>1, <1>2, <1>4, <1>7, <1>12, Zenon
<1>15. Hold(st'[p], pt'[p], loc'[p]) = Hold(st[p], pt[p], loc[p]) BY <1>5, <1>8, <1>11, Zenon
<1>16. loc'[q].pc # "copy" /\ loc'[p].pc # "copy" BY <1>11, <1>12, UserPlace, Zenon
<1>17. nfree' \in Nat /\ panicked' = FALSE BY <1>1, <1>3, Zenon
<1> QED BY <1>2, <1>7, <1>8, <1>10, <1>11, <1>12, <1>13, <1>14, <1>15, <1>16, <1>17, StepRight, ZenonT(30)

(* exit and wait free all of a process. *)
LEMMA ExitRight ==
  ASSUME Counting, VmInv, NEW p \in Procs, Exit(p)
  PROVE  VmInv'
<1> DEFINE m0 == Mem(pt[p])
           m == freeproc(m0, sz[p])
<1>1. /\ loc[p].pc = "user" /\ st[p] = "live" /\ nfree' = m.free /\ panicked' = m.panic
      /\ pt' = [pt EXCEPT ![p] = NoTable] /\ sz' = [sz EXCEPT ![p] = 0] /\ st' = [st EXCEPT ![p] = "unused"]
      /\ UNCHANGED loc
  BY Zenon DEF Exit, At, Result
<1>2. /\ sz[p] \in Nat /\ m0 \in Memory /\ Pages(sz[p]) \in Nat /\ Pages(sz[p]) <= TRAPFRAME
      /\ nfree \in Nat /\ panicked = FALSE
  BY EntryFacts, ZenonT(30)
<1>3. /\ Maps(pt[p], Pages(sz[p])) /\ loc[p] = User
      /\ Hold(st[p], pt[p], loc[p]) = 1 + Tree(pt[p]) + Pages(sz[p])
  BY <1>1, SettledFacts, Zenon
<1>4. m0.t = pt[p] /\ m0.free = nfree /\ m0.panic = FALSE BY <1>2, Zenon DEF Mem
<1> HIDE DEF m0
<1>5. m.free \in Nat /\ m.free = m0.free + 1 + Tree(m0.t) + Pages(sz[p]) /\ m.panic = m0.panic
  BY <1>2, <1>3, <1>4, ProcFreed, Zenon
<1> HIDE DEF m
<1>6. OnProcs(st) /\ OnProcs(pt) /\ OnProcs(sz) /\ OnProcs(loc) BY Zenon DEF VmInv
<1>7. Only(p, p) BY <1>1, <1>6, ZenonT(30) DEF Only, OnProcs
<1>8. st'[p] = "unused" /\ pt'[p] = NoTable /\ sz'[p] = 0 /\ loc'[p] = User
  BY <1>1, <1>3, <1>6, Zenon DEF OnProcs
<1>9. Tree(pt[p]) \in Nat BY <1>2, <1>3, OwnRight, Zenon
<1>10. nfree' + Hold(st'[p], pt'[p], loc'[p]) = nfree + Hold(st[p], pt[p], loc[p])
  BY <1>1, <1>2, <1>3, <1>4, <1>5, <1>8, <1>9, UnusedEntry
<1>11. nfree' \in Nat /\ panicked' = FALSE BY <1>1, <1>4, <1>5, Zenon
<1> QED BY <1>1, <1>7, <1>8, <1>10, <1>11, UserPlace, UnusedEntry, OwnStepRight, ZenonT(30)
-----------------------------------------------------------------------------
(* exec is building an image, and keeps the old one. *)
LEMMA BuildEntry ==
  ASSUME Counting, NEW t, NEW z \in Nat, z <= PGSIZE * TRAPFRAME, Maps(t, Pages(z)), OneGuard(t, Pages(z)),
         NEW l \in Place, l.pc \in {"segment", "stack"}, NewImageRight(l)
  PROVE  /\ Entry("live", t, z, l)
         /\ l.a \in Nat /\ l.sz \in Nat /\ l.to \in Nat /\ Pages(l.sz) \in Nat /\ Pages(l.to) \in Nat
         /\ l.a <= TRAPFRAME /\ Pages(l.sz) <= TRAPFRAME /\ Pages(l.to) <= TRAPFRAME
         /\ Tree(t) \in Nat /\ Tree(l.t) \in Nat
         /\ Hold("live", t, l) = 1 + (Tree(t) + Pages(z)) + (Tree(l.t) + l.a)
<1>1. l.a \in Nat /\ l.sz \in Nat /\ l.to \in Nat BY Zenon DEF Place
<1>2. Pages(l.sz) \in Nat /\ Pages(l.to) \in Nat BY <1>1, PagesRight, Zenon
<1>3. Pages(l.sz) <= TRAPFRAME /\ Pages(l.to) <= TRAPFRAME
  <2>1. Pages(MaxSz) \in Nat /\ Pages(MaxSz) + 2 <= TRAPFRAME BY <1>1, PagesFit, Zenon
  <2>2. CASE l.pc = "segment"
    <3>1. Pages(l.sz) <= Pages(MaxSz) /\ Pages(l.to) <= Pages(MaxSz)
      BY <1>1, <2>2, PagesFit, Zenon DEF NewImageRight
    <3> QED BY <3>1, <2>1, <1>2, Constants
  <2>3. CASE l.pc = "stack"
    <3>1. PICK k \in 0 .. Pages(MaxSz) : l.sz = k * PGSIZE /\ l.to = (k + 2) * PGSIZE
      BY <2>3, Zenon DEF NewImageRight
    <3>2. k \in Nat /\ k + 2 \in Nat /\ k + 2 <= TRAPFRAME BY <2>1, Constants
    <3>3. Pages(l.sz) = k /\ Pages(l.to) = k + 2 BY <3>1, <3>2, PagesWhole, Zenon
    <3> QED BY <3>2, <3>3, Constants
  <2> QED BY <2>2, <2>3, Zenon
<1>4. l.a <= TRAPFRAME BY <1>1, <1>2, <1>3, Constants DEF NewImageRight
<1>5. Pages(z) \in Nat /\ Pages(z) <= TRAPFRAME BY PagesRight, PagesFit, Zenon
<1>6. Tree(t) \in Nat /\ Own(t) = Tree(t) + Pages(z) BY <1>5, OwnRight, Zenon
<1>7. Maps(l.t, l.a) BY Zenon DEF NewImageRight
<1>8. Tree(l.t) \in Nat /\ Own(l.t) = Tree(l.t) + l.a BY <1>1, <1>4, <1>7, OwnRight, Zenon
<1>9. Hold("live", t, l) = 1 + (Tree(t) + Pages(z)) + (Tree(l.t) + l.a) BY <1>6, <1>8, Zenon DEF Hold
<1>10. Hold("live", t, l) \in Nat BY <1>1, <1>5, <1>6, <1>8, <1>9
<1>11. z \in 0 .. PGSIZE * TRAPFRAME BY Constants
<1>12. t \in Table BY Zenon DEF Maps
<1>13. ImageRight(t, z, l) BY Zenon DEF ImageRight
<1>14. Entry("live", t, z, l) BY <1>10, <1>11, <1>12, <1>13, Zenon DEF Entry
<1> QED BY <1>1, <1>2, <1>3, <1>4, <1>6, <1>8, <1>9, <1>14, Zenon

(* What the invariant says of a process inside exec. *)
LEMMA BuildFacts ==
  ASSUME Counting, VmInv, NEW p \in Procs, loc[p].pc \in {"segment", "stack"}
  PROVE  LET l == loc[p] IN
         /\ st[p] = "live" /\ l \in Place /\ NewImageRight(l) /\ Maps(l.t, l.a) /\ l.t.user = Low(l.a)
         /\ sz[p] \in Nat /\ sz[p] <= PGSIZE * TRAPFRAME /\ Maps(pt[p], Pages(sz[p])) /\ OneGuard(pt[p], Pages(sz[p]))
         /\ l.a \in Nat /\ l.sz \in Nat /\ l.to \in Nat /\ Pages(l.sz) \in Nat /\ Pages(l.to) \in Nat
         /\ l.a <= TRAPFRAME /\ Pages(l.sz) <= TRAPFRAME /\ Pages(l.to) <= TRAPFRAME
         /\ Pages(l.sz) <= l.a /\ (l.a <= Pages(l.sz) \/ l.a <= Pages(l.to))
         /\ Tree(pt[p]) \in Nat /\ Tree(l.t) \in Nat
         /\ Hold(st[p], pt[p], l) = 1 + (Tree(pt[p]) + Pages(sz[p])) + (Tree(l.t) + l.a)
<1> DEFINE l == loc[p]
<1>1. Entry(st[p], pt[p], sz[p], l) /\ sz[p] \in Nat /\ l \in Place /\ st[p] = "live"
  BY EntryFacts, ZenonT(30)
<1>2. Maps(pt[p], Pages(sz[p])) /\ OneGuard(pt[p], Pages(sz[p])) /\ sz[p] <= PGSIZE * TRAPFRAME
  BY <1>1, SettledFacts, Zenon
<1>3. NewImageRight(l) BY <1>1, Zenon DEF Entry
<1>4. Maps(l.t, l.a) /\ l.t.user = Low(l.a) /\ Pages(l.sz) <= l.a /\ (l.a <= Pages(l.sz) \/ l.a <= Pages(l.to))
  BY <1>3, Zenon DEF NewImageRight
<1> HIDE DEF l
<1>5. /\ l.a \in Nat /\ l.sz \in Nat /\ l.to \in Nat /\ Pages(l.sz) \in Nat /\ Pages(l.to) \in Nat
      /\ l.a <= TRAPFRAME /\ Pages(l.sz) <= TRAPFRAME /\ Pages(l.to) <= TRAPFRAME
      /\ Tree(pt[p]) \in Nat /\ Tree(l.t) \in Nat
      /\ Hold("live", pt[p], l) = 1 + (Tree(pt[p]) + Pages(sz[p])) + (Tree(l.t) + l.a)
  <2>1. l.pc \in {"segment", "stack"} BY Zenon DEF l
  <2> QED BY <2>1, <1>1, <1>2, <1>3, BuildEntry, Zenon
<1> QED BY <1>1, <1>2, <1>3, <1>4, <1>5, Zenon DEF l

(* exec has an empty image, or nothing. *)
LEMMA ExecRight ==
  ASSUME Counting, VmInv, NEW p \in Procs, NEW segs \in Progs, Exec(p, segs)
  PROVE  VmInv'
<1> DEFINE m == proc_pagetable(nfree)
           l == [User EXCEPT !.pc = "segment", !.t = m.t, !.segs = segs]
<1>1. /\ loc[p].pc = "user" /\ st[p] = "live" /\ nfree' = m.free /\ panicked' = m.panic
      /\ IF m.ok THEN loc' = [loc EXCEPT ![p] = l] ELSE UNCHANGED loc
      /\ UNCHANGED <<st, pt, sz>>
  BY Zenon DEF Exec, At, Result, Goto
<1>2. nfree \in Nat /\ panicked = FALSE /\ sz[p] \in Nat /\ Pages(sz[p]) \in Nat
  BY EntryFacts, ZenonT(30)
<1>3. Created(nfree, m) BY <1>2, TableCreated, Zenon
<1> HIDE DEF m
<1>4. m.free \in Nat /\ m.panic = FALSE BY <1>3, Zenon DEF Created
<1>5. /\ Maps(pt[p], Pages(sz[p])) /\ OneGuard(pt[p], Pages(sz[p])) /\ sz[p] <= PGSIZE * TRAPFRAME
      /\ loc[p] = User /\ Hold(st[p], pt[p], loc[p]) = 1 + Tree(pt[p]) + Pages(sz[p])
      /\ Entry(st[p], pt[p], sz[p], loc[p])
  BY <1>1, SettledFacts, EntryFacts, ZenonT(30)
<1>6. OnProcs(st) /\ OnProcs(pt) /\ OnProcs(sz) /\ OnProcs(loc) BY Zenon DEF VmInv
<1>7. CASE m.ok
  <2>1. Maps(m.t, 0) /\ m.t.user = {} /\ m.free + Tree(m.t) = nfree BY <1>3, <1>7, Zenon DEF Created
  <2>2. l \in Place /\ l.pc = "segment" /\ l.t = m.t /\ l.a = 0 /\ l.sz = 0 /\ l.to = 0
    <3>1. m.t \in Table /\ segs \in Seq(1 .. MaxSz) BY <2>1, ConstAssumption, Zenon DEF Maps
    <3>2. User.a = 0 /\ User.sz = 0 /\ User.to = 0 BY Zenon DEF User
    <3> QED BY <3>1, <3>2, UserPlace, ZenonT(30) DEF Place
  <2> HIDE DEF l
  <2>3. NewImageRight(l)
    <3>1. Low(0) = {} BY DEF Low
    <3>2. Maps(l.t, l.a) /\ l.t.user = Low(l.a) BY <3>1, <2>1, <2>2, Zenon
    <3>3. Pages(l.sz) = 0 /\ l.a = 0 /\ l.sz <= MaxSz /\ l.to <= MaxSz BY <2>2, PagesZero, Constants
    <3>4. Pages(l.sz) <= l.a /\ l.a <= Pages(l.sz) BY <3>3
    <3> QED BY <3>2, <3>3, <3>4, <2>2, Zenon DEF NewImageRight
  <2>4. /\ Entry("live", pt[p], sz[p], l) /\ Tree(pt[p]) \in Nat /\ Tree(l.t) \in Nat
        /\ Hold("live", pt[p], l) = 1 + (Tree(pt[p]) + Pages(sz[p])) + (Tree(l.t) + l.a)
    BY <1>2, <1>5, <2>2, <2>3, BuildEntry, Zenon
  <2>5. loc' = [loc EXCEPT ![p] = l] BY <1>1, <1>7, Zenon
  <2>6. Only(p, p) BY <1>1, <1>6, <2>5, Zenon DEF Only, OnProcs
  <2>7. st'[p] = "live" /\ pt'[p] = pt[p] /\ sz'[p] = sz[p] /\ loc'[p] = l
    BY <1>1, <1>6, <2>5, Zenon DEF OnProcs
  <2>8. nfree' + Hold("live", pt[p], l) = nfree + Hold(st[p], pt[p], loc[p])
    BY <1>1, <1>2, <1>4, <1>5, <2>1, <2>2, <2>4
  <2>9. nfree' \in Nat /\ panicked' = FALSE BY <1>1, <1>4, Zenon
  <2> QED BY <1>1, <2>2, <2>4, <2>6, <2>7, <2>8, <2>9, OwnStepRight, ZenonT(30)
<1>8. CASE ~m.ok
  <2>1. m.free = nfree BY <1>3, <1>8, Zenon DEF Created
  <2>2. UNCHANGED loc BY <1>1, <1>8, Zenon
  <2>3. Only(p, p) BY <1>1, <1>6, <2>2, Zenon DEF Only, OnProcs
  <2>4. nfree' \in Nat /\ nfree' = nfree /\ panicked' = FALSE BY <1>1, <1>4, <2>1, Zenon
  <2> QED BY <1>1, <1>5, <2>2, <2>3, <2>4, UserPlace, OwnStepRight, ZenonT(30)
<1> QED BY <1>7, <1>8, Zenon

(* bad: the new image is freed, and the process keeps the old one. *)
LEMMA ExecBadRight ==
  ASSUME Counting, VmInv, NEW p \in Procs, loc[p].pc \in {"segment", "stack"}, NEW m \in Memory, NEW size \in Nat,
         Pages(size) <= TRAPFRAME, Maps(m.t, Pages(size)), m.panic = FALSE,
         m.free + Tree(m.t) + Pages(size) = nfree + Tree(loc[p].t) + loc[p].a,
         ExecBad(p, m, size), UNCHANGED <<st, pt, sz>>
  PROVE  VmInv'
<1> DEFINE f == proc_freepagetable(m, size)
           l == loc[p]
<1>1. nfree' = f.free /\ panicked' = f.panic /\ loc' = [loc EXCEPT ![p] = User]
  BY Zenon DEF ExecBad, Result, Return, Goto
<1>2. Freed(m, Pages(size), f) BY TableFreed, Zenon
<1> HIDE DEF f
<1>3. /\ st[p] = "live" /\ sz[p] \in Nat /\ sz[p] <= PGSIZE * TRAPFRAME
      /\ Maps(pt[p], Pages(sz[p])) /\ OneGuard(pt[p], Pages(sz[p])) /\ l.a \in Nat
      /\ Tree(pt[p]) \in Nat /\ Tree(l.t) \in Nat
      /\ Hold(st[p], pt[p], l) = 1 + (Tree(pt[p]) + Pages(sz[p])) + (Tree(l.t) + l.a)
  BY BuildFacts, Zenon
<1>4. /\ Entry("live", pt[p], sz[p], User)
      /\ Hold("live", pt[p], User) = 1 + Tree(pt[p]) + Pages(sz[p])
  BY <1>3, UserPlace, SettledEntry, Zenon
<1>5. nfree \in Nat /\ Pages(sz[p]) \in Nat BY EntryFacts, ZenonT(30)
<1>6. f.free = nfree + Tree(l.t) + l.a /\ f.free \in Nat /\ f.panic = FALSE BY <1>2, Zenon DEF Freed
<1>7. OnProcs(st) /\ OnProcs(pt) /\ OnProcs(sz) /\ OnProcs(loc) BY Zenon DEF VmInv
<1>8. Only(p, p) BY <1>1, <1>7, Zenon DEF Only, OnProcs
<1>9. st'[p] = "live" /\ pt'[p] = pt[p] /\ sz'[p] = sz[p] /\ loc'[p] = User
  BY <1>1, <1>3, <1>7, Zenon DEF OnProcs
<1>10. nfree' + Hold("live", pt[p], User) = nfree + Hold(st[p], pt[p], l)
  BY <1>1, <1>3, <1>4, <1>5, <1>6
<1>11. nfree' \in Nat /\ panicked' = FALSE BY <1>1, <1>6, Zenon
<1> QED BY <1>3, <1>4, <1>8, <1>9, <1>10, <1>11, UserPlace, OwnStepRight, ZenonT(30)

(* A step within exec that leaves the image right. *)
LEMMA BuildStepRight ==
  ASSUME Counting, VmInv, NEW p \in Procs, loc[p].pc \in {"segment", "stack"}, NEW l \in Place,
         l.pc \in {"segment", "stack"}, NewImageRight(l), loc' = [loc EXCEPT ![p] = l],
         nfree' \in Nat, panicked' = FALSE, UNCHANGED <<st, pt, sz>>,
         nfree' + Tree(l.t) + l.a = nfree + Tree(loc[p].t) + loc[p].a
  PROVE  VmInv'
<1>1. /\ st[p] = "live" /\ sz[p] \in Nat /\ sz[p] <= PGSIZE * TRAPFRAME
      /\ Maps(pt[p], Pages(sz[p])) /\ OneGuard(pt[p], Pages(sz[p])) /\ loc[p].a \in Nat
      /\ Tree(pt[p]) \in Nat /\ Tree(loc[p].t) \in Nat
      /\ Hold(st[p], pt[p], loc[p]) = 1 + (Tree(pt[p]) + Pages(sz[p])) + (Tree(loc[p].t) + loc[p].a)
  BY BuildFacts, Zenon
<1>2. /\ Entry("live", pt[p], sz[p], l) /\ l.a \in Nat /\ Tree(l.t) \in Nat
      /\ Hold("live", pt[p], l) = 1 + (Tree(pt[p]) + Pages(sz[p])) + (Tree(l.t) + l.a)
  BY <1>1, BuildEntry, Zenon
<1>3. nfree \in Nat /\ Pages(sz[p]) \in Nat BY EntryFacts, ZenonT(30)
<1>4. OnProcs(st) /\ OnProcs(pt) /\ OnProcs(sz) /\ OnProcs(loc) BY Zenon DEF VmInv
<1>5. Only(p, p) BY <1>4, Zenon DEF Only, OnProcs
<1>6. st'[p] = "live" /\ pt'[p] = pt[p] /\ sz'[p] = sz[p] /\ loc'[p] = l BY <1>1, <1>4, Zenon DEF OnProcs
<1>7. nfree' + Hold("live", pt[p], l) = nfree + Hold(st[p], pt[p], loc[p]) BY <1>1, <1>2, <1>3
<1>8. loc'[p].pc # "copy" BY <1>6, Zenon
<1> QED BY <1>1, <1>2, <1>5, <1>6, <1>7, <1>8, OwnStepRight, ZenonT(30)

(* One page of a segment or of the stack, or the freeing of the image. *)
LEMMA ExecPageRight ==
  ASSUME Counting, VmInv, NEW p \in Procs, ExecPage(p)
  PROVE  VmInv'
<1> DEFINE l == loc[p]
           m0 == Mem(l.t)
           m == NewPage(m0, l.a, TRUE)
           u == uvmdealloc(m, l.a * PGSIZE, Pages(l.sz) * PGSIZE)
           next == [l EXCEPT !.t = m.t, !.a = @ + 1]
<1>1. /\ l.pc \in {"segment", "stack"} /\ ~(l.a * PGSIZE >= l.to) /\ UNCHANGED <<st, pt, sz>>
      /\ \/ m.ok /\ nfree' = m.free /\ panicked' = m.panic /\ loc' = [loc EXCEPT ![p] = next]
         \/ ~m.ok /\ ExecBad(p, u, l.sz)
  BY ZenonT(30) DEF ExecPage, At, Full, Result, Goto
<1>2. /\ st[p] = "live" /\ l \in Place /\ NewImageRight(l) /\ Maps(l.t, l.a) /\ l.t.user = Low(l.a)
      /\ l.a \in Nat /\ l.sz \in Nat /\ l.to \in Nat /\ Pages(l.sz) \in Nat /\ Pages(l.to) \in Nat
      /\ l.a <= TRAPFRAME /\ Pages(l.sz) <= TRAPFRAME /\ Pages(l.to) <= TRAPFRAME
      /\ Pages(l.sz) <= l.a /\ Tree(l.t) \in Nat
  BY <1>1, BuildFacts, Zenon
<1>3. nfree \in Nat /\ panicked = FALSE /\ m0 \in Memory BY EntryFacts, ZenonT(30)
<1>4. m0.t = l.t /\ m0.free = nfree /\ m0.panic = FALSE BY <1>3, Zenon DEF Mem
<1>5. l.a < Pages(l.to) /\ l.a < TRAPFRAME
  <2>1. l.a * PGSIZE < l.to
    <3>1. l.a * PGSIZE \in Nat BY <1>2, Constants
    <3> QED BY <3>1, <1>1, <1>2
  <2>2. l.a < Pages(l.to) BY <2>1, <1>2, PagesRight, Zenon
  <2> QED BY <2>2, <1>2, Constants
<1> HIDE DEF m0
<1>6. Added(m0, l.a, TRUE, m)
  <2>1. Maps(m0.t, l.a) BY <1>2, <1>4, Zenon
  <2> QED BY <2>1, <1>2, <1>3, <1>5, PageAdded, ZenonT(30)
<1> HIDE DEF m
<1>7. m \in Memory /\ m.free \in Nat /\ m.panic = FALSE BY <1>4, <1>6, Zenon DEF Added, Memory
<1>8. CASE m.ok
  <2>1. nfree' = m.free /\ panicked' = m.panic /\ loc' = [loc EXCEPT ![p] = next] BY <1>1, <1>8, Zenon
  <2>2. Maps(m.t, l.a + 1) /\ m.free + Tree(m.t) + 1 = nfree + Tree(l.t) /\ m.t.user = l.t.user \cup {l.a}
    BY <1>4, <1>6, <1>8, Zenon DEF Added
  <2>3. /\ next \in Place /\ next.pc = l.pc /\ next.t = m.t /\ next.a = l.a + 1 /\ next.sz = l.sz /\ next.to = l.to
    <3>1. l.a + 1 \in Nat /\ m.t \in Table BY <1>2, <2>2 DEF Maps
    <3> HIDE DEF l
    <3> QED BY <3>1, <1>2, ZenonT(30) DEF Place
  <2> HIDE DEF next
  <2>4. NewImageRight(next)
    <3>1. Low(l.a + 1) = Low(l.a) \cup {l.a} BY <1>2 DEF Low
    <3>2. Maps(next.t, next.a) /\ next.t.user = Low(next.a) BY <3>1, <1>2, <2>2, <2>3, ZenonT(30)
    <3>3. Pages(next.sz) <= next.a /\ next.a <= Pages(next.to) BY <1>2, <1>5, <2>3
    <3> HIDE DEF l
    <3> QED BY <3>2, <3>3, <1>1, <1>2, <2>3, Zenon DEF NewImageRight
  <2>5. Tree(m.t) \in Nat
    <3>1. l.a + 1 \in Nat /\ l.a + 1 <= TRAPFRAME BY <1>2, <1>5, Constants
    <3> QED BY <3>1, <2>2, OwnRight, Zenon
  <2>6. nfree' + Tree(next.t) + next.a = nfree + Tree(l.t) + l.a
    BY <1>2, <1>3, <1>7, <2>1, <2>2, <2>3, <2>5
  <2>7. nfree' \in Nat /\ panicked' = FALSE /\ next.pc \in {"segment", "stack"}
    BY <1>1, <1>7, <2>1, <2>3, Zenon
  <2> QED BY <1>1, <2>1, <2>3, <2>4, <2>6, <2>7, BuildStepRight, ZenonT(30)
<1>9. CASE ~m.ok
  <2>1. ExecBad(p, u, l.sz) BY <1>1, <1>9, Zenon
  <2>2. Maps(m.t, l.a) /\ m.free + Tree(m.t) = nfree + Tree(l.t) BY <1>4, <1>6, <1>9, Zenon DEF Added
  <2> DEFINE k == Pages(l.sz)
             x == l.a * PGSIZE
             y == k * PGSIZE
  <2>3. x \in Nat /\ Pages(x) = l.a BY <1>2, PagesWhole, Zenon
  <2>4. y \in Nat /\ Pages(y) = k BY <1>2, PagesWhole, Zenon
  <2> HIDE DEF x, y
  <2>5. u = uvmdealloc(m, x, y) BY Zenon DEF x, y
  <2> HIDE DEF u
  <2>6. Removed(m, Pages(x), Pages(y), u) BY <1>2, <1>7, <2>2, <2>3, <2>4, <2>5, Dealloc, Zenon
  <2>7. u \in Memory /\ u.free = m.free + (l.a - k) /\ u.panic = FALSE /\ Maps(u.t, k) /\ Tree(u.t) = Tree(m.t)
    BY <1>7, <2>3, <2>4, <2>6, Zenon DEF Removed
  <2>8. Tree(m.t) \in Nat BY <1>2, <2>2, OwnRight, Zenon
  <2>9. u.free + Tree(u.t) + k = nfree + Tree(l.t) + l.a BY <1>2, <1>3, <1>7, <2>2, <2>7, <2>8
  <2> QED BY <1>1, <1>2, <2>1, <2>7, <2>9, ExecBadRight, ZenonT(30)
<1> QED BY <1>8, <1>9, Zenon

(* The next header, the stack, or a header or a segment that cannot be read. *)
LEMMA SegmentRight ==
  ASSUME Counting, VmInv, NEW p \in Procs, Segment(p)
  PROVE  VmInv'
<1> DEFINE l == loc[p]
           m0 == Mem(l.t)
           size == IF l.to < l.sz THEN l.sz ELSE l.to
           more == [l EXCEPT !.sz = size, !.a = Pages(size), !.to = Head(l.segs), !.segs = Tail(@)]
           stack == [l EXCEPT !.pc = "stack", !.sz = Pages(size) * PGSIZE, !.a = Pages(size),
                             !.to = (Pages(size) + 2) * PGSIZE]
<1>1. /\ l.pc = "segment" /\ l.a * PGSIZE >= l.to /\ UNCHANGED <<st, pt, sz>>
      /\ \/ ExecBad(p, m0, size)
         \/ /\ loc' = [loc EXCEPT ![p] = IF l.segs # <<>> THEN more ELSE stack]
            /\ UNCHANGED <<nfree, panicked>>
  BY Zenon DEF Segment, At, Full, Goto
<1>2. /\ l \in Place /\ NewImageRight(l) /\ Maps(l.t, l.a) /\ l.t.user = Low(l.a)
      /\ l.a \in Nat /\ l.sz \in Nat /\ l.to \in Nat /\ Pages(l.sz) \in Nat /\ Pages(l.to) \in Nat
      /\ l.a <= TRAPFRAME /\ Pages(l.sz) <= l.a /\ (l.a <= Pages(l.sz) \/ l.a <= Pages(l.to)) /\ Tree(l.t) \in Nat
  BY <1>1, BuildFacts, Zenon
<1>3. nfree \in Nat /\ panicked = FALSE /\ m0 \in Memory BY EntryFacts, ZenonT(30)
<1>4. m0.t = l.t /\ m0.free = nfree /\ m0.panic = FALSE BY <1>3, Zenon DEF Mem
<1>5. size \in Nat /\ size <= MaxSz BY <1>1, <1>2, Zenon DEF NewImageRight
<1>6. Pages(size) = l.a
  <2>1. Pages(l.to) <= l.a
    <3>1. l.a * PGSIZE < l.to <=> l.a < Pages(l.to) BY <1>2, PagesRight, Zenon
    <3>2. l.a * PGSIZE \in Nat BY <1>2, Constants
    <3> QED BY <3>1, <3>2, <1>1, <1>2
  <2>2. CASE l.to < l.sz
    <3>1. Pages(l.to) <= Pages(l.sz) BY <1>2, <2>2, PagesMonotonic
    <3>2. Pages(l.sz) = l.a BY <3>1, <1>2
    <3> QED BY <3>2, <2>2, Zenon
  <2>3. CASE ~(l.to < l.sz)
    <3>1. Pages(l.sz) <= Pages(l.to) BY <1>2, <2>3, PagesMonotonic
    <3>2. Pages(l.to) = l.a BY <3>1, <2>1, <1>2
    <3> QED BY <3>2, <2>3, Zenon
  <2> QED BY <2>2, <2>3, Zenon
<1> HIDE DEF size, m0
<1>7. CASE ExecBad(p, m0, size)
  <2>1. m0.free + Tree(m0.t) + Pages(size) = nfree + Tree(l.t) + l.a BY <1>2, <1>3, <1>4, <1>6, Zenon
  <2>2. Pages(size) <= TRAPFRAME /\ Maps(m0.t, Pages(size)) BY <1>2, <1>4, <1>6, Zenon
  <2> QED BY <1>1, <1>3, <1>4, <1>5, <1>7, <2>1, <2>2, ExecBadRight, ZenonT(30)
<1>8. CASE loc' = [loc EXCEPT ![p] = IF l.segs # <<>> THEN more ELSE stack] /\ UNCHANGED <<nfree, panicked>>
  <2>1. nfree' \in Nat /\ panicked' = FALSE /\ nfree' = nfree BY <1>3, <1>8, Zenon
  <2>2. CASE l.segs # <<>>
    <3>1. l.segs \in Seq(1 .. MaxSz) BY <1>2, Zenon DEF Place
    <3>2. Head(l.segs) \in 1 .. MaxSz /\ Tail(l.segs) \in Seq(1 .. MaxSz)
      <4> DEFINE S == 1 .. MaxSz
                 s == l.segs
      <4>1. s \in Seq(S) /\ s # <<>> BY <2>2, <3>1, Zenon
      <4> HIDE DEF S, s
      <4>2. Head(s) \in S /\ Tail(s) \in Seq(S) BY <4>1
      <4> QED BY <4>2, Zenon DEF S, s
    <3>3. Head(l.segs) \in Nat /\ Head(l.segs) <= MaxSz BY <3>2, Constants
    <3>4. /\ more \in Place /\ more.pc = "segment" /\ more.t = l.t /\ more.a = l.a /\ more.sz = size
          /\ more.to = Head(l.segs)
      <4> HIDE DEF l
      <4> QED BY <1>1, <1>2, <1>5, <1>6, <3>2, <3>3, ZenonT(30) DEF Place
    <3> HIDE DEF more
    <3>5. NewImageRight(more)
      <4>1. Maps(more.t, more.a) /\ more.t.user = Low(more.a) BY <1>2, <3>4, Zenon
      <4>2. Pages(more.sz) <= more.a /\ more.a <= Pages(more.sz) BY <1>2, <1>6, <3>4
      <4>3. more.sz <= MaxSz /\ more.to <= MaxSz BY <1>5, <3>3, <3>4, Zenon
      <4> QED BY <4>1, <4>2, <4>3, <3>4, Zenon DEF NewImageRight
    <3>6. nfree' + Tree(more.t) + more.a = nfree + Tree(l.t) + l.a BY <2>1, <3>4, Zenon
    <3>7. loc' = [loc EXCEPT ![p] = more] /\ more.pc \in {"segment", "stack"} BY <1>8, <2>2, <3>4, Zenon
    <3> QED BY <1>1, <2>1, <3>4, <3>5, <3>6, <3>7, BuildStepRight, ZenonT(30)
  <2>3. CASE l.segs = <<>>
    <3> DEFINE x == l.a * PGSIZE
               y == (l.a + 2) * PGSIZE
    <3>1. x \in Nat /\ Pages(x) = l.a /\ y \in Nat BY <1>2, Constants, PagesWhole
    <3>2. stack \in Place /\ stack.pc = "stack" /\ stack.t = l.t /\ stack.a = l.a /\ stack.sz = x /\ stack.to = y
      <4>1. stack = [l EXCEPT !.pc = "stack", !.sz = x, !.a = l.a, !.to = y] BY <1>6, Zenon
      <4> HIDE DEF l, x, y, stack
      <4> QED BY <4>1, <1>2, <3>1, ZenonT(30) DEF Place
    <3> HIDE DEF stack
    <3>3. NewImageRight(stack)
      <4>1. Maps(stack.t, stack.a) /\ stack.t.user = Low(stack.a) BY <1>2, <3>2, Zenon
      <4>2. Pages(stack.sz) <= stack.a /\ stack.a <= Pages(stack.sz) BY <1>2, <3>1, <3>2
      <4>3. l.a \in 0 .. Pages(MaxSz)
        <5>1. Pages(size) <= Pages(MaxSz) /\ Pages(MaxSz) \in Nat BY <1>5, PagesFit, Zenon
        <5> QED BY <5>1, <1>2, <1>6
      <4>4. stack.sz = l.a * PGSIZE /\ stack.to = (l.a + 2) * PGSIZE BY <3>2, Zenon
      <4> QED BY <4>1, <4>2, <4>3, <4>4, <3>2, Zenon DEF NewImageRight
    <3>4. nfree' + Tree(stack.t) + stack.a = nfree + Tree(l.t) + l.a BY <2>1, <3>2, Zenon
    <3>5. loc' = [loc EXCEPT ![p] = stack] /\ stack.pc \in {"segment", "stack"} BY <1>8, <2>3, <3>2, Zenon
    <3> QED BY <1>1, <2>1, <3>2, <3>3, <3>4, <3>5, BuildStepRight, ZenonT(30)
  <2> QED BY <2>2, <2>3, Zenon
<1> QED BY <1>1, <1>7, <1>8, Zenon

(* The new image replaces the old one, or is freed. *)
LEMMA CommitRight ==
  ASSUME Counting, VmInv, NEW p \in Procs, Commit(p)
  PROVE  VmInv'
<1> DEFINE l == loc[p]
           t == [l.t EXCEPT !.user = @ \ {l.to \div PGSIZE - 2}]
           mt == Mem(t)
           m0 == Mem(pt[p])
           m == proc_freepagetable(m0, sz[p])
<1>1. /\ l.pc = "stack" /\ l.a * PGSIZE >= l.to /\ UNCHANGED st
      /\ \/ /\ nfree' = m.free /\ panicked' = m.panic
            /\ pt' = [pt EXCEPT ![p] = t] /\ sz' = [sz EXCEPT ![p] = l.to] /\ loc' = [loc EXCEPT ![p] = User]
         \/ ExecBad(p, mt, l.to) /\ UNCHANGED <<pt, sz>>
  BY Zenon DEF Commit, At, Full, Result, Goto, Return
<1>2. /\ st[p] = "live" /\ NewImageRight(l) /\ Maps(l.t, l.a) /\ l.t.user = Low(l.a)
      /\ sz[p] \in Nat /\ Maps(pt[p], Pages(sz[p]))
      /\ l.a \in Nat /\ l.sz \in Nat /\ l.to \in Nat /\ Pages(l.to) \in Nat /\ Pages(l.to) <= TRAPFRAME
      /\ l.a <= TRAPFRAME /\ (l.a <= Pages(l.sz) \/ l.a <= Pages(l.to)) /\ Tree(pt[p]) \in Nat /\ Tree(l.t) \in Nat
      /\ Hold(st[p], pt[p], l) = 1 + (Tree(pt[p]) + Pages(sz[p])) + (Tree(l.t) + l.a)
  BY <1>1, BuildFacts, Zenon
<1>3. nfree \in Nat /\ panicked = FALSE /\ m0 \in Memory /\ Pages(sz[p]) \in Nat /\ Pages(sz[p]) <= TRAPFRAME
  BY EntryFacts, ZenonT(30)
<1>4. m0.t = pt[p] /\ m0.free = nfree /\ m0.panic = FALSE BY <1>3, Zenon DEF Mem
<1>5. PICK k \in 0 .. Pages(MaxSz) : l.sz = k * PGSIZE /\ l.to = (k + 2) * PGSIZE
  BY <1>1, <1>2, Zenon DEF NewImageRight
<1>6. k \in Nat /\ k + 2 \in Nat /\ Pages(l.sz) = k /\ Pages(l.to) = k + 2
  <2>1. Pages(MaxSz) \in Nat BY PagesRight, Constants, Zenon
  <2>2. k \in Nat /\ k + 2 \in Nat BY <2>1
  <2> QED BY <2>2, <1>5, PagesWhole, Zenon
<1>7. l.a = k + 2
  <2>1. l.a * PGSIZE < l.to <=> l.a < Pages(l.to) BY <1>2, PagesRight, Zenon
  <2>2. l.a * PGSIZE \in Nat BY <1>2, Constants
  <2> QED BY <2>1, <2>2, <1>1, <1>2, <1>6
<1>8. l.to <= PGSIZE * TRAPFRAME
  <2>1. k + 2 <= TRAPFRAME BY <1>2, <1>7, Zenon
  <2>2. (k + 2) * PGSIZE <= TRAPFRAME * PGSIZE BY <2>1, <1>6, Constants
  <2> QED BY <2>2, <1>5, Constants
<1> DEFINE g == l.to \div PGSIZE - 2
<1>9. t \in Table /\ t.root /\ t.mid = l.t.mid /\ t.tab = l.t.tab /\ t.leaf = l.t.leaf /\ t.user = Low(l.a) \ {g}
  BY <1>2, Zenon DEF Maps, Table
<1> HIDE DEF t, g
<1>10. Maps(t, l.a) /\ Tree(t) = Tree(l.t) BY <1>2, <1>9, Zenon DEF Maps, Finite, Tree
<1>11. OneGuard(t, l.a) BY <1>9, Zenon DEF OneGuard
<1> HIDE DEF m0
<1>12. CASE /\ nfree' = m.free /\ panicked' = m.panic
            /\ pt' = [pt EXCEPT ![p] = t] /\ sz' = [sz EXCEPT ![p] = l.to] /\ loc' = [loc EXCEPT ![p] = User]
  <2>1. Freed(m0, Pages(sz[p]), m) BY <1>2, <1>3, <1>4, TableFreed, Zenon
  <2> HIDE DEF m
  <2>2. /\ Entry("live", t, l.to, User) /\ Hold("live", t, User) = 1 + Tree(t) + Pages(l.to)
    <3>1. Maps(t, Pages(l.to)) /\ OneGuard(t, Pages(l.to)) BY <1>6, <1>7, <1>10, <1>11, Zenon
    <3> QED BY <3>1, <1>2, <1>8, UserPlace, SettledEntry, Zenon
  <2>3. OnProcs(st) /\ OnProcs(pt) /\ OnProcs(sz) /\ OnProcs(loc) BY Zenon DEF VmInv
  <2>4. Only(p, p) BY <1>1, <1>12, <2>3, ZenonT(30) DEF Only, OnProcs
  <2>5. st'[p] = "live" /\ pt'[p] = t /\ sz'[p] = l.to /\ loc'[p] = User
    BY <1>1, <1>2, <1>12, <2>3, Zenon DEF OnProcs
  <2>6. m.free \in Nat /\ m.free = nfree + Tree(pt[p]) + Pages(sz[p]) /\ m.panic = FALSE
    BY <1>4, <2>1, Zenon DEF Freed
  <2>7. nfree' + Hold("live", t, User) = nfree + Hold(st[p], pt[p], l)
    <3> DEFINE x == Tree(pt[p])
               y == Tree(l.t)
               n == Pages(sz[p])
               G == Hold(st[p], pt[p], l)
               H == Hold("live", t, User)
    <3>1. G = 1 + (x + n) + (y + l.a) /\ x \in Nat /\ y \in Nat BY <1>2, Zenon
    <3>2. H = 1 + y + (k + 2) /\ l.a = k + 2 /\ k \in Nat BY <1>6, <1>7, <1>10, <2>2, Zenon
    <3>3. nfree' = nfree + x + n /\ nfree \in Nat /\ n \in Nat BY <1>3, <1>12, <2>6, Zenon
    <3> HIDE DEF x, y, n, G, H
    <3>4. nfree' + H = nfree + G BY ONLY <3>1, <3>2, <3>3
    <3> QED BY <3>4, Zenon DEF G, H
  <2>8. nfree' \in Nat /\ panicked' = FALSE BY <1>12, <2>6, Zenon
  <2> QED BY <1>2, <2>2, <2>4, <2>5, <2>7, <2>8, UserPlace, OwnStepRight, ZenonT(30)
<1>13. CASE ExecBad(p, mt, l.to) /\ UNCHANGED <<pt, sz>>
  <2>1. mt = [t |-> t, free |-> nfree, ok |-> TRUE, panic |-> panicked] BY Zenon DEF Mem
  <2>2. mt \in Memory BY <2>1, <1>3, <1>9, IsMemory, ZenonT(30)
  <2>3. mt.t = t /\ mt.free = nfree /\ mt.panic = FALSE BY <1>3, Zenon DEF Mem
  <2> HIDE DEF mt
  <2>4. Maps(mt.t, Pages(l.to)) BY <2>3, <1>6, <1>7, <1>10, Zenon
  <2>5. mt.free + Tree(mt.t) + Pages(l.to) = nfree + Tree(l.t) + l.a BY <2>3, <1>6, <1>7, <1>10, Zenon
  <2> QED BY <1>1, <1>2, <1>13, <2>2, <2>3, <2>4, <2>5, ExecBadRight, ZenonT(30)
<1> QED BY <1>1, <1>12, <1>13, Zenon
-----------------------------------------------------------------------------
(* userinit has memory for the first process. *)
LEMMA VmInit == ASSUME Counting, Init PROVE VmInv
<1> DEFINE c == proc_pagetable(NPAGES - 1)
           m == NewPage(c, 0, TRUE)
<1>1. /\ nfree = m.free /\ panicked = FALSE
      /\ st = [p \in Procs |-> IF p = init THEN "live" ELSE "unused"]
      /\ pt = [p \in Procs |-> IF p = init THEN m.t ELSE NoTable]
      /\ sz = [p \in Procs |-> IF p = init THEN PGSIZE ELSE 0]
      /\ loc = [p \in Procs |-> User]
  BY Zenon DEF Init
<1>2. NPAGES - 1 \in Nat /\ NPAGES - 1 >= 8 BY Constants
<1>3. Created(NPAGES - 1, c) BY <1>2, TableCreated, Zenon
<1> HIDE DEF c
<1>4. /\ c \in Memory /\ Maps(c.t, 0) /\ c.t.user = {} /\ c.free + Tree(c.t) = NPAGES - 1 /\ c.free >= 3
      /\ c.panic = FALSE
  BY <1>2, <1>3 DEF Created
<1>5. Added(c, 0, TRUE, m)
  <2>1. 0 \in Nat /\ 0 < TRAPFRAME BY Constants
  <2> QED BY <2>1, <1>4, PageAdded, ZenonT(30)
<1> HIDE DEF m
<1>6. /\ m \in Memory /\ m.free \in Nat /\ Maps(m.t, 0 + 1) /\ m.free + Tree(m.t) + 1 = NPAGES - 1 /\ m.t.user = {0}
  BY <1>4, <1>5, Zenon DEF Added, Memory
<1>7. PGSIZE \in Nat /\ Pages(PGSIZE) = 1 /\ PGSIZE <= PGSIZE * TRAPFRAME
  <2>1. 1 \in Nat /\ 1 * PGSIZE = PGSIZE BY Constants
  <2>2. Pages(PGSIZE) = 1 BY <2>1, PagesWhole, Zenon
  <2>3. PGSIZE <= PGSIZE * TRAPFRAME BY Constants
  <2> QED BY <2>2, <2>3, Constants, Zenon
<1>8. Maps(m.t, Pages(PGSIZE)) /\ OneGuard(m.t, Pages(PGSIZE))
  <2>1. 0 + 1 = 1 OBVIOUS
  <2> QED BY <2>1, <1>6, <1>7 DEF OneGuard, Low
<1>9. /\ Entry("live", m.t, PGSIZE, User) /\ Tree(m.t) \in Nat
      /\ Hold("live", m.t, User) = 1 + Tree(m.t) + Pages(PGSIZE)
  BY <1>7, <1>8, UserPlace, SettledEntry, Zenon
<1>10. \A p \in Procs : Entry(st[p], pt[p], sz[p], loc[p]) BY <1>1, <1>9, UnusedEntry, Zenon
<1>11. \A p \in Procs : loc[p].pc # "copy" BY <1>1, UserPlace, Zenon
<1>12. nfree + Cardinality(HeldPages) = NPAGES
  <2> DEFINE f == [q \in Procs |-> 0]
             g == [q \in Procs |-> Hold(st[q], pt[q], loc[q])]
  <2>1. f \in [Procs -> Nat] /\ g \in [Procs -> Nat] BY <1>10, Zenon DEF Entry
  <2>2. init \in Procs BY Constants, Zenon
  <2>3. \A q \in Procs \ {init} : g[q] = f[q] BY <1>1, UnusedEntry, Zenon
  <2>4. HeldPages = Tally(g) BY Zenon DEF HeldPages, Held, Hold, Tally
  <2>5. g[init] = Hold("live", m.t, User) /\ f[init] = 0 BY <2>2, <1>1, Zenon
  <2>6. Tally(f) = {}
    <3>1. \A q \in Procs : {q} \X (1 .. f[q]) = {} OBVIOUS
    <3> QED BY <3>1, Zenon DEF Tally
  <2> HIDE DEF f, g
  <2>7. Cardinality(Tally(g)) + f[init] = Cardinality(Tally(f)) + g[init] /\ Cardinality(Tally(g)) \in Nat
    BY <2>1, <2>2, <2>3, TallyChanges, Zenon
  <2>8. Cardinality(Tally(f)) = 0 BY <2>6, SmallSize, ZenonT(30)
  <2>9. Cardinality(Tally(g)) = 1 + Tree(m.t) + 1 BY <2>5, <2>7, <2>8, <1>7, <1>9
  <2> QED BY <2>4, <2>9, <1>1, <1>6, <1>9, Constants
<1>13. OnProcs(st) /\ OnProcs(pt) /\ OnProcs(sz) /\ OnProcs(loc) BY <1>1, Zenon DEF OnProcs
<1> QED BY <1>1, <1>6, <1>10, <1>11, <1>12, <1>13, Zenon DEF VmInv, ChildRight, ChildrenApart

(* Every step keeps the invariant. *)
LEMMA VmNext == ASSUME Counting, VmInv, [Next]_vars PROVE VmInv'
<1>1. CASE UNCHANGED vars
  BY <1>1 DEF vars, VmInv, ChildRight, ChildrenApart, HeldPages, Held
<1>2. ASSUME NEW p \in Procs, NEW n \in 1 .. MaxSz, Shrink(p, n) \/ Grow(p, n) PROVE VmInv'
  BY <1>2, ShrinkRight, GrowRight, Zenon
<1>3. ASSUME NEW p \in Procs, GrowPage(p) \/ GrowDone(p) \/ CopyPage(p) \/ CopyDone(p) \/ Exit(p) PROVE VmInv'
  BY <1>3, GrowPageRight, GrowDoneRight, CopyPageRight, CopyDoneRight, ExitRight, Zenon
<1>4. ASSUME NEW p \in Procs, ForkFails(p) PROVE VmInv' BY <1>1, <1>4, ForkFailsRight, Zenon
<1>5. ASSUME NEW p \in Procs, ExecPage(p) \/ Segment(p) \/ Commit(p) PROVE VmInv'
  BY <1>5, ExecPageRight, SegmentRight, CommitRight, Zenon
<1>6. ASSUME NEW p \in Procs, NEW q \in Procs, Fork(p, q) PROVE VmInv' BY <1>6, ForkRight, Zenon
<1>7. ASSUME NEW p \in Procs, NEW segs \in Progs, Exec(p, segs) PROVE VmInv' BY <1>7, ExecRight, Zenon
<1> QED BY <1>1, <1>2, <1>3, <1>4, <1>5, <1>6, <1>7, ZenonT(30) DEF Next

-----------------------------------------------------------------------------
(* The library's finite sets are the ones of the model. *)
FS == INSTANCE FiniteSetTheorems

(* IsFiniteSet and Cardinality are the same operators in both. *)
LEMMA SameSizes == \A S : (FS!IsFiniteSet(S) <=> IsFiniteSet(S)) /\ FS!Cardinality(S) = Cardinality(S)
<1>1. \A S : FS!IsFiniteSet(S) <=> IsFiniteSet(S) BY Zenon DEF FS!IsFiniteSet, IsFiniteSet
<1>2. \A S : FS!Cardinality(S) = Cardinality(S) BY Zenon DEF FS!Cardinality, Cardinality
<1> QED BY <1>1, <1>2, Zenon

(* The facts on finite sets that the lemmas above assume. *)
LEMMA CountingRight == Counting
<1>1. \A S : IsFiniteSet(S) => Cardinality(S) \in Nat BY SameSizes, FS!FS_CardinalityType, Zenon
<1>2. ASSUME NEW S, IsFiniteSet(S), NEW x
      PROVE  /\ Cardinality({x} \ S) \in 0 .. 1 /\ IsFiniteSet(S \cup ({x} \ S))
             /\ Cardinality(S \cup ({x} \ S)) = Cardinality(S) + Cardinality({x} \ S)
  <2>1. Cardinality(S) \in Nat BY <1>2, SameSizes, FS!FS_CardinalityType, Zenon
  <2>2. CASE x \in S
    <3>1. {x} \ S = {} /\ S \cup ({x} \ S) = S BY <2>2, Zenon
    <3> QED BY <3>1, <2>1, <1>2, SameSizes, FS!FS_EmptySet
  <2>3. CASE x \notin S
    <3>1. {x} \ S = {x} /\ S \cup ({x} \ S) = S \cup {x} BY <2>3, Zenon
    <3>2. Cardinality({x}) = 1 BY SameSizes, FS!FS_Singleton, Zenon
    <3>3. IsFiniteSet(S \cup {x}) /\ Cardinality(S \cup {x}) = Cardinality(S) + 1
      BY <2>3, <1>2, SameSizes, FS!FS_AddElement, Zenon
    <3> QED BY <3>1, <3>2, <3>3, <2>1
  <2> QED BY <2>2, <2>3, Zenon
<1>3. ASSUME NEW k \in Nat, NEW n \in Nat, k <= n PROVE Cardinality(k .. n - 1) = n - k
  <2>1. k \in Int /\ n - 1 \in Int OBVIOUS
  <2>2. Cardinality(k .. n - 1) = IF k > n - 1 THEN 0 ELSE n - 1 - k + 1
    BY <2>1, SameSizes, FS!FS_Interval, ZenonT(30)
  <2> QED BY <2>2, <1>3
<1>4. IsFiniteSet({}) /\ Cardinality({}) = 0 BY SameSizes, FS!FS_EmptySet, Zenon
<1>5. \A x : Cardinality({x}) = 1 BY SameSizes, FS!FS_Singleton, Zenon
<1>6. ASSUME NEW f \in [Procs -> Nat], NEW g \in [Procs -> Nat], NEW p \in Procs,
             \A q \in Procs \ {p} : g[q] = f[q]
      PROVE  /\ Cardinality(Tally(f)) \in Nat /\ Cardinality(Tally(g)) \in Nat
             /\ Cardinality(Tally(g)) + f[p] = Cardinality(Tally(f)) + g[p]
  <2> DEFINE Row(q, n) == {q} \X (1 .. n)
             R == UNION {Row(q, f[q]) : q \in Procs \ {p}}
  <2>1. \A q \in Procs, n \in Nat : IsFiniteSet(Row(q, n)) /\ Cardinality(Row(q, n)) = n
    <3> TAKE q \in Procs, n \in Nat
    <3>1. IsFiniteSet({q}) /\ Cardinality({q}) = 1 BY SameSizes, FS!FS_Singleton, ZenonT(30)
    <3>2. IsFiniteSet(1 .. n) /\ Cardinality(1 .. n) = n
      <4>1. 1 \in Int /\ n \in Int OBVIOUS
      <4>2. IsFiniteSet(1 .. n) /\ Cardinality(1 .. n) = IF 1 > n THEN 0 ELSE n - 1 + 1
        BY <4>1, SameSizes, FS!FS_Interval, ZenonT(30)
      <4> QED BY <4>2
    <3>3. IsFiniteSet({q} \X (1 .. n)) /\ Cardinality({q} \X (1 .. n)) = Cardinality({q}) * Cardinality(1 .. n)
      BY <3>1, <3>2, SameSizes, FS!FS_Product, ZenonT(30)
    <3> QED BY <3>1, <3>2, <3>3
  <2>2. IsFiniteSet(R)
    <3> DEFINE D == Procs \ {p}
               h == [q \in D |-> Row(q, f[q])]
               Rows == {Row(q, f[q]) : q \in D}
    <3>1. IsFiniteSet(D)
      <4>1. IsFiniteSet(Procs) BY Constants, Zenon
      <4>2. D \subseteq Procs OBVIOUS
      <4> QED BY <4>1, <4>2, SameSizes, FS!FS_Subset, Zenon
    <3>2. h \in FS!Surjection(D, Rows) BY ZenonT(30) DEF FS!Surjection
    <3>3. IsFiniteSet(Rows) BY <3>1, <3>2, SameSizes, FS!FS_Surjection, Zenon
    <3>4. \A T \in Rows : IsFiniteSet(T) BY <2>1
    <3> HIDE DEF Rows
    <3>5. IsFiniteSet(UNION Rows) BY <3>3, <3>4, SameSizes, FS!FS_UNION, Zenon
    <3> QED BY <3>5, Zenon DEF Rows
  <2>3. Tally(f) = R \cup Row(p, f[p]) BY Zenon DEF Tally
  <2>4. Tally(g) = R \cup Row(p, g[p]) BY <1>6, Zenon DEF Tally
  <2>5. R \cap Row(p, f[p]) = {} /\ R \cap Row(p, g[p]) = {} OBVIOUS
  <2>6. f[p] \in Nat /\ g[p] \in Nat OBVIOUS
  <2> HIDE DEF R, Row
  <2>7. \A T : IsFiniteSet(T) /\ R \cap T = {} => Cardinality(R \cup T) = Cardinality(R) + Cardinality(T)
    <3> TAKE T
    <3> HAVE IsFiniteSet(T) /\ R \cap T = {}
    <3>1. Cardinality(R \cup T) = Cardinality(R) + Cardinality(T) - Cardinality(R \cap T)
      BY <2>2, SameSizes, FS!FS_Union, Zenon
    <3>2. Cardinality(R \cap T) = 0 BY SameSizes, FS!FS_EmptySet, Zenon
    <3>3. Cardinality(R) \in Nat /\ Cardinality(T) \in Nat BY <2>2, SameSizes, FS!FS_CardinalityType, Zenon
    <3> QED BY <3>1, <3>2, <3>3
  <2>8. Cardinality(R) \in Nat BY <2>2, SameSizes, FS!FS_CardinalityType, Zenon
  <2>9. Cardinality(Tally(f)) = Cardinality(R) + f[p] BY <2>1, <2>3, <2>5, <2>6, <2>7, Zenon
  <2>10. Cardinality(Tally(g)) = Cardinality(R) + g[p] BY <2>1, <2>4, <2>5, <2>6, <2>7, Zenon
  <2> QED BY <2>6, <2>8, <2>9, <2>10
<1>7. \A S, x : IsFiniteSet(S) =>
        /\ Cardinality({x} \ S) \in 0 .. 1 /\ IsFiniteSet(S \cup ({x} \ S))
        /\ Cardinality(S \cup ({x} \ S)) = Cardinality(S) + Cardinality({x} \ S)
  BY <1>2, Zenon
<1>8. \A k, n \in Nat : k <= n => Cardinality(k .. n - 1) = n - k BY <1>3, Zenon
<1>9. \A f, g \in [Procs -> Nat], p \in Procs :
        (\A q \in Procs \ {p} : g[q] = f[q]) =>
          /\ Cardinality(Tally(f)) \in Nat /\ Cardinality(Tally(g)) \in Nat
          /\ Cardinality(Tally(g)) + f[p] = Cardinality(Tally(f)) + g[p]
  BY <1>6, Zenon
<1> QED BY <1>1, <1>4, <1>5, <1>7, <1>8, <1>9, ZenonT(30) DEF Counting

(* The invariant holds in every state. *)
THEOREM VmInvariance == Spec => []VmInv
<1>1. Init => VmInv BY CountingRight, VmInit, Zenon
<1>2. VmInv /\ [Next]_vars => VmInv' BY CountingRight, VmNext, Zenon
<1> QED BY <1>1, <1>2, PTL DEF Spec

(* Every page is free or has one owner, at whichever allocation fork, exec *)
(* or sbrk fails and however their steps interleave at the free list.      *)
THEOREM NoPageLost == Spec => []PagesCounted
<1>1. VmInv => PagesCounted BY Zenon DEF VmInv, PagesCounted
<1> QED BY <1>1, VmInvariance, PTL

(* No consistency panic of vm.c is reached. *)
THEOREM VmNeverPanics == Spec => []NoPanic
<1>1. VmInv => NoPanic BY Zenon DEF VmInv, NoPanic
<1> QED BY <1>1, VmInvariance, PTL

(* A process maps the pages below its size, the trampoline and its         *)
(* trapframe, and nothing else; at most one page is a guard.               *)
THEOREM SpacesRight == Spec => []SpaceRight
<1>1. VmInv => SpaceRight
  <2> SUFFICES ASSUME VmInv, NEW p \in Procs, st[p] = "live", loc[p].pc # "grow"
               PROVE  LET below == 0 .. (sz[p] + PGSIZE - 1) \div PGSIZE - 1 IN
                      /\ pt[p].leaf = below \cup {TRAMPOLINE, TRAPFRAME}
                      /\ pt[p].user \subseteq below /\ Cardinality(below \ pt[p].user) <= 1
    BY ZenonT(30) DEF SpaceRight
  <2> DEFINE B == Low(Pages(sz[p]))
             G == B \ pt[p].user
  <2>1. Maps(pt[p], Pages(sz[p])) /\ OneGuard(pt[p], Pages(sz[p])) BY CountingRight, SettledFacts, Zenon
  <2>2. 0 .. (sz[p] + PGSIZE - 1) \div PGSIZE - 1 = B BY Zenon DEF Low, Pages
  <2>3. Cardinality(G) <= 1
    <3>1. CASE G = {} BY <3>1, SameSizes, FS!FS_EmptySet
    <3>2. CASE G # {}
      <4>1. PICK x : x \in G BY <3>2, Zenon
      <4>2. G = {x} BY <2>1, <4>1, Zenon DEF OneGuard
      <4>3. Cardinality({x}) = 1 BY SameSizes, FS!FS_Singleton, ZenonT(30)
      <4> QED BY <4>2, <4>3
    <3> QED BY <3>1, <3>2, Zenon
  <2> QED BY <2>1, <2>2, <2>3, ZenonT(30) DEF Maps
<1> QED BY <1>1, VmInvariance, PTL
=============================================================================
