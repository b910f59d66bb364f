---------------------------- MODULE VirtioProofs ----------------------------
(***************************************************************************)
(* Proofs about Virtio for any processes, any number of descriptors and    *)
(* rings with indices modulo any larger multiple of it: descriptors are    *)
(* neither shared nor lost, the device only ever has chains of requests    *)
(* that wait, and a request returns after its transfer.                    *)
(***************************************************************************)
EXTENDS Virtio, FiniteSetTheorems, TLAPS

(* The time that the provers get for a step that does not say otherwise. *)
USE SMTT(20), ZenonT(20)

(* How far b is ahead of a on a ring, and the i-th index after a. *)
Ahead(a, b) == (b + Index - a) % Index
Nth(a, i) == (a + i) % Index

(* What the device has not fetched, and what the handler has not seen. *)
Pending == Ahead(seen, avail_idx)
Served == Ahead(used_idx, used_dev)
PendingHead(i) == avail[Nth(seen, i) % NUM]
ServedHead(i) == used[Nth(used_idx, i) % NUM]

Owner(p) == pc[p] \in {"fill", "done"} \cup Queued

(* vdisk_lock is held from alloc3_desc until sleep. *)
LockRight == \A p \in Procs : lock = p <=> pc[p] \in {"fill", "publish"}

(* A descriptor is free or in one place of one chain. *)
OneChain ==
  \A p, q \in Procs, j, k \in 1 .. 3 :
    Owner(p) /\ Owner(q) /\ idx[p][j] = idx[q][k] => p = q /\ j = k
NotFree == \A p \in Procs, k \in 1 .. 3 : Owner(p) => idx[p][k] \notin free
NoneLost == \A d \in Desc \ free : \E p \in Procs, k \in 1 .. 3 : Owner(p) /\ idx[p][k] = d
DescRight == OneChain /\ NotFree /\ NoneLost

(* The chain of p is laid out as it was formatted. *)
ChainRight(p) ==
  /\ desc[idx[p][1]].next = idx[p][2]
  /\ desc[idx[p][2]] = [next |-> idx[p][3], buf |-> p]
  /\ desc[idx[p][3]].next = None
  /\ info[idx[p][1]].b = p

RequestsRight ==
  \A p \in Procs :
    /\ pc[p] \in Queued => busy[p] /\ ChainRight(p)
    /\ pc[p] = "done" => ~busy[p] /\ moved[p] /\ ChainRight(p)
    /\ pc[p] = "publish" => avail[avail_idx % NUM] = idx[p][1]

(* h is the head of a request that waits. *)
Waits(h) == \E p \in Procs : pc[p] = "buf_sleep" /\ idx[p][1] = h

(* What the device works on, has not fetched, and has served. *)
InflightRight == \A h \in inflight : Waits(h)
PendingRight == \A i \in 0 .. Pending - 1 : Waits(PendingHead(i)) /\ PendingHead(i) \notin inflight
ServedRight ==
  \A i \in 0 .. Served - 1 :
    /\ Waits(ServedHead(i)) /\ ServedHead(i) \notin inflight /\ info[ServedHead(i)].ok
    /\ \A p \in Procs : pc[p] = "buf_sleep" /\ idx[p][1] = ServedHead(i) => moved[p]

(* A request that waits is in one of these places only, and once. *)
PendingOnce == \A i, j \in 0 .. Pending - 1 : PendingHead(i) = PendingHead(j) => i = j
ServedOnce == \A i, j \in 0 .. Served - 1 : ServedHead(i) = ServedHead(j) => i = j
NotBoth == \A i \in 0 .. Pending - 1, j \in 0 .. Served - 1 : PendingHead(i) # ServedHead(j)

PlacesRight == InflightRight /\ PendingRight /\ ServedRight /\ PendingOnce /\ ServedOnce /\ NotBoth

VirtioInv == TypeOK /\ LockRight /\ DescRight /\ RequestsRight /\ PlacesRight
-----------------------------------------------------------------------------
(* The arithmetic of a ring that free-running indices select the slots of. *)

(* A multiple of s strictly between -s and s is 0. *)
LEMMA NoMultiple ==
  ASSUME NEW s \in Nat \ {0}, NEW k \in Int, s * k < s, 0 - s < s * k
  PROVE  k = 0
<1>1. CASE k >= 1
  <2>1. s * k >= s BY <1>1, SMT
  <2> QED BY <2>1
<1>2. CASE k <= -1
  <2>1. s * k <= 0 - s BY <1>2, SMT
  <2> QED BY <2>1
<1> QED BY <1>1, <1>2

(* Division with remainder, as C does it on unsigned numbers. *)
LEMMA Division ==
  ASSUME NEW s \in Nat \ {0}, NEW x \in Int
  PROVE  x \div s \in Int /\ x % s \in 0 .. s - 1 /\ x = s * (x \div s) + (x % s)
BY SMT

(* The remainder is the only number below s that differs from x by a      *)
(* multiple of s.                                                          *)
LEMMA ModUnique ==
  ASSUME NEW s \in Nat \ {0}, NEW x \in Nat, NEW q \in Int, NEW m \in 0 .. s - 1, x = s * q + m
  PROVE  x % s = m
<1> DEFINE d == x \div s
<1>1. d \in Int /\ x % s \in 0 .. s - 1 /\ x = s * d + (x % s) BY Division
<1> HIDE DEF d
<1>2. s * (d - q) = m - (x % s) BY <1>1, SMT
<1>3. d - q = 0 BY <1>1, <1>2, NoMultiple
<1>4. s * (d - q) = 0 BY <1>3
<1> QED BY <1>1, <1>2, <1>4

(* An index that is incremented, or an offset added to it, wraps at most   *)
(* once.                                                                   *)
LEMMA ModWrap ==
  ASSUME NEW c \in Nat \ {0}, NEW x \in Nat, x < 2 * c
  PROVE  x % c = IF x < c THEN x ELSE x - c
<1>1. CASE x < c
  <2>1. x = c * 0 + x BY SMT
  <2> QED BY <1>1, <2>1, ModUnique
<1>2. CASE x >= c
  <2>1. x = c * 1 + (x - c) BY SMT
  <2>2. x - c \in 0 .. c - 1 BY <1>2
  <2> QED BY <1>2, <2>1, <2>2, ModUnique
<1> QED BY <1>1, <1>2

(* Where an index with c values wraps, the slot it selects does not, since *)
(* the size of the ring divides c.                                         *)
LEMMA ModAdd ==
  ASSUME NEW s \in Nat \ {0}, NEW c \in Nat, c % s = 0, NEW x \in Nat
  PROVE  (x + c) % s = x % s
<1> DEFINE d == x \div s
           f == c \div s
           m == x % s
           y == x + c
<1>1. d \in Int /\ m \in 0 .. s - 1 /\ x = s * d + m BY Division
<1>2. f \in Int /\ c = s * f BY Division
<1>3. y \in Nat /\ y = x + c OBVIOUS
<1> HIDE DEF d, f, m, y
<1>4. s * (d + f) = s * d + s * f BY <1>1, <1>2, SMT
<1>5. d + f \in Int /\ y = s * (d + f) + m BY <1>1, <1>2, <1>3, <1>4
<1>6. y % s = m BY <1>1, <1>3, <1>5, ModUnique, ZenonT(30)
<1> QED BY <1>6, Zenon DEF m, y

(* Indices less than s apart select different slots of a ring of size s. *)
LEMMA ModDistinct ==
  ASSUME NEW s \in Nat \ {0}, NEW x \in Nat, NEW y \in Nat, x < y, y < x + s
  PROVE  x % s # y % s
<1> DEFINE d == x \div s
           f == y \div s
<1> SUFFICES ASSUME x % s = y % s PROVE FALSE OBVIOUS
<1>1. d \in Int /\ x % s \in 0 .. s - 1 /\ x = s * d + (x % s) BY Division
<1>2. f \in Int /\ y % s \in 0 .. s - 1 /\ y = s * f + (y % s) BY Division
<1> HIDE DEF d, f
<1>3. s * (f - d) = y - x BY <1>1, <1>2, SMT
<1>4. f - d = 0 BY <1>1, <1>2, <1>3, NoMultiple
<1>5. s * (f - d) = 0 BY <1>4
<1> QED BY <1>3, <1>5
-----------------------------------------------------------------------------
(* An index that is moved forward wraps at most once, and so does the      *)
(* distance between two.                                                   *)
LEMMA Wraps ==
  ASSUME NEW a \in 0 .. Index - 1, NEW b \in 0 .. Index - 1
  PROVE  /\ Nth(a, b) = (IF a + b < Index THEN a + b ELSE a + b - Index) /\ Nth(a, b) \in 0 .. Index - 1
         /\ Ahead(a, b) = (IF a <= b THEN b - a ELSE b + Index - a) /\ Ahead(a, b) \in 0 .. Index - 1
         /\ Succ(a) = (IF a + 1 < Index THEN a + 1 ELSE 0) /\ Succ(a) \in 0 .. Index - 1
<1> DEFINE x == a + b  y == b + Index - a  z == a + 1
<1>1. /\ Index \in Nat \ {0} /\ x \in Nat /\ x < 2 * Index
      /\ y \in Nat /\ y < 2 * Index /\ z \in Nat /\ z < 2 * Index
  BY ConstAssumption
<1> HIDE DEF x, y, z
<1>2. /\ x % Index = IF x < Index THEN x ELSE x - Index
      /\ y % Index = IF y < Index THEN y ELSE y - Index
      /\ z % Index = IF z < Index THEN z ELSE z - Index
  BY <1>1, ModWrap, Zenon
<1> QED BY <1>1, <1>2 DEF Nth, Ahead, Succ, x, y, z

(* The slot of an index does not depend on whether it has wrapped. *)
LEMMA SlotIs ==
  ASSUME NEW a \in 0 .. Index - 1, NEW i \in 0 .. Index - 1
  PROVE  Nth(a, i) % NUM = (a + i) % NUM /\ Nth(a, i) % NUM \in Desc
<1> DEFINE j == Nth(a, i)
<1>1. NUM \in Nat \ {0} /\ Index \in Nat /\ Index % NUM = 0 /\ a + i \in Nat
  BY ConstAssumption
<1>2. j \in Nat /\ (j = a + i \/ a + i = j + Index)
  <2>1. Nth(a, i) = (IF a + i < Index THEN a + i ELSE a + i - Index) /\ Nth(a, i) \in 0 .. Index - 1
    BY Wraps, Zenon
  <2> QED BY <1>1, <2>1
<1> HIDE DEF j
<1>3. (j + Index) % NUM = j % NUM
  BY <1>1, <1>2, ModAdd, Zenon
<1>4. j % NUM \in 0 .. NUM - 1
  BY <1>1, <1>2, Division
<1> QED BY <1>2, <1>3, <1>4, Zenon DEF j, Desc

(* Entries less than the size of the ring apart have slots of their own. *)
LEMMA SlotsDiffer ==
  ASSUME NEW a \in 0 .. Index - 1, NEW i \in 0 .. NUM - 1, NEW j \in 0 .. NUM - 1, i # j
  PROVE  Nth(a, i) % NUM # Nth(a, j) % NUM
<1>1. NUM \in Nat \ {0} /\ Index \in Nat /\ NUM < Index
  BY ConstAssumption
<1>2. Nth(a, i) % NUM = (a + i) % NUM /\ Nth(a, j) % NUM = (a + j) % NUM
  BY <1>1, SlotIs
<1> DEFINE x == a + i  y == a + j
<1>3. x \in Nat /\ y \in Nat /\ x # y /\ y < x + NUM /\ x < y + NUM
  BY <1>1
<1> HIDE DEF x, y
<1>4. x % NUM # y % NUM
  <2>1. x < y => x % NUM # y % NUM BY <1>1, <1>3, ModDistinct, Zenon
  <2>2. y < x => y % NUM # x % NUM BY <1>1, <1>3, ModDistinct, Zenon
  <2> QED BY <1>3, <2>1, <2>2
<1> QED BY <1>2, <1>4, Zenon DEF x, y

(* Taking the oldest entry off a ring. *)
LEMMA Popped ==
  ASSUME NEW a \in 0 .. Index - 1, NEW b \in 0 .. Index - 1, a # b
  PROVE  /\ Ahead(a, b) \in 1 .. Index - 1 /\ Ahead(Succ(a), b) = Ahead(a, b) - 1
         /\ Nth(a, 0) = a
         /\ \A i \in 0 .. Ahead(a, b) - 2 : Nth(Succ(a), i) = Nth(a, i + 1)
<1> DEFINE s == Succ(a)  n == Ahead(a, b)
<1>0. Index \in Nat \ {0}
  BY ConstAssumption
<1>1. /\ s = (IF a + 1 < Index THEN a + 1 ELSE 0) /\ s \in 0 .. Index - 1
      /\ n = (IF a <= b THEN b - a ELSE b + Index - a)
  BY Wraps, Zenon
<1>2. 0 \in 0 .. Index - 1 /\ Nth(a, 0) = (IF a + 0 < Index THEN a + 0 ELSE a + 0 - Index)
  <2>1. 0 \in 0 .. Index - 1 BY <1>0
  <2> QED BY <2>1, Wraps, Zenon
<1>3. Ahead(s, b) = (IF s <= b THEN b - s ELSE b + Index - s)
  BY <1>1, Wraps, Zenon
<1>4. ASSUME NEW i \in 0 .. n - 2 PROVE Nth(s, i) = Nth(a, i + 1)
  <2>1. i \in 0 .. Index - 1 /\ i + 1 \in 0 .. Index - 1
    BY <1>0, <1>1
  <2>2. /\ Nth(s, i) = IF s + i < Index THEN s + i ELSE s + i - Index
        /\ Nth(a, i + 1) = IF a + (i + 1) < Index THEN a + (i + 1) ELSE a + (i + 1) - Index
    BY <1>1, <2>1, Wraps, Zenon
  <2> QED BY <1>0, <1>1, <2>1, <2>2
<1> HIDE DEF s, n
<1>5. n \in 1 .. Index - 1 /\ Ahead(s, b) = n - 1 /\ Nth(a, 0) = a
  BY <1>0, <1>1, <1>2, <1>3
<1> QED BY <1>4, <1>5, Zenon DEF s, n

(* Adding an entry to a ring that is not full. *)
LEMMA Pushed ==
  ASSUME NEW a \in 0 .. Index - 1, NEW b \in 0 .. Index - 1, Ahead(a, b) < NUM
  PROVE  Ahead(a, Succ(b)) = Ahead(a, b) + 1 /\ Nth(a, Ahead(a, b)) = b
<1> DEFINE s == Succ(b)  n == Ahead(a, b)
<1>1. /\ Index \in Nat \ {0} /\ NUM \in Nat /\ NUM < Index
      /\ s = (IF b + 1 < Index THEN b + 1 ELSE 0) /\ s \in 0 .. Index - 1
      /\ n = (IF a <= b THEN b - a ELSE b + Index - a) /\ n \in 0 .. Index - 1
  BY Wraps, ConstAssumption
<1>2. Ahead(a, s) = (IF a <= s THEN s - a ELSE s + Index - a)
  BY <1>1, Wraps, Zenon
<1>3. Nth(a, n) = (IF a + n < Index THEN a + n ELSE a + n - Index)
  BY <1>1, Wraps, Zenon
<1>4. n < NUM OBVIOUS
<1> HIDE DEF s, n
<1>5. Ahead(a, s) = n + 1 /\ Nth(a, n) = b
  BY <1>1, <1>2, <1>3, <1>4
<1> QED BY <1>5, Zenon DEF s, n
-----------------------------------------------------------------------------
(* There are NUM descriptors. *)
LEMMA DescFinite == IsFiniteSet(Desc) /\ Cardinality(Desc) = NUM
<1>1. 0 \in Int /\ NUM - 1 \in Int /\ ~(0 > NUM - 1) /\ NUM - 1 - 0 + 1 = NUM
  BY ConstAssumption
<1> QED BY <1>1, FS_Interval, Zenon DEF Desc

(* A ring of distinct heads that leaves a descriptor out is not full. *)
LEMMA RingShort ==
  ASSUME NEW n \in Nat, NEW f \in [0 .. n - 1 -> Desc], NEW d \in Desc,
         \A i, j \in 0 .. n - 1 : f[i] = f[j] => i = j,
         \A i \in 0 .. n - 1 : f[i] # d
  PROVE  n < NUM
<1>1. NUM \in Nat \ {0}
  BY ConstAssumption
<1>3. IsFiniteSet(Desc \ {d}) /\ Cardinality(Desc \ {d}) = NUM - 1
  BY DescFinite, FS_RemoveElement, Zenon
<1>4. f \in Injection(0 .. n - 1, Desc \ {d})
  BY Zenon DEF Injection, IsInjective
<1>5. Cardinality(0 .. n - 1) <= NUM - 1
  BY <1>3, <1>4, FS_Injection
<1>6. Cardinality(0 .. n - 1) = n
  <2>1. 0 \in Int /\ n - 1 \in Int /\ (0 > n - 1 => n = 0) /\ n - 1 - 0 + 1 = n
    OBVIOUS
  <2> QED BY <2>1, FS_Interval, Zenon
<1> QED BY <1>1, <1>5, <1>6

(* The numbers below one of them tell the members of S apart. *)
LEMMA LowestExist ==
  ASSUME NEW S \in SUBSET Desc
  PROVE  /\ Cardinality(S) \in Nat
         /\ \A n \in 0 .. Cardinality(S) - 1 : \E d \in S : Cardinality({e \in S : e < d}) = n
<1> DEFINE Below(d) == {e \in S : e < d}
           c == Cardinality(S)
           f == [d \in S |-> Cardinality(Below(d))]
<1>1. IsFiniteSet(S) /\ c \in Nat
  BY DescFinite, FS_Subset, FS_CardinalityType, Zenon
<1>2. ASSUME NEW d \in S PROVE IsFiniteSet(Below(d)) /\ Cardinality(Below(d)) \in 0 .. c - 1
  <2>1. Below(d) \subseteq S \ {d}
    BY ConstAssumption DEF Desc
  <2>2. IsFiniteSet(S \ {d}) /\ Cardinality(S \ {d}) = c - 1
    BY <1>1, FS_RemoveElement, Zenon
  <2>3. IsFiniteSet(Below(d)) /\ Cardinality(Below(d)) <= c - 1 /\ Cardinality(Below(d)) \in Nat
    BY <2>1, <2>2, FS_Subset, FS_CardinalityType
  <2> QED BY <1>1, <2>3
<1>3. ASSUME NEW d \in S, NEW e \in S, d < e PROVE Cardinality(Below(d)) # Cardinality(Below(e))
  <2>1. Below(d) \in SUBSET Below(e) /\ d \in Below(e) /\ d \notin Below(d)
    <3>1. d \in Int /\ e \in Int /\ \A b \in S : b \in Int
      BY ConstAssumption DEF Desc
    <3>2. ~(d < d) /\ \A b \in S : b < d => b < e
      BY <1>3, <3>1
    <3> QED BY <1>3, <3>2, Zenon
  <2> QED BY <1>2, <2>1, FS_Subset, Zenon
<1>4. f \in Injection(S, 0 .. c - 1)
  <2>1. f \in [S -> 0 .. c - 1]
    BY <1>2, Zenon
  <2>2. ASSUME NEW d \in S, NEW e \in S, f[d] = f[e] PROVE d = e
    <3>1. d \in Int /\ e \in Int
      BY ConstAssumption DEF Desc
    <3>2. ~(d < e) /\ ~(e < d)
      BY <1>3, <2>2, Zenon
    <3> QED BY <3>1, <3>2
  <2> HIDE DEF f
  <2> QED BY <2>1, <2>2, Zenon DEF Injection, IsInjective
<1>5. IsFiniteSet(0 .. c - 1) /\ Cardinality(0 .. c - 1) = c
  <2>1. 0 \in Int /\ c - 1 \in Int /\ (0 > c - 1 => c = 0) /\ c - 1 - 0 + 1 = c
    BY <1>1
  <2> QED BY <2>1, FS_Interval, Zenon
<1>6. f \in Surjection(S, 0 .. c - 1)
  BY <1>4, <1>5, FS_Injection, Zenon
<1>7. \A n \in 0 .. c - 1 : \E d \in S : f[d] = n
  BY <1>6, Zenon DEF Surjection
<1> QED BY <1>1, <1>7, Zenon

(* alloc3_desc takes three different free descriptors. *)
LEMMA LowestRight ==
  ASSUME free \subseteq Desc, Cardinality(free) >= 3
  PROVE  /\ Lowest3 \in [1 .. 3 -> Desc]
         /\ \A k \in 1 .. 3 : Lowest3[k] \in free
         /\ \A j, k \in 1 .. 3 : Lowest3[j] = Lowest3[k] => j = k
<1>1. ASSUME NEW k \in 1 .. 3
      PROVE  Lowest3[k] \in free /\ Cardinality({e \in free : e < Lowest3[k]}) = k - 1
  <2>1. k - 1 \in 0 .. Cardinality(free) - 1
    BY LowestExist
  <2>2. \E d \in free : Cardinality({e \in free : e < d}) = k - 1
    BY <2>1, LowestExist, Zenon
  <2> QED BY <2>2, Zenon DEF Lowest3
<1>2. Lowest3 \in [1 .. 3 -> Desc]
  BY <1>1, Zenon DEF Lowest3
<1>3. ASSUME NEW j \in 1 .. 3, NEW k \in 1 .. 3, Lowest3[j] = Lowest3[k] PROVE j = k
  <2>1. j - 1 = k - 1
    BY <1>1, <1>3, Zenon
  <2> QED BY <2>1
<1> QED BY <1>1, <1>2, <1>3, Zenon
-----------------------------------------------------------------------------
(* The four indices, and what is between them. *)
LEMMA Ranges ==
  ASSUME TypeOK
  PROVE  /\ seen \in 0 .. Index - 1 /\ avail_idx \in 0 .. Index - 1 /\ Pending \in 0 .. Index - 1
         /\ used_idx \in 0 .. Index - 1 /\ used_dev \in 0 .. Index - 1 /\ Served \in 0 .. Index - 1
<1>1. /\ seen \in 0 .. Index - 1 /\ avail_idx \in 0 .. Index - 1
      /\ used_idx \in 0 .. Index - 1 /\ used_dev \in 0 .. Index - 1
  BY Zenon DEF TypeOK
<1> QED BY <1>1, Wraps, Zenon DEF Pending, Served

(* Requests that wait do not fill a ring: each has two more descriptors. *)
LEMMA WaitersShort ==
  ASSUME TypeOK, DescRight, NEW n \in Nat, NEW f \in [0 .. n - 1 -> Desc],
         \A i, j \in 0 .. n - 1 : f[i] = f[j] => i = j,
         \A i \in 0 .. n - 1 : Waits(f[i])
  PROVE  n < NUM
<1>1. CASE n = 0
  BY <1>1, ConstAssumption
<1>2. CASE n > 0
  <2>1. 0 \in 0 .. n - 1
    BY <1>2
  <2>2. PICK p \in Procs : pc[p] = "buf_sleep" /\ idx[p][1] = f[0]
    BY <2>1, Zenon DEF Waits
  <2>3. idx[p][2] \in Desc
    BY DEF TypeOK
  <2>4. ASSUME NEW i \in 0 .. n - 1 PROVE f[i] # idx[p][2]
    <3>1. PICK q \in Procs : pc[q] = "buf_sleep" /\ idx[q][1] = f[i]
      BY Zenon DEF Waits
    <3>2. Owner(p) /\ Owner(q) /\ 1 \in 1 .. 3 /\ 2 \in 1 .. 3 /\ 1 # 2
      BY <2>2, <3>1 DEF Owner, Queued
    <3>3. OneChain BY Zenon DEF DescRight
    <3>4. idx[q][1] = idx[p][2] => 1 = 2 BY <3>2, <3>3, ZenonT(30) DEF OneChain
    <3> QED BY <3>1, <3>4
  <2>5. \A i \in 0 .. n - 1 : f[i] # idx[p][2] BY <2>4, Zenon
  <2>6. ASSUME NEW d \in Desc, \A i \in 0 .. n - 1 : f[i] # d PROVE n < NUM
    BY <2>6, RingShort, Zenon
  <2> QED BY <2>3, <2>5, <2>6, Zenon
<1> QED BY <1>1, <1>2

(* Neither ring is ever full. *)
LEMMA RingsShort ==
  ASSUME TypeOK, DescRight, PlacesRight
  PROVE  Pending \in Nat /\ Pending < NUM /\ Served \in Nat /\ Served < NUM
<1>0. ASSUME NEW h, Waits(h) PROVE h \in Desc
  BY <1>0 DEF Waits, TypeOK
<1>1. Pending \in Nat /\ Served \in Nat
  BY Ranges, ConstAssumption
<1>2. Pending < NUM
  <2> DEFINE f == [i \in 0 .. Pending - 1 |-> PendingHead(i)]
  <2>1. \A i \in 0 .. Pending - 1 : Waits(PendingHead(i))
    BY Zenon DEF PlacesRight, PendingRight
  <2>2. \A i, j \in 0 .. Pending - 1 : PendingHead(i) = PendingHead(j) => i = j
    BY Zenon DEF PlacesRight, PendingOnce
  <2>3. f \in [0 .. Pending - 1 -> Desc]
    BY <1>0, <2>1, Zenon
  <2>4. \A i \in 0 .. Pending - 1 : f[i] = PendingHead(i)
    OBVIOUS
  <2> HIDE DEF f
  <2>5. /\ \A i, j \in 0 .. Pending - 1 : f[i] = f[j] => i = j
        /\ \A i \in 0 .. Pending - 1 : Waits(f[i])
    BY <2>1, <2>2, <2>4, Zenon
  <2> QED BY <1>1, <2>3, <2>5, WaitersShort, Zenon
<1>3. Served < NUM
  <2> DEFINE f == [i \in 0 .. Served - 1 |-> ServedHead(i)]
  <2>1. \A i \in 0 .. Served - 1 : Waits(ServedHead(i))
    BY Zenon DEF PlacesRight, ServedRight
  <2>2. \A i, j \in 0 .. Served - 1 : ServedHead(i) = ServedHead(j) => i = j
    BY Zenon DEF PlacesRight, ServedOnce
  <2>3. f \in [0 .. Served - 1 -> Desc]
    BY <1>0, <2>1, Zenon
  <2>4. \A i \in 0 .. Served - 1 : f[i] = ServedHead(i)
    OBVIOUS
  <2> HIDE DEF f
  <2>5. /\ \A i, j \in 0 .. Served - 1 : f[i] = f[j] => i = j
        /\ \A i \in 0 .. Served - 1 : Waits(f[i])
    BY <2>1, <2>2, <2>4, Zenon
  <2> QED BY <1>1, <2>3, <2>5, WaitersShort, Zenon
<1> QED BY <1>1, <1>2, <1>3, Zenon

(* A step that touches neither the rings nor a request that waits. *)
LEMMA PlacesKept ==
  ASSUME PlacesRight, UNCHANGED <<seen, avail_idx, used, used_dev, used_idx, inflight>>,
         \A i \in 0 .. Pending - 1 : PendingHead(i)' = PendingHead(i),
         \A p \in Procs : pc'[p] = "buf_sleep" <=> pc[p] = "buf_sleep",
         \A p \in Procs : pc[p] = "buf_sleep" =>
           idx'[p] = idx[p] /\ moved'[p] = moved[p] /\ info'[idx[p][1]] = info[idx[p][1]]
  PROVE  PlacesRight'
<1>1. Pending' = Pending /\ Served' = Served /\ \A i : ServedHead(i)' = ServedHead(i)
  BY Zenon DEF Pending, Served, ServedHead
<1>2. \A h : Waits(h) => Waits(h)' /\ info'[h] = info[h]
  BY Zenon DEF Waits
<1>3. InflightRight'
  BY <1>2, Zenon DEF PlacesRight, InflightRight
<1>4. PendingRight'
  BY <1>1, <1>2, Zenon DEF PlacesRight, PendingRight
<1>5. ServedRight'
  <2>1. ASSUME NEW i \in 0 .. Served - 1
        PROVE  /\ Waits(ServedHead(i))' /\ ServedHead(i)' \notin inflight' /\ info'[ServedHead(i)'].ok
               /\ \A p \in Procs : pc'[p] = "buf_sleep" /\ idx'[p][1] = ServedHead(i)' => moved'[p]
    <3>1. /\ Waits(ServedHead(i)) /\ ServedHead(i) \notin inflight /\ info[ServedHead(i)].ok
          /\ \A p \in Procs : pc[p] = "buf_sleep" /\ idx[p][1] = ServedHead(i) => moved[p]
      BY Zenon DEF PlacesRight, ServedRight
    <3> QED BY <1>1, <1>2, <3>1, Zenon
  <2> QED BY <1>1, <2>1, Zenon DEF ServedRight
<1>6. PendingOnce'
  <2>1. ASSUME NEW i \in 0 .. Pending - 1, NEW j \in 0 .. Pending - 1, PendingHead(i)' = PendingHead(j)'
        PROVE  i = j
    <3>1. PendingHead(i) = PendingHead(j) BY <2>1, Zenon
    <3> QED BY <3>1, Zenon DEF PlacesRight, PendingOnce
  <2> QED BY <1>1, <2>1, Zenon DEF PendingOnce
<1>7. ServedOnce'
  BY <1>1, Zenon DEF PlacesRight, ServedOnce
<1>8. NotBoth'
  BY <1>1, Zenon DEF PlacesRight, NotBoth
<1> QED BY <1>3, <1>4, <1>5, <1>6, <1>7, <1>8, Zenon DEF PlacesRight
-----------------------------------------------------------------------------
(* A step that takes and frees no descriptor. *)
LEMMA ChainsKept ==
  ASSUME DescRight, UNCHANGED <<free, idx>>, \A p \in Procs : Owner(p)' <=> Owner(p)
  PROVE  DescRight'
<1>1. OneChain'
  BY Zenon DEF DescRight, OneChain
<1>2. NotFree'
  BY Zenon DEF DescRight, NotFree
<1>3. NoneLost'
  <2>1. ASSUME NEW d \in Desc \ free PROVE \E p \in Procs, k \in 1 .. 3 : Owner(p)' /\ idx'[p][k] = d
    <3>1. PICK p \in Procs, k \in 1 .. 3 : Owner(p) /\ idx[p][k] = d
      BY Zenon DEF DescRight, NoneLost
    <3> QED BY <3>1, Zenon
  <2> QED BY <2>1, Zenon DEF NoneLost, Desc
<1> QED BY <1>1, <1>2, <1>3, Zenon DEF DescRight

(* A step that moves only processes without a chain, or the interrupt. *)
LEMMA ControlStep ==
  ASSUME VirtioInv, TypeOK', LockRight',
         UNCHANGED <<free, desc, avail, avail_idx, used_idx, info, busy, idx, used, used_dev, seen, inflight, moved>>,
         \A p \in Procs : pc'[p] = pc[p] \/ (pc[p] \in {"user"} \cup Waiting /\ pc'[p] \in {"user"} \cup Waiting)
  PROVE  VirtioInv'
<1>1. \A p \in Procs : /\ Owner(p)' <=> Owner(p)
                       /\ \A l \in {"publish", "buf_sleep", "done"} : pc'[p] = l <=> pc[p] = l
                       /\ pc'[p] \in Queued <=> pc[p] \in Queued
  BY Zenon DEF Owner, Queued, Waiting
<1>2. DescRight'
  BY <1>1, ChainsKept, Zenon DEF VirtioInv
<1>3. RequestsRight'
  <2>1. \A p \in Procs : ChainRight(p)' <=> ChainRight(p)
    BY Zenon DEF ChainRight
  <2> QED BY <1>1, <2>1, Zenon DEF VirtioInv, RequestsRight
<1>4. PlacesRight'
  <2>1. \A i \in 0 .. Pending - 1 : PendingHead(i)' = PendingHead(i)
    BY Zenon DEF PendingHead
  <2>2. \A p \in Procs : pc'[p] = "buf_sleep" <=> pc[p] = "buf_sleep"
    BY <1>1, Zenon
  <2> QED BY <2>1, <2>2, PlacesKept, Zenon DEF VirtioInv
<1> QED BY <1>2, <1>3, <1>4, Zenon DEF VirtioInv

(* A call of virtio_disk_rw. *)
LEMMA RwRight ==
  ASSUME VirtioInv, NEW p \in Procs, Rw(p)
  PROVE  VirtioInv'
<1>1. TypeOK' /\ LockRight'
  BY Zenon DEF VirtioInv, TypeOK, LockRight, Rw, Goto, Waiting, Queued, device
<1>2. \A q \in Procs : pc'[q] = pc[q] \/ (pc[q] \in {"user"} \cup Waiting /\ pc'[q] \in {"user"} \cup Waiting)
  BY Zenon DEF VirtioInv, TypeOK, Rw, Goto, Waiting
<1>3. UNCHANGED <<free, desc, avail, avail_idx, used_idx, info, busy, idx, used, used_dev, seen, inflight, moved>>
  BY Zenon DEF Rw, device
<1> QED BY <1>1, <1>2, <1>3, ControlStep, Zenon

(* alloc3_desc that finds too few. *)
LEMMA AllocFailsRight ==
  ASSUME VirtioInv, NEW p \in Procs, AllocFails(p)
  PROVE  VirtioInv'
<1>1. /\ pc' \in [Procs -> {"user", "fill", "done"} \cup Waiting \cup Queued]
      /\ \A q \in Procs : pc'[q] = pc[q] \/ (pc[q] \in {"user"} \cup Waiting /\ pc'[q] \in {"user"} \cup Waiting)
  BY Zenon DEF VirtioInv, TypeOK, AllocFails, WakeFree, Waiting
<1>2. UNCHANGED <<free, desc, avail, avail_idx, used_idx, info, busy, idx, used, used_dev, seen, inflight, moved, lock, isr>>
  BY Zenon DEF AllocFails, device
<1>3. TypeOK'
  BY <1>1, <1>2, Zenon DEF VirtioInv, TypeOK
<1>4. LockRight'
  BY <1>1, <1>2, Zenon DEF VirtioInv, LockRight, Waiting
<1> QED BY <1>1, <1>2, <1>3, <1>4, ControlStep, Zenon

(* The handler takes the lock, ends its loop, and releases the lock. *)
LEMMA HandlerRight ==
  ASSUME VirtioInv, Ack \/ LoopEnd \/ HandlerEnd
  PROVE  VirtioInv'
<1>1. UNCHANGED <<free, desc, avail, avail_idx, used_idx, info, busy, idx, used, used_dev, seen, inflight, moved, pc>>
  BY Zenon DEF Ack, LoopEnd, HandlerEnd, device
<1>2. isr' \in BOOLEAN
  BY Zenon DEF VirtioInv, TypeOK, Ack, LoopEnd, HandlerEnd, device, AckFirst
<1>3. lock' \notin Procs /\ lock \notin Procs /\ lock' \in {None, "intr", "intr_end"}
  BY ConstAssumption, Zenon DEF Ack, LoopEnd, HandlerEnd
<1>4. TypeOK'
  BY <1>1, <1>2, <1>3, Zenon DEF VirtioInv, TypeOK
<1>5. LockRight'
  BY <1>1, <1>3, Zenon DEF VirtioInv, LockRight
<1> QED BY <1>1, <1>4, <1>5, ControlStep, Zenon

(* A process that computes, and a step that changes nothing. *)
LEMMA IdleRight ==
  ASSUME VirtioInv, UNCHANGED vars
  PROVE  VirtioInv'
<1>1. UNCHANGED <<free, desc, avail, avail_idx, used_idx, info, busy, idx, used, used_dev, seen, inflight, moved, pc, lock, isr>>
  BY Zenon DEF vars, driver, device
<1>2. TypeOK' /\ LockRight'
  BY <1>1, Zenon DEF VirtioInv, TypeOK, LockRight
<1> QED BY <1>1, <1>2, ControlStep, Zenon
(* alloc3_desc: p gets three of the free descriptors, and the lock. *)
LEMMA AllocRight ==
  ASSUME VirtioInv, NEW p \in Procs, alloc3_desc(p)
  PROVE  VirtioInv'
<1> DEFINE low == Lowest3
<1>1. /\ low \in [1 .. 3 -> Desc] /\ \A k \in 1 .. 3 : low[k] \in free
      /\ \A j, k \in 1 .. 3 : low[j] = low[k] => j = k
  <2>1. free \subseteq Desc /\ Cardinality(free) >= 3
    BY Zenon DEF VirtioInv, TypeOK, alloc3_desc
  <2> QED BY <2>1, LowestRight, Zenon
<1>2. /\ pc[p] = "lock" /\ lock = None /\ lock' = p /\ free' = free \ {low[k] : k \in 1 .. 3}
      /\ idx' = [idx EXCEPT ![p] = low] /\ pc' = [pc EXCEPT ![p] = "fill"]
  BY Zenon DEF alloc3_desc, Goto
<1>3. UNCHANGED <<desc, avail, avail_idx, used_idx, info, busy, used, used_dev, seen, inflight, isr, moved>>
  BY Zenon DEF alloc3_desc, device
<1> HIDE DEF low
<1>4. /\ pc \in [Procs -> {"user", "fill", "done"} \cup Waiting \cup Queued]
      /\ idx \in [Procs -> [1 .. 3 -> Desc]] /\ free \subseteq Desc
  BY Zenon DEF VirtioInv, TypeOK
<1>5. /\ pc'[p] = "fill" /\ idx'[p] = low /\ ~Owner(p)
      /\ \A q \in Procs \ {p} : pc'[q] = pc[q] /\ idx'[q] = idx[q] /\ (Owner(q)' <=> Owner(q))
  BY <1>2, <1>4, Zenon DEF Owner, Queued
<1>6. TypeOK'
  BY <1>1, <1>2, <1>3, Zenon DEF VirtioInv, TypeOK
<1>7. LockRight'
  BY <1>2, <1>5, ConstAssumption, Zenon DEF VirtioInv, LockRight
<1>8. DescRight'
  <2>1. ASSUME NEW q \in Procs \ {p}, NEW j \in 1 .. 3, NEW k \in 1 .. 3, Owner(q) PROVE idx[q][j] # low[k]
    BY <1>1, <2>1, Zenon DEF VirtioInv, DescRight, NotFree
  <2>2. OneChain'
    <3>1. ASSUME NEW q \in Procs, NEW r \in Procs, NEW j \in 1 .. 3, NEW k \in 1 .. 3,
                 Owner(q)', Owner(r)', idx'[q][j] = idx'[r][k]
          PROVE  q = r /\ j = k
      <4>1. CASE q = p /\ r = p
        BY <1>1, <1>5, <3>1, <4>1, Zenon
      <4>2. CASE q # p /\ r = p
        BY <1>5, <2>1, <3>1, <4>2
      <4>3. CASE q = p /\ r # p
        BY <1>5, <2>1, <3>1, <4>3, Zenon
      <4>4. CASE q # p /\ r # p
        <5>1. Owner(q) /\ Owner(r) /\ idx[q][j] = idx[r][k] BY <1>5, <3>1, <4>4, Zenon
        <5> QED BY <5>1, Zenon DEF VirtioInv, DescRight, OneChain
      <4> QED BY <4>1, <4>2, <4>3, <4>4, Zenon
    <3> QED BY <3>1, Zenon DEF OneChain
  <2>3. NotFree'
    <3>1. ASSUME NEW q \in Procs, NEW k \in 1 .. 3, Owner(q)' PROVE idx'[q][k] \notin free'
      <4>1. CASE q = p
        BY <1>2, <1>5, <4>1
      <4>2. CASE q # p
        <5>1. Owner(q) /\ idx'[q] = idx[q] BY <1>5, <3>1, <4>2, Zenon
        <5>2. idx[q][k] \notin free BY <5>1, Zenon DEF VirtioInv, DescRight, NotFree
        <5> QED BY <1>2, <5>1, <5>2
      <4> QED BY <4>1, <4>2, Zenon
    <3> QED BY <3>1, Zenon DEF NotFree
  <2>4. NoneLost'
    <3>1. ASSUME NEW d \in Desc, d \notin free' PROVE \E q \in Procs, k \in 1 .. 3 : Owner(q)' /\ idx'[q][k] = d
      <4>1. CASE d \in free
        <5>1. PICK k \in 1 .. 3 : d = low[k] BY <1>2, <3>1, <4>1, Zenon
        <5>2. Owner(p)' BY <1>5, Zenon DEF Owner
        <5> QED BY <1>5, <5>1, <5>2, Zenon
      <4>2. CASE d \notin free
        <5>1. PICK q \in Procs, k \in 1 .. 3 : Owner(q) /\ idx[q][k] = d
          BY <4>2, Zenon DEF VirtioInv, DescRight, NoneLost
        <5>2. q # p BY <1>5, <5>1, Zenon
        <5> QED BY <1>5, <5>1, <5>2, Zenon
      <4> QED BY <4>1, <4>2, Zenon
    <3> QED BY <3>1, Zenon DEF NoneLost, Desc
  <2> QED BY <2>2, <2>3, <2>4, Zenon DEF DescRight
<1>9. RequestsRight'
  <2>1. ASSUME NEW q \in Procs, q # p
        PROVE  /\ ChainRight(q)' <=> ChainRight(q)
               /\ pc'[q] = pc[q]
               /\ avail'[avail_idx' % NUM] = idx'[q][1] <=> avail[avail_idx % NUM] = idx[q][1]
    BY <1>3, <1>5, <2>1, Zenon DEF ChainRight
  <2>2. pc'[p] \notin Queued /\ pc'[p] # "done" /\ pc'[p] # "publish"
    BY <1>5, Zenon DEF Queued
  <2> QED BY <1>3, <2>1, <2>2, ZenonT(30) DEF VirtioInv, RequestsRight
<1>10. PlacesRight'
  <2>1. \A i \in 0 .. Pending - 1 : PendingHead(i)' = PendingHead(i)
    BY <1>3, Zenon DEF PendingHead
  <2>2. \A q \in Procs : /\ pc'[q] = "buf_sleep" <=> pc[q] = "buf_sleep"
                         /\ pc[q] = "buf_sleep" => idx'[q] = idx[q]
    BY <1>2, <1>5, Zenon
  <2> QED BY <1>3, <2>1, <2>2, PlacesKept, Zenon DEF VirtioInv
<1> QED BY <1>6, <1>7, <1>8, <1>9, <1>10, Zenon DEF VirtioInv
(* Two requests have no descriptor in common, and one has three. *)
LEMMA Apart ==
  ASSUME DescRight, NEW p \in Procs, NEW q \in Procs, Owner(p), Owner(q), NEW j \in 1 .. 3, NEW k \in 1 .. 3,
         p # q \/ j # k
  PROVE  idx[p][j] # idx[q][k]
BY Zenon DEF DescRight, OneChain

(* A step that leaves the descriptors of q alone. *)
LEMMA ChainStays ==
  ASSUME NEW q \in Procs, idx'[q] = idx[q], info'[idx[q][1]].b = info[idx[q][1]].b,
         \A k \in 1 .. 3 : desc'[idx[q][k]] = desc[idx[q][k]]
  PROVE  ChainRight(q)' <=> ChainRight(q)
<1>1. /\ desc'[idx[q][1]] = desc[idx[q][1]] /\ desc'[idx[q][2]] = desc[idx[q][2]]
      /\ desc'[idx[q][3]] = desc[idx[q][3]]
  OBVIOUS
<1> QED BY <1>1, Zenon DEF ChainRight

(* The chain is formatted: the slot it is put in holds no pending head. *)
LEMMA FormatRight ==
  ASSUME VirtioInv, NEW p \in Procs, Format(p)
  PROVE  VirtioInv'
<1> DEFINE a == idx[p][1]  b == idx[p][2]  c == idx[p][3]  s == avail_idx % NUM
<1>1. /\ pc[p] = "fill" /\ pc' = [pc EXCEPT ![p] = "publish"] /\ busy' = [busy EXCEPT ![p] = TRUE]
      /\ desc' = [desc EXCEPT ![a] = [next |-> b, buf |-> None], ![b] = [next |-> c, buf |-> p], ![c] = NoDesc]
      /\ info' = [info EXCEPT ![a] = [b |-> p, ok |-> FALSE]] /\ avail' = [avail EXCEPT ![s] = a]
      /\ UNCHANGED <<free, avail_idx, used_idx, lock, idx, used, used_dev, seen, inflight, isr, moved>>
  BY Zenon DEF Format, Goto, device
<1>2. Owner(p)
  BY <1>1, Zenon DEF Owner
<1>3. a \in Desc /\ b \in Desc /\ c \in Desc /\ a # b /\ a # c /\ b # c
  <2>1. 1 \in 1 .. 3 /\ 2 \in 1 .. 3 /\ 3 \in 1 .. 3 /\ 1 # 2 /\ 1 # 3 /\ 2 # 3
    OBVIOUS
  <2>2. a # b /\ a # c /\ b # c
    BY <1>2, <2>1, Apart, Zenon DEF VirtioInv
  <2>3. a \in Desc /\ b \in Desc /\ c \in Desc
    BY <2>1 DEF VirtioInv, TypeOK
  <2> QED BY <2>2, <2>3, Zenon
<1>4. /\ seen \in 0 .. Index - 1 /\ avail_idx \in 0 .. Index - 1 /\ Pending \in 0 .. NUM - 1
      /\ Nth(seen, Pending) = avail_idx /\ s \in Desc
  <2>1. seen \in 0 .. Index - 1 /\ avail_idx \in 0 .. Index - 1 /\ Pending \in Nat /\ Pending < NUM
    BY Ranges, RingsShort, Zenon DEF VirtioInv
  <2>2. Nth(seen, Pending) = avail_idx
    BY <2>1, Pushed, Zenon DEF Pending
  <2>3. NUM \in Nat \ {0} /\ Pending \in 0 .. NUM - 1 /\ Pending \in 0 .. Index - 1
    BY <2>1, ConstAssumption
  <2>4. Nth(seen, Pending) % NUM \in Desc
    BY <2>1, <2>3, SlotIs, Zenon
  <2> QED BY <2>1, <2>2, <2>3, <2>4, Zenon
<1>5. /\ pc \in [Procs -> {"user", "fill", "done"} \cup Waiting \cup Queued] /\ busy \in [Procs -> BOOLEAN]
      /\ desc \in [Desc -> [next : Desc \cup {None}, buf : Procs \cup {None}]]
      /\ info \in [Desc -> [b : Procs \cup {None}, ok : BOOLEAN]] /\ avail \in [Desc -> Desc \cup {None}]
  BY Zenon DEF VirtioInv, TypeOK
<1> HIDE DEF s
<1>6. TypeOK'
  <2>1. desc' \in [Desc -> [next : Desc \cup {None}, buf : Procs \cup {None}]]
    BY <1>1, <1>3, <1>5, Zenon DEF NoDesc
  <2>2. info' \in [Desc -> [b : Procs \cup {None}, ok : BOOLEAN]] /\ avail' \in [Desc -> Desc \cup {None}]
    BY <1>1, <1>3, <1>4, <1>5, Zenon
  <2>3. busy' \in [Procs -> BOOLEAN] /\ pc' \in [Procs -> {"user", "fill", "done"} \cup Waiting \cup Queued]
    BY <1>1, <1>5, Zenon DEF Queued
  <2> QED BY <1>1, <2>1, <2>2, <2>3, Zenon DEF VirtioInv, TypeOK
<1>7. /\ pc'[p] = "publish" /\ busy'[p]
      /\ \A q \in Procs : q # p => pc'[q] = pc[q] /\ busy'[q] = busy[q]
  BY <1>1, <1>5, Zenon
<1>8. LockRight'
  BY <1>1, <1>7, Zenon DEF VirtioInv, LockRight
<1>9. DescRight'
  <2>1. \A q \in Procs : Owner(q)' <=> Owner(q)
    BY <1>2, <1>7, Zenon DEF Owner, Queued
  <2> QED BY <1>1, <2>1, ChainsKept, Zenon DEF VirtioInv
<1>10. ASSUME NEW q \in Procs, q # p, Owner(q)
       PROVE  /\ \A k \in 1 .. 3 : desc'[idx[q][k]] = desc[idx[q][k]]
              /\ info'[idx[q][1]] = info[idx[q][1]]
  <2>1. \A k \in 1 .. 3 : idx[q][k] \in Desc
    BY ZenonT(30) DEF VirtioInv, TypeOK
  <2>2. \A k \in 1 .. 3 : idx[q][k] # a /\ idx[q][k] # b /\ idx[q][k] # c
    BY <1>2, <1>10, Apart DEF VirtioInv
  <2>3. ASSUME NEW d \in Desc, d # a, d # b, d # c PROVE desc'[d] = desc[d] /\ info'[d] = info[d]
    BY <1>1, <1>5, <2>3, Zenon
  <2> QED BY <2>1, <2>2, <2>3
<1>11. RequestsRight'
  <2>1. ChainRight(p)' /\ avail'[s] = a
    <3>1. desc'[a].next = b /\ desc'[b] = [next |-> c, buf |-> p] /\ desc'[c] = NoDesc
      BY <1>1, <1>3, <1>5, Zenon
    <3>2. info'[a].b = p /\ avail'[s] = a
      BY <1>1, <1>3, <1>4, <1>5, Zenon
    <3> QED BY <1>1, <3>1, <3>2 DEF ChainRight, NoDesc
  <2>2. ASSUME NEW q \in Procs, q # p
        PROVE  /\ Owner(q) => (ChainRight(q)' <=> ChainRight(q))
               /\ pc'[q] # "publish"
    <3>1. Owner(q) => (ChainRight(q)' <=> ChainRight(q))
      BY <1>1, <1>10, <2>2, ChainStays, Zenon
    <3>2. pc'[q] # "publish"
      BY <1>1, <1>7, <2>2, Zenon DEF VirtioInv, LockRight
    <3> QED BY <3>1, <3>2, Zenon
  <2>3. ASSUME NEW q \in Procs
        PROVE  /\ pc'[q] \in Queued => busy'[q] /\ ChainRight(q)'
               /\ pc'[q] = "done" => ~busy'[q] /\ moved'[q] /\ ChainRight(q)'
               /\ pc'[q] = "publish" => avail'[avail_idx' % NUM] = idx'[q][1]
    <3>1. CASE q = p
      BY <1>1, <1>7, <2>1, <3>1, Zenon DEF s
    <3>2. CASE q # p
      <4>1. /\ pc[q] \in Queued => busy[q] /\ ChainRight(q) /\ Owner(q)
            /\ pc[q] = "done" => ~busy[q] /\ moved[q] /\ ChainRight(q) /\ Owner(q)
        BY Zenon DEF VirtioInv, RequestsRight, Owner
      <4> QED BY <1>1, <1>7, <2>2, <3>2, <4>1, Zenon
    <3> QED BY <3>1, <3>2, Zenon
  <2> QED BY <2>3, Zenon DEF RequestsRight
<1>12. PlacesRight'
  <2>1. ASSUME NEW i \in 0 .. Pending - 1 PROVE PendingHead(i)' = PendingHead(i)
    <3>1. i \in 0 .. NUM - 1 /\ i # Pending /\ i \in 0 .. Index - 1
      BY <1>4, ConstAssumption
    <3>2. Nth(seen, i) % NUM # s /\ Nth(seen, i) % NUM \in Desc
      BY <1>4, <3>1, SlotsDiffer, SlotIs, Zenon DEF s
    <3>3. Nth(seen, i)' = Nth(seen, i)
      BY <1>1, Zenon DEF Nth
    <3> QED BY <1>1, <1>5, <3>2, <3>3, Zenon DEF PendingHead
  <2>2. \A q \in Procs : /\ pc'[q] = "buf_sleep" <=> pc[q] = "buf_sleep"
                         /\ pc[q] = "buf_sleep" => q # p /\ Owner(q)
    BY <1>1, <1>7, Zenon DEF Owner, Queued
  <2>3. \A q \in Procs : pc[q] = "buf_sleep" =>
          idx'[q] = idx[q] /\ moved'[q] = moved[q] /\ info'[idx[q][1]] = info[idx[q][1]]
    BY <1>1, <1>10, <2>2, Zenon
  <2> QED BY <1>1, <2>1, <2>2, <2>3, PlacesKept, Zenon DEF VirtioInv
<1> QED BY <1>6, <1>8, <1>9, <1>11, <1>12, Zenon DEF VirtioInv
(* avail->idx is advanced: the head of p becomes pending. *)
LEMMA PublishRight ==
  ASSUME VirtioInv, NEW p \in Procs, Publish(p)
  PROVE  VirtioInv'
<1> DEFINE h == idx[p][1]  n == Pending
<1>1. /\ pc[p] = "publish" /\ pc' = [pc EXCEPT ![p] = "buf_sleep"] /\ lock' = None /\ avail_idx' = Succ(avail_idx)
      /\ UNCHANGED <<free, desc, avail, used_idx, info, busy, idx, used, used_dev, seen, inflight, isr, moved>>
  BY Zenon DEF Publish, Goto, device
<1>2. /\ seen \in 0 .. Index - 1 /\ avail_idx \in 0 .. Index - 1 /\ n \in Nat /\ n < NUM
      /\ avail_idx' \in 0 .. Index - 1
  <2>1. seen \in 0 .. Index - 1 /\ avail_idx \in 0 .. Index - 1 /\ n \in Nat /\ n < NUM
    BY Ranges, RingsShort, Zenon DEF VirtioInv
  <2> QED BY <1>1, <2>1, Wraps, Zenon
<1>3. pc \in [Procs -> {"user", "fill", "done"} \cup Waiting \cup Queued]
  BY Zenon DEF VirtioInv, TypeOK
<1>4. /\ pc'[p] = "buf_sleep" /\ Owner(p)
      /\ \A q \in Procs : q # p => pc'[q] = pc[q]
  BY <1>1, <1>3, Zenon DEF Owner, Queued
<1>5. TypeOK'
  <2>1. pc' \in [Procs -> {"user", "fill", "done"} \cup Waiting \cup Queued]
    BY <1>1, <1>3, Zenon DEF Queued
  <2> QED BY <1>1, <1>2, <2>1, Zenon DEF VirtioInv, TypeOK
<1>6. LockRight'
  BY <1>1, <1>4, ConstAssumption, Zenon DEF VirtioInv, LockRight
<1>7. DescRight'
  <2>1. \A q \in Procs : Owner(q)' <=> Owner(q)
    BY <1>4, Zenon DEF Owner, Queued
  <2> QED BY <1>1, <2>1, ChainsKept, Zenon DEF VirtioInv
<1>8. RequestsRight'
  <2>1. \A q \in Procs : ChainRight(q)' <=> ChainRight(q)
    BY <1>1, Zenon DEF ChainRight
  <2>2. \A q \in Procs : pc'[q] # "publish" /\ (q # p => pc'[q] = pc[q])
    BY <1>1, <1>4, Zenon DEF VirtioInv, LockRight
  <2>3. pc[p] \in Queued /\ pc'[p] # "done"
    BY <1>1, <1>4, Zenon DEF Queued
  <2> QED BY <1>1, <2>1, <2>2, <2>3, Zenon DEF VirtioInv, RequestsRight
<1>9. /\ n' = n + 1 /\ PendingHead(n) = h /\ Served' = Served
      /\ \A i : PendingHead(i)' = PendingHead(i) /\ ServedHead(i)' = ServedHead(i)
  <2>1. n' = n + 1 /\ Nth(seen, n) = avail_idx
    BY <1>1, <1>2, Pushed, Zenon DEF Pending
  <2>2. \A i : Nth(seen, i)' = Nth(seen, i) /\ Nth(used_idx, i)' = Nth(used_idx, i)
    BY <1>1, Zenon DEF Nth
  <2>3. Served' = Served /\ \A i : PendingHead(i)' = PendingHead(i) /\ ServedHead(i)' = ServedHead(i)
    BY <1>1, <2>2, Zenon DEF Served, Ahead, PendingHead, ServedHead
  <2>4. avail[avail_idx % NUM] = h
    BY <1>1, Zenon DEF VirtioInv, RequestsRight
  <2>5. PendingHead(n) = h
    BY <2>1, <2>4, Zenon DEF PendingHead
  <2> QED BY <2>1, <2>3, <2>5, Zenon
<1>10. ASSUME NEW g, Waits(g) PROVE Waits(g)' /\ g # h
  <2>1. PICK q \in Procs : pc[q] = "buf_sleep" /\ idx[q][1] = g
    BY <1>10, Zenon DEF Waits
  <2>2. q # p /\ Owner(q) /\ 1 \in 1 .. 3
    BY <1>1, <2>1 DEF Owner, Queued
  <2>3. idx[q][1] # h
    BY <1>4, <2>2, Apart, ZenonT(30) DEF VirtioInv
  <2> QED BY <1>1, <1>4, <2>1, <2>2, <2>3, Zenon DEF Waits
<1>11. \A g : g = h => Waits(g)'
  BY <1>1, <1>4, Zenon DEF Waits
<1>12. \A i \in 0 .. n' - 1 : i = n \/ i \in 0 .. n - 1
  BY <1>2, <1>9
<1> HIDE DEF n, h
<1>13. PlacesRight'
  <2>1. InflightRight' /\ h \notin inflight
    BY <1>1, <1>10, Zenon DEF VirtioInv, PlacesRight, InflightRight
  <2>2. \A i \in 0 .. n - 1 : Waits(PendingHead(i)) /\ PendingHead(i) \notin inflight
    BY Zenon DEF VirtioInv, PlacesRight, PendingRight, n
  <2>3. \A i \in 0 .. Served - 1 : Waits(ServedHead(i)) /\ ServedHead(i) \notin inflight /\ info[ServedHead(i)].ok
    BY Zenon DEF VirtioInv, PlacesRight, ServedRight
  <2>4. PendingRight'
    <3>1. ASSUME NEW i \in 0 .. n' - 1 PROVE Waits(PendingHead(i))' /\ PendingHead(i)' \notin inflight'
      <4>1. CASE i \in 0 .. n - 1
        BY <1>1, <1>9, <1>10, <2>2, <4>1, Zenon
      <4>2. CASE i = n
        BY <1>1, <1>9, <1>11, <2>1, <4>2, Zenon
      <4> QED BY <1>12, <4>1, <4>2, Zenon
    <3> QED BY <3>1, Zenon DEF PendingRight, n
  <2>5. ServedRight'
    <3>1. ASSUME NEW i \in 0 .. Served - 1, NEW q \in Procs, pc'[q] = "buf_sleep", idx[q][1] = ServedHead(i)
          PROVE  moved[q]
      <4>1. q # p
        BY <1>10, <2>3, <3>1, Zenon DEF h
      <4> QED BY <1>4, <3>1, <4>1, Zenon DEF VirtioInv, PlacesRight, ServedRight
    <3> QED BY <1>1, <1>9, <1>10, <2>3, <3>1, Zenon DEF ServedRight
  <2>6. PendingOnce'
    <3>1. ASSUME NEW i \in 0 .. n' - 1, NEW j \in 0 .. n' - 1, PendingHead(i)' = PendingHead(j)' PROVE i = j
      <4>1. CASE i \in 0 .. n - 1 /\ j \in 0 .. n - 1
        BY <1>9, <3>1, <4>1, Zenon DEF VirtioInv, PlacesRight, PendingOnce, n
      <4>2. CASE i = n /\ j = n
        BY <4>2, Zenon
      <4>3. CASE i = n /\ j \in 0 .. n - 1
        BY <1>9, <1>10, <2>2, <3>1, <4>3, Zenon
      <4>4. CASE j = n /\ i \in 0 .. n - 1
        BY <1>9, <1>10, <2>2, <3>1, <4>4, Zenon
      <4> QED BY <1>12, <4>1, <4>2, <4>3, <4>4, Zenon
    <3> QED BY <3>1, Zenon DEF PendingOnce, n
  <2>7. ServedOnce'
    BY <1>9, Zenon DEF VirtioInv, PlacesRight, ServedOnce
  <2>8. NotBoth'
    <3>1. ASSUME NEW i \in 0 .. n' - 1, NEW j \in 0 .. Served - 1 PROVE PendingHead(i)' # ServedHead(j)'
      <4>1. CASE i \in 0 .. n - 1
        BY <1>9, <4>1, Zenon DEF VirtioInv, PlacesRight, NotBoth, n
      <4>2. CASE i = n
        BY <1>9, <1>10, <2>3, <4>2, Zenon
      <4> QED BY <1>12, <4>1, <4>2, Zenon
    <3> QED BY <1>9, <3>1, Zenon DEF NotBoth, n
  <2> QED BY <2>1, <2>4, <2>5, <2>6, <2>7, <2>8, Zenon DEF PlacesRight
<1> QED BY <1>5, <1>6, <1>7, <1>8, <1>13, Zenon DEF VirtioInv
(* free_chain walks exactly the three descriptors of the request. *)
LEMMA ChainIs ==
  ASSUME TypeOK, NEW p \in Procs, ChainRight(p)
  PROVE  Chain(idx[p][1]) = {idx[p][k] : k \in 1 .. 3}
<1>1. idx[p][1] \in Desc /\ idx[p][2] \in Desc /\ idx[p][3] \in Desc /\ None \notin Desc
  BY ConstAssumption DEF TypeOK, Desc
<1>2. desc[idx[p][1]].next = idx[p][2] /\ desc[idx[p][2]].next = idx[p][3]
  BY DEF ChainRight
<1>3. Chain(idx[p][1]) = {idx[p][1]} \cup ({idx[p][2]} \cup {idx[p][3]})
  BY <1>1, <1>2, Zenon DEF Chain
<1> QED BY <1>3

(* free_chain gives back the three descriptors that alloc3_desc took. *)
LEMMA FreeRight ==
  ASSUME VirtioInv, NEW p \in Procs, free_chain(p)
  PROVE  VirtioInv'
<1> DEFINE h == idx[p][1]  mine == {idx[p][k] : k \in 1 .. 3}
<1>1. /\ pc[p] = "done" /\ lock = None /\ info' = [info EXCEPT ![h].b = None]
      /\ pc' = [WakeFree(pc) EXCEPT ![p] = "user"] /\ idx' = [idx EXCEPT ![p] = NoIdx]
      /\ moved' = [moved EXCEPT ![p] = FALSE]
      /\ UNCHANGED <<avail, avail_idx, used_idx, busy, lock, used, used_dev, seen, inflight, isr>>
  BY Zenon DEF free_chain, Woken
<1>2. free' = free \cup mine /\ desc' = [d \in Desc |-> IF d \in mine THEN NoDesc ELSE desc[d]]
  <2>1. ChainRight(p) /\ TypeOK
    BY <1>1, Zenon DEF VirtioInv, RequestsRight
  <2>2. Chain(h) = mine
    BY <2>1, ChainIs, Zenon
  <2> HIDE DEF mine
  <2> QED BY <2>2, Zenon DEF free_chain
<1>3. /\ pc \in [Procs -> {"user", "fill", "done"} \cup Waiting \cup Queued] /\ free \subseteq Desc
      /\ idx \in [Procs -> [1 .. 3 -> Desc]] /\ moved \in [Procs -> BOOLEAN]
      /\ desc \in [Desc -> [next : Desc \cup {None}, buf : Procs \cup {None}]]
      /\ info \in [Desc -> [b : Procs \cup {None}, ok : BOOLEAN]]
  BY Zenon DEF VirtioInv, TypeOK
<1>4. h \in Desc /\ mine \subseteq Desc
  BY <1>3
<1>5. /\ pc' \in [Procs -> {"user", "fill", "done"} \cup Waiting \cup Queued] /\ pc'[p] = "user"
      /\ \A q \in Procs : q # p =>
           \/ pc'[q] = pc[q]
           \/ pc[q] \in {"user"} \cup Waiting /\ pc'[q] \in {"user"} \cup Waiting
      /\ \A q \in Procs : q # p => idx'[q] = idx[q] /\ moved'[q] = moved[q]
  BY <1>1, <1>3, Zenon DEF WakeFree, Waiting
<1>6. TypeOK'
  <2>1. NoIdx \in [1 .. 3 -> Desc]
    BY ConstAssumption DEF NoIdx, Desc
  <2>2. idx' \in [Procs -> [1 .. 3 -> Desc]] /\ moved' \in [Procs -> BOOLEAN] /\ free' \subseteq Desc
    BY <1>1, <1>2, <1>3, <1>4, <2>1, Zenon
  <2> HIDE DEF mine
  <2>3. desc' \in [Desc -> [next : Desc \cup {None}, buf : Procs \cup {None}]]
    BY <1>2, <1>3, Zenon DEF NoDesc
  <2>4. info' \in [Desc -> [b : Procs \cup {None}, ok : BOOLEAN]]
    BY <1>1, <1>3, <1>4, Zenon
  <2> QED BY <1>1, <1>5, <2>2, <2>3, <2>4, Zenon DEF VirtioInv, TypeOK
<1>7. LockRight'
  BY <1>1, <1>5, Zenon DEF VirtioInv, LockRight, Waiting
<1>8. /\ Owner(p) /\ ~Owner(p)'
      /\ \A q \in Procs : q # p =>
           /\ Owner(q)' <=> Owner(q)
           /\ \A l \in {"publish", "buf_sleep", "done"} : pc'[q] = l <=> pc[q] = l
           /\ pc'[q] \in Queued <=> pc[q] \in Queued
  BY <1>1, <1>5, Zenon DEF Owner, Queued, Waiting
<1>9. ASSUME NEW q \in Procs, q # p, Owner(q), NEW k \in 1 .. 3
      PROVE  idx[q][k] \in Desc /\ idx[q][k] \notin mine
  <2>1. idx[q][k] \in Desc
    BY <1>3
  <2>2. \A j \in 1 .. 3 : idx[q][k] # idx[p][j]
    BY <1>8, <1>9, Apart, Zenon DEF VirtioInv
  <2> QED BY <2>1, <2>2, Zenon
<1>10. DescRight'
  <2>1. OneChain'
    <3>1. ASSUME NEW q \in Procs, NEW r \in Procs, NEW j \in 1 .. 3, NEW k \in 1 .. 3,
                 Owner(q)', Owner(r)', idx'[q][j] = idx'[r][k]
          PROVE  q = r /\ j = k
      <4>1. q # p /\ r # p BY <1>8, <3>1, Zenon
      <4>2. Owner(q) /\ Owner(r) /\ idx[q][j] = idx[r][k] BY <1>5, <1>8, <3>1, <4>1, Zenon
      <4> QED BY <4>2, Zenon DEF VirtioInv, DescRight, OneChain
    <3> QED BY <3>1, Zenon DEF OneChain
  <2>2. NotFree'
    <3>1. ASSUME NEW q \in Procs, NEW k \in 1 .. 3, Owner(q)' PROVE idx'[q][k] \notin free'
      <4>1. q # p BY <1>8, <3>1, Zenon
      <4>2. Owner(q) /\ idx'[q] = idx[q] BY <1>5, <1>8, <3>1, <4>1, Zenon
      <4>3. idx[q][k] \notin free /\ idx[q][k] \notin mine
        BY <1>9, <4>1, <4>2, Zenon DEF VirtioInv, DescRight, NotFree
      <4> QED BY <1>2, <4>2, <4>3, Zenon
    <3> QED BY <3>1, Zenon DEF NotFree
  <2>3. NoneLost'
    <3>1. ASSUME NEW d \in Desc, d \notin free' PROVE \E q \in Procs, k \in 1 .. 3 : Owner(q)' /\ idx'[q][k] = d
      <4>1. d \notin free /\ d \notin mine BY <1>2, <3>1, Zenon
      <4>2. PICK q \in Procs, k \in 1 .. 3 : Owner(q) /\ idx[q][k] = d
        BY <4>1, Zenon DEF VirtioInv, DescRight, NoneLost
      <4>3. q # p BY <4>1, <4>2, Zenon
      <4>4. Owner(q)' /\ idx'[q] = idx[q] BY <1>5, <1>8, <4>2, <4>3, Zenon
      <4> QED BY <4>2, <4>4, Zenon
    <3> QED BY <3>1, Zenon DEF NoneLost, Desc
  <2> QED BY <2>1, <2>2, <2>3, Zenon DEF DescRight
<1> HIDE DEF mine
<1>11. ASSUME NEW q \in Procs, q # p, Owner(q)
       PROVE  /\ \A k \in 1 .. 3 : desc'[idx[q][k]] = desc[idx[q][k]]
              /\ info'[idx[q][1]] = info[idx[q][1]]
  <2>1. \A k \in 1 .. 3 : desc'[idx[q][k]] = desc[idx[q][k]]
    BY <1>2, <1>9, <1>11, Zenon
  <2>2. idx[q][1] # h /\ idx[q][1] \in Desc
    BY <1>3, <1>8, <1>11, Apart DEF VirtioInv
  <2>3. info'[idx[q][1]] = info[idx[q][1]]
    BY <1>1, <1>3, <2>2, Zenon
  <2> QED BY <2>1, <2>3, Zenon
<1>12. RequestsRight'
  <2>1. ASSUME NEW q \in Procs
        PROVE  /\ pc'[q] \in Queued => busy'[q] /\ ChainRight(q)'
               /\ pc'[q] = "done" => ~busy'[q] /\ moved'[q] /\ ChainRight(q)'
               /\ pc'[q] = "publish" => avail'[avail_idx' % NUM] = idx'[q][1]
    <3>1. CASE q = p
      BY <1>5, <3>1, Zenon DEF Queued
    <3>2. CASE q # p
      <4>1. Owner(q) => (ChainRight(q)' <=> ChainRight(q))
        BY <1>5, <1>11, <3>2, ChainStays, Zenon
      <4>2. /\ pc[q] \in Queued => busy[q] /\ ChainRight(q) /\ Owner(q)
            /\ pc[q] = "done" => ~busy[q] /\ moved[q] /\ ChainRight(q) /\ Owner(q)
            /\ pc[q] = "publish" => avail[avail_idx % NUM] = idx[q][1]
        BY Zenon DEF VirtioInv, RequestsRight, Owner
      <4> QED BY <1>1, <1>5, <1>8, <3>2, <4>1, <4>2, ZenonT(30)
    <3> QED BY <3>1, <3>2, Zenon
  <2> QED BY <2>1, Zenon DEF RequestsRight
<1>13. PlacesRight'
  <2>1. \A i \in 0 .. Pending - 1 : PendingHead(i)' = PendingHead(i)
    BY <1>1, Zenon DEF PendingHead
  <2>2. \A q \in Procs : /\ pc'[q] = "buf_sleep" <=> pc[q] = "buf_sleep"
                         /\ pc[q] = "buf_sleep" => q # p /\ Owner(q)
    BY <1>1, <1>5, <1>8, Zenon DEF Owner, Queued
  <2>3. \A q \in Procs : pc[q] = "buf_sleep" =>
          idx'[q] = idx[q] /\ moved'[q] = moved[q] /\ info'[idx[q][1]] = info[idx[q][1]]
    BY <1>5, <1>11, <2>2, Zenon
  <2> QED BY <1>1, <2>1, <2>2, <2>3, PlacesKept, Zenon DEF VirtioInv
<1> QED BY <1>6, <1>7, <1>10, <1>12, <1>13, Zenon DEF VirtioInv
-----------------------------------------------------------------------------
(* The device fetches the oldest pending head. *)
LEMMA FetchRight ==
  ASSUME VirtioInv, Fetch
  PROVE  VirtioInv'
<1> DEFINE n == Pending  s == seen % NUM
<1>1. /\ seen # avail_idx /\ inflight' = inflight \cup {avail[s]} /\ avail' = [avail EXCEPT ![s] = None]
      /\ seen' = Succ(seen)
      /\ UNCHANGED <<free, desc, avail_idx, used_idx, info, busy, lock, pc, idx, used, used_dev, isr, moved>>
  BY Zenon DEF Fetch
<1>2. /\ seen \in 0 .. Index - 1 /\ avail_idx \in 0 .. Index - 1 /\ n \in Nat /\ n < NUM
      /\ NUM \in Nat /\ Index \in Nat /\ NUM < Index
  BY Ranges, RingsShort, ConstAssumption, Zenon DEF VirtioInv
<1>3. /\ n \in 1 .. Index - 1 /\ n' = n - 1 /\ Nth(seen, 0) = seen
      /\ \A i \in 0 .. n - 2 : Nth(Succ(seen), i) = Nth(seen, i + 1)
      /\ seen' \in 0 .. Index - 1
  <2>1. seen' \in 0 .. Index - 1
    BY <1>1, <1>2, Wraps, Zenon
  <2> QED BY <1>1, <1>2, <2>1, Popped, Zenon DEF Pending
<1>4. Nth(seen, n) = avail_idx
  BY <1>2, Pushed, Zenon DEF Pending
<1>5. /\ avail \in [Desc -> Desc \cup {None}]
      /\ \A i \in 1 .. n : Nth(seen, i) % NUM \in Desc /\ Nth(seen, i) % NUM # s
      /\ s \in Desc
  <2>1. ASSUME NEW i \in 1 .. n PROVE Nth(seen, i) % NUM \in Desc /\ Nth(seen, i) % NUM # s
    <3>1. i \in 0 .. NUM - 1 /\ i \in 0 .. Index - 1 /\ 0 \in 0 .. NUM - 1 /\ i # 0
      BY <1>2
    <3>2. Nth(seen, i) % NUM \in Desc BY <1>2, <3>1, SlotIs, Zenon
    <3>3. Nth(seen, i) % NUM # Nth(seen, 0) % NUM BY <1>2, <3>1, SlotsDiffer, Zenon
    <3> QED BY <1>3, <3>2, <3>3, Zenon
  <2>2. s \in Desc
    <3>1. 0 \in 0 .. Index - 1 BY <1>2
    <3> QED BY <1>2, <1>3, <3>1, SlotIs, Zenon
  <2> QED BY <2>1, <2>2, Zenon DEF VirtioInv, TypeOK
<1> HIDE DEF n, s
<1>6. \A i \in 1 .. n : avail'[Nth(seen, i) % NUM] = avail[Nth(seen, i) % NUM]
  BY <1>1, <1>5, Zenon
<1>7. ASSUME NEW i \in 0 .. n - 2 PROVE PendingHead(i)' = PendingHead(i + 1)
  <2>1. i + 1 \in 1 .. n /\ Nth(seen, i)' = Nth(seen, i + 1)
    BY <1>1, <1>2, <1>3 DEF Nth
  <2> QED BY <1>6, <2>1, Zenon DEF PendingHead
<1>8. PendingHead(0) = avail[s] /\ 0 \in 0 .. n - 1
  BY <1>2, <1>3 DEF PendingHead, s
<1>9. Waits(avail[s]) /\ avail[s] \in Desc
  <2>1. Waits(avail[s])
    BY <1>8, Zenon DEF VirtioInv, PlacesRight, PendingRight, n
  <2> QED BY <2>1 DEF VirtioInv, TypeOK, Waits
<1>10. TypeOK'
  <2>1. avail' \in [Desc -> Desc \cup {None}] /\ inflight' \subseteq Desc
    BY <1>1, <1>5, <1>9, Zenon DEF VirtioInv, TypeOK
  <2> QED BY <1>1, <1>3, <2>1 DEF VirtioInv, TypeOK
<1>11. LockRight'
  BY <1>1, Zenon DEF VirtioInv, LockRight
<1>12. DescRight'
  <2>1. \A q \in Procs : Owner(q)' <=> Owner(q)
    BY <1>1, Zenon DEF Owner
  <2> QED BY <1>1, <2>1, ChainsKept, Zenon DEF VirtioInv
<1>13. RequestsRight'
  <2>1. \A q \in Procs : ChainRight(q)' <=> ChainRight(q)
    BY <1>1, Zenon DEF ChainRight
  <2>2. avail'[avail_idx % NUM] = avail[avail_idx % NUM]
    <3>1. n \in 1 .. n BY <1>2, <1>3
    <3> QED BY <1>4, <1>6, <3>1, Zenon
  <2> QED BY <1>1, <2>1, <2>2, Zenon DEF VirtioInv, RequestsRight
<1>14. PlacesRight'
  <2>1. /\ Served' = Served
        /\ \A i : ServedHead(i)' = ServedHead(i)
        /\ \A g : Waits(g)' <=> Waits(g)
    BY <1>1, Zenon DEF Served, Ahead, ServedHead, Nth, Waits
  <2>2. \A i \in 0 .. n' - 1 : i \in 0 .. n - 2 /\ i + 1 \in 0 .. n - 1 /\ i + 1 # 0
    BY <1>2, <1>3
  <2>3. \A i \in 0 .. n' - 1 : PendingHead(i)' = PendingHead(i + 1)
    BY <1>7, <2>2, Zenon
  <2>4. InflightRight'
    BY <1>1, <1>9, <2>1, Zenon DEF VirtioInv, PlacesRight, InflightRight
  <2>5. \A i, j \in 0 .. n - 1 : PendingHead(i) = PendingHead(j) => i = j
    BY Zenon DEF VirtioInv, PlacesRight, PendingOnce, n
  <2>6. \A i \in 0 .. n - 1, j \in 0 .. Served - 1 : PendingHead(i) # ServedHead(j)
    BY Zenon DEF VirtioInv, PlacesRight, NotBoth, n
  <2>7. PendingRight'
    <3>1. ASSUME NEW i \in 0 .. n' - 1 PROVE Waits(PendingHead(i))' /\ PendingHead(i)' \notin inflight'
      <4>1. Waits(PendingHead(i + 1)) /\ PendingHead(i + 1) \notin inflight
        BY <2>2, Zenon DEF VirtioInv, PlacesRight, PendingRight, n
      <4>2. PendingHead(i + 1) # avail[s]
        BY <1>8, <2>2, <2>5, Zenon
      <4>3. Waits(PendingHead(i))'
        BY <2>1, <2>3, <4>1, Zenon
      <4> QED BY <1>1, <2>3, <4>1, <4>2, <4>3, Zenon
    <3> QED BY <3>1, Zenon DEF PendingRight, n
  <2>8. ServedRight'
    <3>1. ASSUME NEW i \in 0 .. Served - 1
          PROVE  /\ Waits(ServedHead(i))' /\ ServedHead(i)' \notin inflight' /\ info'[ServedHead(i)'].ok
                 /\ \A p \in Procs : pc'[p] = "buf_sleep" /\ idx'[p][1] = ServedHead(i)' => moved'[p]
      <4>1. /\ Waits(ServedHead(i)) /\ ServedHead(i) \notin inflight /\ info[ServedHead(i)].ok
            /\ \A p \in Procs : pc[p] = "buf_sleep" /\ idx[p][1] = ServedHead(i) => moved[p]
        BY Zenon DEF VirtioInv, PlacesRight, ServedRight
      <4>2. ServedHead(i) # avail[s]
        BY <1>8, <2>6, Zenon
      <4>3. Waits(ServedHead(i))'
        BY <2>1, <4>1, Zenon
      <4> QED BY <1>1, <2>1, <4>1, <4>2, <4>3, Zenon
    <3> QED BY <2>1, <3>1, Zenon DEF ServedRight
  <2>9. PendingOnce'
    <3>1. ASSUME NEW i \in 0 .. n' - 1, NEW j \in 0 .. n' - 1, PendingHead(i)' = PendingHead(j)' PROVE i = j
      <4>1. i + 1 = j + 1
        BY <2>2, <2>3, <2>5, <3>1, Zenon
      <4>2. i \in Int /\ j \in Int BY <1>2, <1>3
      <4> QED BY <4>1, <4>2
    <3> QED BY <3>1, Zenon DEF PendingOnce, n
  <2>10. ServedOnce'
    BY <2>1, Zenon DEF VirtioInv, PlacesRight, ServedOnce
  <2>11. NotBoth'
    <3>1. ASSUME NEW i \in 0 .. n' - 1, NEW j \in 0 .. Served - 1 PROVE PendingHead(i)' # ServedHead(j)'
      BY <2>1, <2>2, <2>3, <2>6, Zenon
    <3> QED BY <2>1, <3>1, Zenon DEF NotBoth, n
  <2> QED BY <2>4, <2>7, <2>8, <2>9, <2>10, <2>11, Zenon DEF PlacesRight
<1> QED BY <1>10, <1>11, <1>12, <1>13, <1>14, Zenon DEF VirtioInv
(* The device finishes h: the transfer is done for the process it is of,   *)
(* and h becomes the newest entry of the used ring.                        *)
LEMMA CompleteRight ==
  ASSUME VirtioInv, NEW h \in Desc, Complete(h)
  PROVE  VirtioInv'
<1> DEFINE n == Served  s == used_dev % NUM  b == desc[desc[h].next].buf
<1>1. /\ h \in inflight /\ inflight' = inflight \ {h} /\ moved' = [moved EXCEPT ![b] = TRUE]
      /\ info' = [info EXCEPT ![h].ok = TRUE] /\ used' = [used EXCEPT ![s] = h] /\ used_dev' = Succ(used_dev)
      /\ isr' = TRUE
      /\ UNCHANGED <<free, desc, avail, avail_idx, used_idx, busy, lock, pc, idx, seen>>
  BY Zenon DEF Complete
<1>2. PICK p \in Procs : pc[p] = "buf_sleep" /\ idx[p][1] = h
  BY <1>1, Zenon DEF VirtioInv, PlacesRight, InflightRight, Waits
<1>3. b = p
  <2>1. ChainRight(p)
    BY <1>2, Zenon DEF VirtioInv, RequestsRight, Queued
  <2> QED BY <1>2, <2>1 DEF ChainRight
<1>4. /\ used_idx \in 0 .. Index - 1 /\ used_dev \in 0 .. Index - 1 /\ n \in Nat /\ n < NUM
      /\ NUM \in Nat /\ Index \in Nat /\ NUM < Index
  BY Ranges, RingsShort, ConstAssumption, Zenon DEF VirtioInv
<1>5. n' = n + 1 /\ Nth(used_idx, n) = used_dev /\ used_dev' \in 0 .. Index - 1
  <2>1. used_dev' \in 0 .. Index - 1
    BY <1>1, <1>4, Wraps, Zenon
  <2> QED BY <1>1, <1>4, <2>1, Pushed, Zenon DEF Served
<1>6. /\ \A i \in 0 .. n - 1 : Nth(used_idx, i) % NUM \in Desc /\ Nth(used_idx, i) % NUM # s
      /\ s \in Desc
  <2>1. ASSUME NEW i \in 0 .. n - 1 PROVE Nth(used_idx, i) % NUM \in Desc /\ Nth(used_idx, i) % NUM # s
    <3>1. i \in 0 .. NUM - 1 /\ i \in 0 .. Index - 1 /\ n \in 0 .. NUM - 1 /\ i # n
      BY <1>4
    <3>2. Nth(used_idx, i) % NUM \in Desc BY <1>4, <3>1, SlotIs, Zenon
    <3>3. Nth(used_idx, i) % NUM # Nth(used_idx, n) % NUM BY <1>4, <3>1, SlotsDiffer, Zenon
    <3> QED BY <1>5, <3>2, <3>3, Zenon
  <2>2. s \in Desc
    <3>1. n \in 0 .. Index - 1 BY <1>4
    <3> QED BY <1>4, <1>5, <3>1, SlotIs, Zenon
  <2> QED BY <2>1, <2>2, Zenon
<1>7. /\ used \in [Desc -> Desc \cup {None}] /\ moved \in [Procs -> BOOLEAN]
      /\ info \in [Desc -> [b : Procs \cup {None}, ok : BOOLEAN]]
  BY Zenon DEF VirtioInv, TypeOK
<1> HIDE DEF n, s, b
<1>8. /\ used' \in [Desc -> Desc \cup {None}] /\ used'[s] = h
      /\ \A i \in 0 .. n - 1 : used'[Nth(used_idx, i) % NUM] = used[Nth(used_idx, i) % NUM]
  BY <1>1, <1>6, <1>7, Zenon
<1>9. /\ moved' \in [Procs -> BOOLEAN] /\ moved'[p] /\ \A q \in Procs : moved[q] => moved'[q]
      /\ info' \in [Desc -> [b : Procs \cup {None}, ok : BOOLEAN]] /\ info'[h].ok
      /\ \A d \in Desc : info'[d].b = info[d].b /\ (info[d].ok => info'[d].ok)
  BY <1>1, <1>3, <1>7, Zenon
<1>10. TypeOK'
  <2>1. inflight' \subseteq Desc /\ isr' \in BOOLEAN
    BY <1>1, Zenon DEF VirtioInv, TypeOK
  <2> QED BY <1>1, <1>5, <1>8, <1>9, <2>1 DEF VirtioInv, TypeOK
<1>11. LockRight'
  BY <1>1, Zenon DEF VirtioInv, LockRight
<1>12. DescRight'
  <2>1. \A q \in Procs : Owner(q)' <=> Owner(q)
    BY <1>1, Zenon DEF Owner
  <2> QED BY <1>1, <2>1, ChainsKept, Zenon DEF VirtioInv
<1>13. RequestsRight'
  <2>1. ASSUME NEW q \in Procs PROVE ChainRight(q)' <=> ChainRight(q)
    <3>1. idx[q][1] \in Desc
      BY DEF VirtioInv, TypeOK
    <3>2. info'[idx[q][1]].b = info[idx[q][1]].b
      BY <1>9, <3>1, Zenon
    <3> QED BY <1>1, <3>2, ChainStays, Zenon
  <2> QED BY <1>1, <1>9, <2>1, Zenon DEF VirtioInv, RequestsRight
<1>14. PlacesRight'
  <2>1. /\ Pending' = Pending
        /\ \A i : PendingHead(i)' = PendingHead(i)
        /\ \A g : Waits(g)' <=> Waits(g)
    BY <1>1, Zenon DEF Pending, Ahead, PendingHead, Nth, Waits
  <2>2. /\ \A i \in 0 .. n - 1 : ServedHead(i)' = ServedHead(i)
        /\ \A i : i = n => ServedHead(i)' = h
        /\ \A i \in 0 .. n' - 1 : i = n \/ i \in 0 .. n - 1
    <3>1. \A i : Nth(used_idx, i)' = Nth(used_idx, i)
      BY <1>1, Zenon DEF Nth
    <3>2. \A i : i = n => ServedHead(i)' = h
      BY <1>5, <1>8, <3>1, Zenon DEF ServedHead, s
    <3>3. \A i \in 0 .. n - 1 : ServedHead(i)' = ServedHead(i)
      BY <1>8, <3>1, Zenon DEF ServedHead
    <3> QED BY <1>4, <1>5, <3>2, <3>3
  <2>3. \A i \in 0 .. Pending - 1 : Waits(PendingHead(i)) /\ PendingHead(i) \notin inflight
    BY Zenon DEF VirtioInv, PlacesRight, PendingRight
  <2>4. ASSUME NEW i \in 0 .. n - 1
        PROVE  /\ Waits(ServedHead(i)) /\ ServedHead(i) \notin inflight /\ info[ServedHead(i)].ok
               /\ \A q \in Procs : pc[q] = "buf_sleep" /\ idx[q][1] = ServedHead(i) => moved[q]
    BY Zenon DEF VirtioInv, PlacesRight, ServedRight, n
  <2>5. InflightRight'
    BY <1>1, <2>1, Zenon DEF VirtioInv, PlacesRight, InflightRight
  <2>6. PendingRight'
    BY <1>1, <2>1, <2>3, Zenon DEF PendingRight
  <2>7. ServedRight'
    <3>1. ASSUME NEW i \in 0 .. n' - 1
          PROVE  /\ Waits(ServedHead(i))' /\ ServedHead(i)' \notin inflight' /\ info'[ServedHead(i)'].ok
                 /\ \A q \in Procs : pc'[q] = "buf_sleep" /\ idx'[q][1] = ServedHead(i)' => moved'[q]
      <4>1. CASE i \in 0 .. n - 1
        <5>1. ServedHead(i) \in Desc
          BY <2>4, <4>1 DEF VirtioInv, TypeOK, Waits
        <5>2. Waits(ServedHead(i))'
          BY <2>1, <2>2, <2>4, <4>1, Zenon
        <5> QED BY <1>1, <1>9, <2>2, <2>4, <4>1, <5>1, <5>2
      <4>2. CASE i = n
        <5>1. ServedHead(i)' = h /\ Waits(h)
          BY <1>2, <2>2, <4>2, Zenon DEF Waits
        <5>2. Waits(ServedHead(i))'
          BY <2>1, <5>1, Zenon
        <5>3. ASSUME NEW q \in Procs, pc[q] = "buf_sleep", idx[q][1] = h PROVE q = p
          <6>1. Owner(q) /\ Owner(p) /\ 1 \in 1 .. 3 BY <1>2, <5>3 DEF Owner, Queued
          <6> QED BY <1>2, <5>3, <6>1, Apart, ZenonT(30) DEF VirtioInv
        <5> QED BY <1>1, <1>9, <5>1, <5>2, <5>3, Zenon
      <4> QED BY <2>2, <4>1, <4>2, Zenon
    <3> QED BY <3>1, Zenon DEF ServedRight, n
  <2>8. PendingOnce'
    BY <2>1, Zenon DEF VirtioInv, PlacesRight, PendingOnce
  <2>9. ServedOnce'
    <3>1. ASSUME NEW i \in 0 .. n' - 1, NEW j \in 0 .. n' - 1, ServedHead(i)' = ServedHead(j)' PROVE i = j
      <4>1. CASE i \in 0 .. n - 1 /\ j \in 0 .. n - 1
        BY <2>2, <3>1, <4>1, Zenon DEF VirtioInv, PlacesRight, ServedOnce, n
      <4>2. CASE i = n /\ j = n
        BY <4>2, Zenon
      <4>3. CASE i = n /\ j \in 0 .. n - 1
        BY <1>1, <2>2, <2>4, <3>1, <4>3, Zenon
      <4>4. CASE j = n /\ i \in 0 .. n - 1
        BY <1>1, <2>2, <2>4, <3>1, <4>4, Zenon
      <4> QED BY <2>2, <4>1, <4>2, <4>3, <4>4, Zenon
    <3> QED BY <3>1, Zenon DEF ServedOnce, n
  <2>10. NotBoth'
    <3>1. ASSUME NEW i \in 0 .. Pending - 1, NEW j \in 0 .. n' - 1 PROVE PendingHead(i)' # ServedHead(j)'
      <4>1. CASE j \in 0 .. n - 1
        BY <2>1, <2>2, <4>1, Zenon DEF VirtioInv, PlacesRight, NotBoth, n
      <4>2. CASE j = n
        BY <1>1, <2>1, <2>2, <2>3, <4>2, Zenon
      <4> QED BY <2>2, <4>1, <4>2, Zenon
    <3> QED BY <2>1, <3>1, Zenon DEF NotBoth, n
  <2> QED BY <2>5, <2>6, <2>7, <2>8, <2>9, <2>10, Zenon DEF PlacesRight
<1> QED BY <1>10, <1>11, <1>12, <1>13, <1>14, Zenon DEF VirtioInv
-----------------------------------------------------------------------------
(* One iteration of the handler's loop: the oldest entry of the used ring  *)
(* is the request of a process that waits, and that process is woken.      *)
LEMMA HandleRight ==
  ASSUME VirtioInv, Handle
  PROVE  VirtioInv'
<1> DEFINE n == Served  s == used_idx % NUM  h == used[s]
<1>1. /\ lock = "intr" /\ used_idx # used_dev /\ busy' = [busy EXCEPT ![info[h].b] = FALSE] /\ pc' = WakeBuf(info[h].b)
      /\ used' = [used EXCEPT ![s] = None] /\ used_idx' = Succ(used_idx)
      /\ UNCHANGED <<free, desc, avail, avail_idx, info, lock, idx, used_dev, seen, inflight, isr, moved>>
  BY Zenon DEF Handle, UsedId
<1>2. /\ used_idx \in 0 .. Index - 1 /\ used_dev \in 0 .. Index - 1 /\ n \in Nat /\ n < NUM
      /\ NUM \in Nat /\ Index \in Nat /\ NUM < Index
  BY Ranges, RingsShort, ConstAssumption, Zenon DEF VirtioInv
<1>3. /\ n \in 1 .. Index - 1 /\ n' = n - 1 /\ Nth(used_idx, 0) = used_idx
      /\ \A i \in 0 .. n - 2 : Nth(Succ(used_idx), i) = Nth(used_idx, i + 1)
      /\ used_idx' \in 0 .. Index - 1
  <2>1. used_idx' \in 0 .. Index - 1
    BY <1>1, <1>2, Wraps, Zenon
  <2> QED BY <1>1, <1>2, <2>1, Popped, Zenon DEF Served
<1>4. /\ used \in [Desc -> Desc \cup {None}]
      /\ \A i \in 1 .. n - 1 : Nth(used_idx, i) % NUM \in Desc /\ Nth(used_idx, i) % NUM # s
  <2>1. ASSUME NEW i \in 1 .. n - 1 PROVE Nth(used_idx, i) % NUM \in Desc /\ Nth(used_idx, i) % NUM # s
    <3>1. i \in 0 .. NUM - 1 /\ i \in 0 .. Index - 1 /\ 0 \in 0 .. NUM - 1 /\ i # 0
      BY <1>2
    <3>2. Nth(used_idx, i) % NUM \in Desc BY <1>2, <3>1, SlotIs, Zenon
    <3>3. Nth(used_idx, i) % NUM # Nth(used_idx, 0) % NUM BY <1>2, <3>1, SlotsDiffer, Zenon
    <3> QED BY <1>3, <3>2, <3>3, Zenon
  <2> QED BY <2>1, Zenon DEF VirtioInv, TypeOK
<1> HIDE DEF n, s
<1>5. ASSUME NEW i \in 0 .. n - 2 PROVE ServedHead(i)' = ServedHead(i + 1)
  <2>1. i + 1 \in 1 .. n - 1 /\ Nth(used_idx, i)' = Nth(used_idx, i + 1)
    BY <1>1, <1>2, <1>3 DEF Nth
  <2> QED BY <1>1, <1>4, <2>1, Zenon DEF ServedHead
<1>6. ServedHead(0) = h /\ 0 \in 0 .. n - 1
  BY <1>2, <1>3 DEF ServedHead, s
<1> HIDE DEF h
<1>7. PICK p \in Procs : pc[p] = "buf_sleep" /\ idx[p][1] = h
  BY <1>6, Zenon DEF VirtioInv, PlacesRight, ServedRight, n, Waits
<1>8. moved[p] /\ h \notin inflight
  BY <1>6, <1>7, Zenon DEF VirtioInv, PlacesRight, ServedRight, n
<1>9. ChainRight(p) /\ info[h].b = p
  <2>1. ChainRight(p)
    BY <1>7, Zenon DEF VirtioInv, RequestsRight, Queued
  <2> QED BY <1>7, <2>1, Zenon DEF ChainRight
<1>10. /\ pc \in [Procs -> {"user", "fill", "done"} \cup Waiting \cup Queued] /\ busy \in [Procs -> BOOLEAN]
  BY Zenon DEF VirtioInv, TypeOK
<1>11. /\ pc'[p] = "done" /\ busy'[p] = FALSE /\ Owner(p) /\ Owner(p)'
       /\ \A q \in Procs : q # p => pc'[q] = pc[q] /\ busy'[q] = busy[q]
  BY <1>1, <1>7, <1>9, <1>10, Zenon DEF WakeBuf, Owner, Queued
<1>12. TypeOK'
  <2>1. pc' \in [Procs -> {"user", "fill", "done"} \cup Waiting \cup Queued] /\ busy' \in [Procs -> BOOLEAN]
    BY <1>1, <1>10, Zenon DEF WakeBuf
  <2>2. used' \in [Desc -> Desc \cup {None}]
    BY <1>1, <1>4, Zenon
  <2> QED BY <1>1, <1>3, <2>1, <2>2 DEF VirtioInv, TypeOK
<1>13. LockRight'
  BY <1>1, <1>7, <1>11, Zenon DEF VirtioInv, LockRight
<1>14. DescRight'
  <2>1. \A q \in Procs : Owner(q)' <=> Owner(q)
    BY <1>11, Zenon DEF Owner, Queued
  <2> QED BY <1>1, <2>1, ChainsKept, Zenon DEF VirtioInv
<1>15. RequestsRight'
  <2>1. \A q \in Procs : ChainRight(q)' <=> ChainRight(q)
    BY <1>1, Zenon DEF ChainRight
  <2>2. pc'[p] \notin Queued /\ pc'[p] # "publish"
    BY <1>11, Zenon DEF Queued
  <2> QED BY <1>1, <1>8, <1>9, <1>11, <2>1, <2>2, ZenonT(30) DEF VirtioInv, RequestsRight
<1>16. ASSUME NEW g, Waits(g), g # h PROVE Waits(g)'
  <2>1. PICK q \in Procs : pc[q] = "buf_sleep" /\ idx[q][1] = g
    BY <1>16, Zenon DEF Waits
  <2> QED BY <1>1, <1>7, <1>11, <1>16, <2>1, Zenon DEF Waits
<1>17. PlacesRight'
  <2>1. /\ Pending' = Pending
        /\ \A i : PendingHead(i)' = PendingHead(i)
    BY <1>1, Zenon DEF Pending, Ahead, PendingHead, Nth
  <2>2. \A i \in 0 .. n' - 1 : i \in 0 .. n - 2 /\ i + 1 \in 0 .. n - 1 /\ i + 1 # 0
    BY <1>2, <1>3
  <2>3. \A i \in 0 .. n' - 1 : ServedHead(i)' = ServedHead(i + 1)
    BY <1>5, <2>2, Zenon
  <2>4. \A i, j \in 0 .. n - 1 : ServedHead(i) = ServedHead(j) => i = j
    BY Zenon DEF VirtioInv, PlacesRight, ServedOnce, n
  <2>5. \A i \in 0 .. Pending - 1, j \in 0 .. n - 1 : PendingHead(i) # ServedHead(j)
    BY Zenon DEF VirtioInv, PlacesRight, NotBoth, n
  <2>6. InflightRight'
    BY <1>1, <1>8, <1>16, Zenon DEF VirtioInv, PlacesRight, InflightRight
  <2>7. PendingRight'
    <3>1. ASSUME NEW i \in 0 .. Pending - 1 PROVE Waits(PendingHead(i))' /\ PendingHead(i)' \notin inflight'
      <4>1. Waits(PendingHead(i)) /\ PendingHead(i) \notin inflight
        BY Zenon DEF VirtioInv, PlacesRight, PendingRight
      <4>2. PendingHead(i) # h
        BY <1>6, <2>5, Zenon
      <4> QED BY <1>1, <1>16, <2>1, <4>1, <4>2, Zenon
    <3> QED BY <2>1, <3>1, Zenon DEF PendingRight
  <2>8. ServedRight'
    <3>1. ASSUME NEW i \in 0 .. n' - 1
          PROVE  /\ Waits(ServedHead(i))' /\ ServedHead(i)' \notin inflight' /\ info'[ServedHead(i)'].ok
                 /\ \A q \in Procs : pc'[q] = "buf_sleep" /\ idx'[q][1] = ServedHead(i)' => moved'[q]
      <4> DEFINE g == ServedHead(i + 1)
      <4>1. /\ Waits(g) /\ g \notin inflight /\ info[g].ok
            /\ \A q \in Procs : pc[q] = "buf_sleep" /\ idx[q][1] = g => moved[q]
        BY <2>2, Zenon DEF VirtioInv, PlacesRight, ServedRight, n
      <4>2. g # h
        BY <1>6, <2>2, <2>4, Zenon
      <4>3. \A q \in Procs : pc'[q] = "buf_sleep" => pc[q] = "buf_sleep"
        BY <1>11, Zenon
      <4>4. ServedHead(i)' = g
        BY <2>3, Zenon
      <4> HIDE DEF g
      <4>5. Waits(ServedHead(i))'
        BY <1>16, <4>1, <4>2, <4>4, Zenon
      <4> QED BY <1>1, <4>1, <4>3, <4>4, <4>5, Zenon
    <3> QED BY <3>1, Zenon DEF ServedRight, n
  <2>9. PendingOnce'
    BY <2>1, Zenon DEF VirtioInv, PlacesRight, PendingOnce
  <2>10. ServedOnce'
    <3>1. ASSUME NEW i \in 0 .. n' - 1, NEW j \in 0 .. n' - 1, ServedHead(i)' = ServedHead(j)' PROVE i = j
      <4>1. i + 1 = j + 1
        BY <2>2, <2>3, <2>4, <3>1, Zenon
      <4>2. i \in Int /\ j \in Int BY <1>2, <1>3
      <4> QED BY <4>1, <4>2
    <3> QED BY <3>1, Zenon DEF ServedOnce, n
  <2>11. NotBoth'
    <3>1. ASSUME NEW i \in 0 .. Pending - 1, NEW j \in 0 .. n' - 1 PROVE PendingHead(i)' # ServedHead(j)'
      BY <2>1, <2>2, <2>3, <2>5, Zenon
    <3> QED BY <2>1, <3>1, Zenon DEF NotBoth, n
  <2> QED BY <2>6, <2>7, <2>8, <2>9, <2>10, <2>11, Zenon DEF PlacesRight
<1> QED BY <1>12, <1>13, <1>14, <1>15, <1>17, Zenon DEF VirtioInv
-----------------------------------------------------------------------------
(* At boot all descriptors are free and the rings are empty. *)
LEMMA VirtioInit ==
  ASSUME Init
  PROVE  VirtioInv
<1>1. TypeOK
  <2>1. NUM \in Nat /\ NUM > 2 /\ 0 \in 0 .. Index - 1 /\ 0 \in Desc
    BY ConstAssumption DEF Desc
  <2>2. NoIdx \in [1 .. 3 -> Desc] /\ NoDesc \in [next : Desc \cup {None}, buf : Procs \cup {None}]
    BY <2>1, Zenon DEF NoIdx, NoDesc
  <2> QED BY <2>1, <2>2, Zenon DEF Init, TypeOK
<1>2. \A p \in Procs : pc[p] = "user"
  BY Zenon DEF Init
<1>3. LockRight
  BY <1>2, ConstAssumption, Zenon DEF Init, LockRight
<1>4. \A p \in Procs : ~Owner(p)
  BY <1>2, Zenon DEF Owner, Queued
<1>5. DescRight
  <2>1. OneChain /\ NotFree
    BY <1>4, Zenon DEF OneChain, NotFree
  <2>2. NoneLost
    BY Zenon DEF Init, NoneLost
  <2> QED BY <2>1, <2>2, Zenon DEF DescRight
<1>6. RequestsRight
  BY <1>2, Zenon DEF RequestsRight, Queued
<1>7. PlacesRight
  <2>1. Pending = 0 /\ Served = 0
    <3>1. 0 \in 0 .. Index - 1 BY ConstAssumption
    <3>2. Ahead(0, 0) = (IF 0 <= 0 THEN 0 - 0 ELSE 0 + Index - 0) BY <3>1, Wraps, Zenon
    <3> QED BY <3>2 DEF Init, Pending, Served
  <2>2. \A i : i \notin 0 .. Pending - 1 /\ i \notin 0 .. Served - 1
    BY <2>1
  <2>3. inflight = {}
    BY Zenon DEF Init
  <2> QED BY <2>2, <2>3, Zenon
          DEF PlacesRight, InflightRight, PendingRight, ServedRight, PendingOnce, ServedOnce, NotBoth
<1> QED BY <1>1, <1>3, <1>5, <1>6, <1>7, Zenon DEF VirtioInv

(* Every step of the driver, the device and the handler. *)
LEMMA VirtioStep ==
  ASSUME VirtioInv, [Next]_vars
  PROVE  VirtioInv'
<1>1. ASSUME NEW p \in Procs, Rw(p) \/ Step(p) \/ Compute(p) PROVE VirtioInv'
  <2>1. CASE Rw(p) BY <2>1, RwRight, Zenon
  <2>2. CASE alloc3_desc(p) BY <2>2, AllocRight, Zenon
  <2>3. CASE AllocFails(p) BY <2>3, AllocFailsRight, Zenon
  <2>4. CASE Format(p) BY <2>4, FormatRight, Zenon
  <2>5. CASE Publish(p) BY <2>5, PublishRight, Zenon
  <2>6. CASE free_chain(p) BY <2>6, FreeRight, Zenon
  <2>7. CASE Compute(p) BY <2>7, IdleRight, Zenon DEF Compute
  <2> QED BY <1>1, <2>1, <2>2, <2>3, <2>4, <2>5, <2>6, <2>7, Zenon DEF Step
<1>2. CASE Fetch BY <1>2, FetchRight, Zenon
<1>3. ASSUME NEW h \in Desc, Complete(h) PROVE VirtioInv' BY <1>3, CompleteRight, Zenon
<1>4. CASE Intr BY <1>4, HandlerRight, HandleRight, Zenon DEF Intr
<1>5. CASE UNCHANGED vars BY <1>5, IdleRight, Zenon
<1> QED BY <1>1, <1>2, <1>3, <1>4, <1>5, Zenon DEF Next

(* The chains, the rings and the requests stay in step through every       *)
(* interleaving of virtio_disk_rw, virtio_disk_intr and the device         *)
(* (virtio_disk.c:156-328).                                                *)
THEOREM VirtioInvariance == Spec => []VirtioInv
<1>1. Init => VirtioInv BY VirtioInit, Zenon
<1>2. VirtioInv /\ [Next]_vars => VirtioInv' BY VirtioStep, Zenon
<1> QED BY <1>1, <1>2, PTL DEF Spec
-----------------------------------------------------------------------------
(* Three descriptors for each request under way, and the rest is free. *)
LEMMA ChainsCounted ==
  ASSUME TypeOK, DescRight
  PROVE  ChainsApart
<1> DEFINE owners == {p \in Procs : pc[p] \in {"fill", "done"} \cup Queued}
           mine(p) == {idx[p][k] : k \in 1 .. 3}
           pairs == owners \X (1 .. 3)
           f == [x \in pairs |-> idx[x[1]][x[2]]]
           g == [p \in owners |-> idx[p][1]]
<1>1. owners \subseteq Procs /\ \A p \in Procs : p \in owners <=> Owner(p)
  BY Zenon DEF Owner
<1>2. \A p \in Procs, k \in 1 .. 3 : idx[p][k] \in Desc
  BY DEF TypeOK
<1> HIDE DEF owners
<1>3. IsFiniteSet(owners)
  <2>1. 1 \in 1 .. 3 OBVIOUS
  <2>2. g \in [owners -> Desc] BY <1>1, <1>2, <2>1, Zenon
  <2>3. ASSUME NEW p \in owners, NEW q \in owners, g[p] = g[q] PROVE p = q
    <3>1. idx[p][1] = idx[q][1] BY <2>3, Zenon
    <3> QED BY <1>1, <2>1, <3>1, Zenon DEF DescRight, OneChain
  <2> HIDE DEF g
  <2>4. g \in Injection(owners, Desc) BY <2>2, <2>3, Zenon DEF Injection, IsInjective
  <2> QED BY <2>4, DescFinite, FS_Injection, Zenon
<1>4. IsFiniteSet(Desc \ free) /\ Cardinality(Desc \ free) = NUM - Cardinality(free)
  <2>1. Desc \cap free = free BY Zenon DEF TypeOK
  <2> QED BY <2>1, DescFinite, FS_Difference
<1>5. f \in Injection(pairs, Desc \ free)
  <2>1. f \in [pairs -> Desc \ free]
    <3>1. ASSUME NEW x \in pairs PROVE f[x] \in Desc \ free
      <4>1. x[1] \in Procs /\ Owner(x[1]) /\ x[2] \in 1 .. 3 BY <1>1, Zenon
      <4>2. idx[x[1]][x[2]] \in Desc /\ idx[x[1]][x[2]] \notin free
        BY <1>2, <4>1, Zenon DEF DescRight, NotFree
      <4> QED BY <4>2, Zenon
    <3> QED BY <3>1, Zenon
  <2>2. ASSUME NEW x \in pairs, NEW y \in pairs, f[x] = f[y] PROVE x = y
    <3>1. x[1] \in Procs /\ Owner(x[1]) /\ x[2] \in 1 .. 3 /\ y[1] \in Procs /\ Owner(y[1]) /\ y[2] \in 1 .. 3
      BY <1>1, Zenon
    <3>2. idx[x[1]][x[2]] = idx[y[1]][y[2]] BY <2>2, Zenon
    <3>3. x[1] = y[1] /\ x[2] = y[2] BY <3>1, <3>2 DEF DescRight, OneChain
    <3> QED BY <3>3
  <2> HIDE DEF f, pairs
  <2> QED BY <2>1, <2>2, Zenon DEF Injection, IsInjective
<1>6. ASSUME NEW d \in Desc \ free PROVE \E x \in pairs : f[x] = d
  <2>1. PICK p \in Procs, k \in 1 .. 3 : Owner(p) /\ idx[p][k] = d
    BY Zenon DEF DescRight, NoneLost
  <2>2. <<p, k>> \in pairs BY <1>1, <2>1, Zenon
  <2>3. f[<<p, k>>] = d BY <2>1, <2>2, Zenon
  <2> QED BY <2>2, <2>3, Zenon
<1>7. f \in Surjection(pairs, Desc \ free)
  <2>1. f \in [pairs -> Desc \ free] BY <1>5, Zenon DEF Injection
  <2> HIDE DEF f, pairs
  <2> QED BY <1>6, <2>1, Zenon DEF Surjection
<1>8. Cardinality(pairs) = Cardinality(owners) * 3
  <2>1. 1 \in Int /\ 3 \in Int /\ ~(1 > 3) /\ 3 - 1 + 1 = 3 OBVIOUS
  <2>2. IsFiniteSet(1 .. 3) /\ Cardinality(1 .. 3) = 3 BY <2>1, FS_Interval, Zenon
  <2> QED BY <1>3, <2>2, FS_Product, Zenon
<1>9. Cardinality(pairs) = Cardinality(Desc \ free)
  <2> HIDE DEF f, pairs
  <2> QED BY <1>4, <1>5, <1>7, FS_Injection, Zenon
<1>10. Cardinality(free) + 3 * Cardinality(owners) = NUM
  <2>1. Cardinality(free) \in Nat /\ Cardinality(owners) \in Nat /\ NUM \in Nat
    <3>1. IsFiniteSet(free) BY DescFinite, FS_Subset, Zenon DEF TypeOK
    <3> QED BY <1>3, <3>1, FS_CardinalityType, ConstAssumption, Zenon
  <2> HIDE DEF pairs
  <2> QED BY <1>4, <1>8, <1>9, <2>1
<1>11. free \cup UNION {mine(p) : p \in owners} = Desc
  <2>1. ASSUME NEW d \in Desc, d \notin free PROVE d \in UNION {mine(p) : p \in owners}
    <3>1. PICK p \in Procs, k \in 1 .. 3 : Owner(p) /\ idx[p][k] = d
      BY <2>1, Zenon DEF DescRight, NoneLost
    <3>2. p \in owners /\ d \in mine(p) BY <1>1, <3>1, Zenon
    <3> QED BY <3>2, Zenon
  <2>2. ASSUME NEW p \in owners PROVE mine(p) \subseteq Desc
    BY <1>1, <1>2, Zenon
  <2>3. free \subseteq Desc BY Zenon DEF TypeOK
  <2> HIDE DEF mine
  <2> QED BY <2>1, <2>2, <2>3, Zenon
<1> QED BY <1>10, <1>11, Zenon DEF ChainsApart, owners

(* Descriptors are never in two chains, and none is ever lost, for any     *)
(* number of processes and of descriptors (virtio_disk.c:156-214).         *)
THEOREM DescriptorsSafe == Spec => []ChainsApart
<1>1. VirtioInv => ChainsApart BY ChainsCounted, Zenon DEF VirtioInv
<1> QED BY <1>1, VirtioInvariance, PTL

(* A request whose sleep in virtio_disk_rw ends, because b->disk is 0, has *)
(* had its data moved by the device (virtio_disk.c:283-291).               *)
THEOREM TransfersFirst == Spec => []ReturnsAfterTransfer
<1>1. VirtioInv => ReturnsAfterTransfer BY Zenon DEF VirtioInv, RequestsRight, ReturnsAfterTransfer
<1> QED BY <1>1, VirtioInvariance, PTL

(* An index between two others is some number of steps after the first. *)
LEMMA SpanIs ==
  ASSUME NEW a \in 0 .. Index - 1, NEW b \in 0 .. Index - 1, NEW k \in Span(a, b)
  PROVE  \E i \in 0 .. Ahead(a, b) - 1 : Nth(a, i) = k
<1>1. k \in 0 .. Index - 1 /\ Ahead(a, k) < Ahead(a, b)
  BY Zenon DEF Span, Ahead
<1>2. /\ Ahead(a, k) = (IF a <= k THEN k - a ELSE k + Index - a) /\ Ahead(a, k) \in 0 .. Index - 1
      /\ Ahead(a, b) \in 0 .. Index - 1
  BY <1>1, Wraps, Zenon
<1> DEFINE i == Ahead(a, k)
<1>3. Nth(a, i) = IF a + i < Index THEN a + i ELSE a + i - Index
  BY <1>2, Wraps, Zenon
<1>4. Index \in Nat BY ConstAssumption, Zenon
<1>5. i \in 0 .. Ahead(a, b) - 1 /\ Nth(a, i) = k
  <2> DEFINE n == Ahead(a, b)
  <2> HIDE DEF n, i
  <2> SUFFICES i \in 0 .. n - 1 /\ Nth(a, i) = k BY Zenon DEF n
  <2> QED BY <1>1, <1>2, <1>3, <1>4 DEF n, i
<1> QED BY <1>5, Zenon

(* Whatever the device or the used ring holds is the chain of a request    *)
(* that waits, and has been served when it is on the used ring             *)
(* (virtio_disk.c:312-324).                                                *)
THEOREM DeviceSafe == Spec => []DeviceHasLiveChains
<1>1. ASSUME VirtioInv PROVE DeviceHasLiveChains
  <2>1. ASSUME NEW h, Waits(h)
        PROVE  \E p \in Procs : /\ pc[p] \in Queued /\ busy[p]
                                /\ idx[p][1] = h /\ info[h].b = p
                                /\ Chain(h) = {idx[p][k] : k \in 1 .. 3}
    <3>1. PICK p \in Procs : pc[p] = "buf_sleep" /\ idx[p][1] = h BY <2>1, Zenon DEF Waits
    <3>2. pc[p] \in Queued BY <3>1, Zenon DEF Queued
    <3>3. busy[p] /\ ChainRight(p) BY <1>1, <3>2, Zenon DEF VirtioInv, RequestsRight
    <3>4. Chain(idx[p][1]) = {idx[p][k] : k \in 1 .. 3} BY <1>1, <3>3, ChainIs, Zenon DEF VirtioInv
    <3>5. info[h].b = p BY <3>1, <3>3, Zenon DEF ChainRight
    <3> QED BY <3>1, <3>2, <3>3, <3>4, <3>5, Zenon
  <2>2. ASSUME NEW k \in Span(seen, avail_idx) PROVE Waits(avail[k % NUM])
    <3>1. PICK i \in 0 .. Pending - 1 : Nth(seen, i) = k
      BY <1>1, Ranges, SpanIs, ZenonT(30) DEF VirtioInv, Pending
    <3>2. Waits(PendingHead(i)) BY <1>1, Zenon DEF VirtioInv, PlacesRight, PendingRight
    <3> QED BY <3>1, <3>2, Zenon DEF PendingHead
  <2>3. ASSUME NEW k \in Span(used_idx, used_dev) PROVE Waits(used[k % NUM]) /\ info[used[k % NUM]].ok
    <3>1. PICK i \in 0 .. Served - 1 : Nth(used_idx, i) = k
      BY <1>1, Ranges, SpanIs, Zenon DEF VirtioInv, Served
    <3>2. Waits(ServedHead(i)) /\ info[ServedHead(i)].ok
      BY <1>1, Zenon DEF VirtioInv, PlacesRight, ServedRight
    <3> QED BY <3>1, <3>2, Zenon DEF ServedHead
  <2>4. ASSUME NEW h \in inflight PROVE Waits(h)
    BY <1>1, Zenon DEF VirtioInv, PlacesRight, InflightRight
  <2> DEFINE queued == {avail[k % NUM] : k \in Span(seen, avail_idx)}
             served == {used[k % NUM] : k \in Span(used_idx, used_dev)}
  <2>5. \A h \in queued \cup inflight \cup served : Waits(h)
    BY <2>2, <2>3, <2>4, Zenon
  <2>6. \A h \in served : info[h].ok
    BY <2>3, Zenon
  <2> HIDE DEF queued, served
  <2>7. \A h \in queued \cup inflight \cup served :
          \E p \in Procs : /\ pc[p] \in Queued /\ busy[p]
                           /\ idx[p][1] = h /\ info[h].b = p
                           /\ Chain(h) = {idx[p][k] : k \in 1 .. 3}
    BY <2>1, <2>5, Zenon
  <2> QED BY <2>6, <2>7, Zenon DEF DeviceHasLiveChains, queued, served
<1> QED BY <1>1, VirtioInvariance, PTL
=============================================================================
