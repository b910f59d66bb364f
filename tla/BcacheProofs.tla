---------------------------- MODULE BcacheProofs ----------------------------
(***************************************************************************)
(* Proofs about module Bcache, for any number of processes, buffers and    *)
(* blocks: a buffer stays its holders' block, bread returns what was last  *)
(* written, nobody is left asleep for a buffer, and bget panics only when  *)
(* all of them are in use.                                                 *)
(***************************************************************************)
EXTENDS Bcache, FiniteSetTheorems, TLAPS

(* The time that the provers get for a step that does not say otherwise. *)
USE SMTT(20), ZenonT(20)

Holding == {"bread", "reading", "have", "writing", "written"}

Users(b) == {r \in Refs : buf[r] = b}
Pin(b) == IF blockno[b] \in pinned THEN 1 ELSE 0

Shape ==
  /\ list \in [Bufs -> Bufs]
  /\ blockno \in [Bufs -> Blocks \cup {None}]
  /\ valid \in [Bufs -> BOOLEAN]
  /\ refcnt \in [Bufs -> Nat]
  /\ data \in [Bufs -> Vals \cup {None}]
  /\ locked \in [Bufs -> Refs \cup {None}]
  /\ disk \in [Blocks -> Vals] /\ latest \in [Blocks -> Vals]
  /\ pinned \subseteq Blocks
  /\ pc \in [Refs -> PCs]
  /\ want \in [Refs -> Blocks \cup {None}]
  /\ buf \in [Refs -> Bufs \cup {None}]

(* Who is past bget has a buffer, and that buffer has the block. *)
HasBuffer ==
  \A r \in Refs : /\ buf[r] = None <=> pc[r] \in {"idle", "bget", "panic"}
                  /\ pc[r] # "idle" => want[r] \in Blocks
                  /\ buf[r] # None => blockno[buf[r]] = want[r]

(* A block is in one buffer at most, and a block of the log is in one. *)
OneBuffer ==
  /\ \A b, c \in Bufs : blockno[b] # None /\ blockno[b] = blockno[c] => b = c
  /\ \A x \in pinned : \E b \in Bufs : blockno[b] = x /\ valid[b]

(* b->refcnt counts the callers' pointers to b and the log's pin. *)
RefcntRight == \A b \in Bufs : refcnt[b] = Cardinality(Users(b)) + Pin(b)

(* The sleep-lock is the caller's that is between bget and brelse, and     *)
(* only that caller makes the buffer valid.                                *)
LockHeld ==
  \A r \in Refs : /\ pc[r] \in Holding => locked[buf[r]] = r
                  /\ pc[r] = "reading" => ~valid[buf[r]]
                  /\ pc[r] \in {"have", "writing", "written"} => valid[buf[r]]

(* A valid buffer has the latest contents of its block, and so has the     *)
(* disk unless the block is in the log or on its way to the disk.          *)
Contents ==
  /\ \A b \in Bufs : valid[b] => blockno[b] # None /\ data[b] = latest[blockno[b]]
  /\ \A x \in Blocks : \/ disk[x] = latest[x] \/ x \in pinned
                       \/ \E r \in Refs : pc[r] = "writing" /\ want[r] = x
  /\ \A r \in Refs : pc[r] = "written" => want[r] \in pinned /\ disk[want[r]] = latest[want[r]]

CacheInv == Shape /\ HasBuffer /\ OneBuffer /\ RefcntRight /\ LockHeld /\ Contents
-----------------------------------------------------------------------------
(* Finitely many callers have finitely many pointers to buffers. *)
LEMMA RefsFinite == IsFiniteSet(Refs)
<1>1. IsFiniteSet({1, 2})
  <2>1. IsFiniteSet({1})
    BY FS_Singleton, Zenon
  <2>2. IsFiniteSet({1} \cup {2})
    BY <2>1, FS_AddElement, Zenon
  <2>3. {1, 2} = {1} \cup {2}
    OBVIOUS
  <2> QED BY <2>2, <2>3, Zenon
<1> QED BY <1>1, ConstAssumption, FS_Product, Zenon DEF Refs

(* A buffer has finitely many users. *)
LEMMA UsersFinite ==
  ASSUME NEW b PROVE IsFiniteSet(Users(b)) /\ Cardinality(Users(b)) \in Nat
<1>1. Users(b) \subseteq Refs
  BY Zenon DEF Users
<1> QED BY <1>1, RefsFinite, FS_Subset, FS_CardinalityType, Zenon

(* bget counts one more user of the buffer it returns, and no other. *)
LEMMA UsersAdd ==
  ASSUME buf \in [Refs -> Bufs \cup {None}], NEW r \in Refs, buf[r] = None,
         NEW b \in Bufs, buf' = [buf EXCEPT ![r] = b], NEW c \in Bufs
  PROVE  Cardinality(Users(c)') = Cardinality(Users(c)) + IF c = b THEN 1 ELSE 0
<1>0. None \notin Bufs
  BY ConstAssumption, Zenon DEF Bufs
<1>1. CASE c = b
  <2>1. Users(c)' = Users(c) \cup {r} /\ r \notin Users(c)
    BY <1>0, <1>1, Zenon DEF Users
  <2> QED BY <1>1, <2>1, UsersFinite, FS_AddElement, Zenon
<1>2. CASE c # b
  <2>1. Users(c)' = Users(c)
    BY <1>0, <1>2, Zenon DEF Users
  <2> QED BY <1>2, <2>1, UsersFinite
<1> QED BY <1>1, <1>2, Zenon

(* brelse counts one less. *)
LEMMA UsersDrop ==
  ASSUME buf \in [Refs -> Bufs \cup {None}], NEW r \in Refs,
         buf[r] \in Bufs, buf' = [buf EXCEPT ![r] = None], NEW c \in Bufs
  PROVE  Cardinality(Users(c)') = Cardinality(Users(c)) - IF c = buf[r] THEN 1 ELSE 0
<1>0. None \notin Bufs
  BY ConstAssumption, Zenon DEF Bufs
<1>1. CASE c = buf[r]
  <2>1. Users(c)' = Users(c) \ {r} /\ r \in Users(c)
    BY <1>0, <1>1, Zenon DEF Users
  <2> QED BY <1>1, <2>1, UsersFinite, FS_RemoveElement
<1>2. CASE c # buf[r]
  <2>1. Users(c)' = Users(c)
    BY <1>0, <1>2, Zenon DEF Users
  <2> QED BY <1>2, <2>1, UsersFinite
<1> QED BY <1>1, <1>2, Zenon

(* A step that gives and takes no buffer and no pin keeps the counts. *)
LEMMA RefcntUnchanged ==
  ASSUME RefcntRight, UNCHANGED <<buf, refcnt, blockno, pinned>>
  PROVE  RefcntRight'
<1>1. \A b : Users(b)' = Users(b) /\ Pin(b)' = Pin(b)
  BY Zenon DEF Users, Pin
<1> QED BY <1>1, Zenon DEF RefcntRight

(* binit. *)
LEMMA CacheInit == Init => CacheInv
<1> SUFFICES ASSUME Init PROVE CacheInv
  OBVIOUS
<1>1. Shape /\ HasBuffer /\ OneBuffer /\ LockHeld /\ Contents
  BY ConstAssumption DEF Init, Shape, HasBuffer, OneBuffer, LockHeld, Contents, Bufs, PCs,
     Holding
<1>2. RefcntRight
  <2>1. ASSUME NEW b \in Bufs PROVE Users(b) = {} /\ Pin(b) = 0
    BY ConstAssumption, Zenon DEF Init, Users, Pin, Bufs
  <2> QED BY <2>1, FS_EmptySet DEF Init, RefcntRight
<1> QED BY <1>1, <1>2, Zenon DEF CacheInv
-----------------------------------------------------------------------------
(* Every step keeps the invariant. *)
LEMMA CacheStep == CacheInv /\ [Next]_vars => CacheInv'
<1> SUFFICES ASSUME CacheInv, [Next]_vars PROVE CacheInv'
  OBVIOUS
<1>c. None \notin Bufs /\ None \notin Refs /\ None \notin Blocks
  BY ConstAssumption, Zenon DEF Bufs, Refs
<1>i. Shape /\ HasBuffer /\ OneBuffer /\ RefcntRight /\ LockHeld /\ Contents
  BY Zenon DEF CacheInv
<1>u. ASSUME NEW b \in Bufs, refcnt[b] = 0 PROVE Users(b) = {} /\ blockno[b] \notin pinned
  <2>1. Cardinality(Users(b)) = 0 /\ Pin(b) = 0
    BY <1>i, <1>u, UsersFinite DEF RefcntRight, Pin
  <2> QED BY <2>1, UsersFinite, FS_EmptySet DEF Pin
<1> USE DEF Shape, HasBuffer, OneBuffer, LockHeld, Contents, PCs, Holding, At
<1>1. ASSUME NEW r \in Refs, NEW x \in Blocks, Bread(r, x) PROVE CacheInv'
  <2>1. (Shape /\ HasBuffer /\ OneBuffer /\ LockHeld /\ Contents)'
    BY <1>1, <1>i, <1>c DEF Bread, Goto
  <2> QED BY <2>1, <1>1, <1>i, RefcntUnchanged, Zenon DEF Bread, CacheInv
<1>2. ASSUME NEW r \in Refs, BgetHit(r) PROVE CacheInv'
  <2>1. PICK b \in Cached(want[r]) :
          /\ refcnt' = [refcnt EXCEPT ![b] = @ + 1]
          /\ buf' = [buf EXCEPT ![r] = b]
    BY <1>2, Zenon DEF BgetHit
  <2>2. /\ pc[r] = "bget" /\ b \in Bufs /\ blockno[b] = want[r] /\ pc' = [pc EXCEPT ![r] = "acquiresleep"]
        /\ UNCHANGED <<list, blockno, valid, data, locked, disk, pinned, want, latest>>
    BY <1>2, Zenon DEF BgetHit, Cached, Goto
  <2>3. (Shape /\ HasBuffer /\ OneBuffer /\ LockHeld /\ Contents)'
    BY <2>1, <2>2, <1>i, <1>c
  <2>4. ASSUME NEW c \in Bufs PROVE (refcnt[c] = Cardinality(Users(c)) + Pin(c))'
    <3>0. buf \in [Refs -> Bufs \cup {None}] /\ buf[r] = None
      BY <2>2, <1>i, Zenon
    <3>1. Cardinality(Users(c)') = Cardinality(Users(c)) + IF c = b THEN 1 ELSE 0
      BY ONLY <3>0, <2>1, <2>2, UsersAdd, c \in Bufs, r \in Refs, Zenon
    <3>2. Pin(c)' = Pin(c) /\ Pin(c) \in Nat
      BY <2>2, Zenon DEF Pin
    <3> QED BY <3>1, <3>2, <2>1, <1>i, UsersFinite DEF RefcntRight
  <2> QED BY <2>3, <2>4, Zenon DEF CacheInv, RefcntRight
<1>3. ASSUME NEW r \in Refs, BgetMiss(r) PROVE CacheInv'
  <2>1. PICK k \in Bufs : /\ Free(list[k])
                          /\ Recycle(list[k], want[r])
                          /\ buf' = [buf EXCEPT ![r] = list[k]]
    BY <1>3, Zenon DEF BgetMiss
  <2> DEFINE b == list[k]
  <2>2. /\ b \in Bufs /\ refcnt[b] = 0
        /\ blockno' = [blockno EXCEPT ![b] = want[r]]
        /\ valid' = [valid EXCEPT ![b] = FALSE]
        /\ refcnt' = [refcnt EXCEPT ![b] = 1]
        /\ buf' = [buf EXCEPT ![r] = b]
    BY <2>1, <1>i DEF Free, Recycle
  <2> HIDE DEF b
  <2>3. /\ pc[r] = "bget" /\ pc' = [pc EXCEPT ![r] = "acquiresleep"]
        /\ \A c \in Bufs : blockno[c] # want[r]
        /\ UNCHANGED <<list, data, locked, disk, pinned, want, latest>>
    BY <1>3, Zenon DEF BgetMiss, Goto, Cached
  <2>4. Users(b) = {} /\ blockno[b] \notin pinned /\ want[r] \notin pinned
    BY <2>2, <2>3, <1>i, <1>u
  <2>5. \A q \in Refs : buf[q] # b
    BY <2>4, Zenon DEF Users
  <2>6. (Shape /\ HasBuffer)'
    BY <2>2, <2>3, <2>5, <1>i, <1>c
  <2>7. (OneBuffer /\ LockHeld /\ Contents)'
    BY <2>2, <2>3, <2>4, <2>5, <1>i, <1>c
  <2>8. ASSUME NEW c \in Bufs PROVE (refcnt[c] = Cardinality(Users(c)) + Pin(c))'
    <3>0. buf \in [Refs -> Bufs \cup {None}] /\ buf[r] = None
      BY <2>3, <1>i, Zenon
    <3>1. Cardinality(Users(c)') = Cardinality(Users(c)) + IF c = b THEN 1 ELSE 0
      BY ONLY <3>0, <2>2, UsersAdd, c \in Bufs, r \in Refs, Zenon
    <3>2. CASE c = b
      <4>1. Cardinality(Users(c)) = 0
        BY <3>2, <2>4, FS_EmptySet, Zenon
      <4>2. Pin(c)' = 0
        BY <3>2, <2>2, <2>3, <2>4, <1>i DEF Pin
      <4> QED BY <3>1, <3>2, <4>1, <4>2, <2>2, <1>i
    <3>3. CASE c # b
      <4>1. Pin(c)' = Pin(c)
        BY <3>3, <2>2, <2>3, <1>i DEF Pin
      <4>2. refcnt[c] = Cardinality(Users(c)) + Pin(c) /\ refcnt'[c] = refcnt[c]
        BY <3>3, <2>2, <1>i DEF RefcntRight
      <4> QED BY <3>1, <3>3, <4>1, <4>2, UsersFinite
    <3> QED BY <3>2, <3>3, Zenon
  <2> QED BY <2>6, <2>7, <2>8, Zenon DEF CacheInv, RefcntRight
<1>4. ASSUME NEW r \in Refs, Acquiresleep(r) PROVE CacheInv'
  <2>1. (Shape /\ HasBuffer /\ OneBuffer /\ LockHeld /\ Contents)'
    <3>0. pc[r] = "acquiresleep" /\ buf[r] \in Bufs
      BY <1>4, <1>i DEF Acquiresleep
    <3>1. CASE locked[buf[r]] = None
      <4>1. /\ locked' = [locked EXCEPT ![buf[r]] = r] /\ pc' = [pc EXCEPT ![r] = "bread"]
            /\ UNCHANGED <<list, blockno, valid, refcnt, data, disk, pinned, want, buf, latest>>
        BY <1>4, <3>1, Zenon DEF Acquiresleep, Goto
      <4>2. LockHeld'
        BY <4>1, <3>0, <3>1, <1>i, <1>c
      <4>3. (Shape /\ HasBuffer /\ OneBuffer)'
        BY <4>1, <3>0, <1>i, <1>c
      <4>4. Contents'
        BY <4>1, <3>0, <1>i, <1>c
      <4> QED BY <4>2, <4>3, <4>4, Zenon
    <3>2. CASE locked[buf[r]] # None
      <4>1. /\ pc' = [pc EXCEPT ![r] = "asleep"]
            /\ UNCHANGED <<list, blockno, valid, refcnt, data, locked, disk, pinned, want, buf, latest>>
        BY <1>4, <3>2, Zenon DEF Acquiresleep, Goto
      <4> QED BY <4>1, <3>0, <1>i, <1>c
    <3> QED BY <3>1, <3>2, Zenon
  <2> QED BY <2>1, <1>4, <1>i, RefcntUnchanged, Zenon DEF Acquiresleep, CacheInv
<1>5. ASSUME NEW r \in Refs, BreadValid(r) PROVE CacheInv'
  <2>1. (Shape /\ HasBuffer /\ OneBuffer /\ LockHeld /\ Contents)'
    BY <1>5, <1>i, <1>c DEF BreadValid, Goto
  <2> QED BY <2>1, <1>5, <1>i, RefcntUnchanged, Zenon DEF BreadValid, CacheInv
<1>6. ASSUME NEW r \in Refs, ReadDone(r) PROVE CacheInv'
  <2>1. (Shape /\ HasBuffer /\ OneBuffer /\ LockHeld /\ Contents)'
    BY <1>6, <1>i, <1>c DEF ReadDone, Goto
  <2> QED BY <2>1, <1>6, <1>i, RefcntUnchanged, Zenon DEF ReadDone, CacheInv
<1>7. ASSUME NEW r \in Refs, NEW v \in Vals, Bwrite(r, v) PROVE CacheInv'
  <2>1. (Shape /\ HasBuffer /\ OneBuffer /\ LockHeld /\ Contents)'
    BY <1>7, <1>i, <1>c DEF Bwrite, Goto
  <2> QED BY <2>1, <1>7, <1>i, RefcntUnchanged, Zenon DEF Bwrite, CacheInv
<1>8. ASSUME NEW r \in Refs, NEW v \in Vals, LogWrite(r, v) PROVE CacheInv'
  <2>1. /\ pc[r] = "have" /\ buf[r] \in Bufs /\ want[r] \in Blocks /\ blockno[buf[r]] = want[r]
        /\ data' = [data EXCEPT ![buf[r]] = v]
        /\ latest' = [latest EXCEPT ![want[r]] = v]
        /\ pinned' = pinned \cup {want[r]}
        /\ refcnt' = IF want[r] \in pinned THEN refcnt ELSE [refcnt EXCEPT ![buf[r]] = @ + 1]
        /\ UNCHANGED <<list, blockno, valid, locked, disk, pc, want, buf>>
    BY <1>8, <1>i, <1>c DEF LogWrite, Bpin
  <2>2. (Shape /\ HasBuffer /\ OneBuffer /\ LockHeld /\ Contents)'
    BY <2>1, <1>i, <1>c
  <2>3. ASSUME NEW c \in Bufs PROVE (refcnt[c] = Cardinality(Users(c)) + Pin(c))'
    <3>1. Users(c)' = Users(c)
      BY <2>1, Zenon DEF Users
    <3>2. Pin(c)' = IF c = buf[r] THEN 1 ELSE Pin(c)
      BY <2>1, <1>i, <1>c DEF Pin
    <3>3. c = buf[r] => Pin(c) = IF want[r] \in pinned THEN 1 ELSE 0
      BY <2>1, Zenon DEF Pin
    <3>4. refcnt[c] = Cardinality(Users(c)) + Pin(c) /\ Pin(c) \in Nat
      BY <1>i, Zenon DEF RefcntRight, Pin
    <3> QED BY <3>1, <3>2, <3>3, <3>4, <2>1, <1>i, UsersFinite
  <2> QED BY <2>2, <2>3, Zenon DEF CacheInv, RefcntRight
<1>9. ASSUME NEW r \in Refs, Install(r) PROVE CacheInv'
  <2>1. (Shape /\ HasBuffer /\ OneBuffer /\ LockHeld /\ Contents)'
    BY <1>9, <1>i, <1>c DEF Install, Goto
  <2> QED BY <2>1, <1>9, <1>i, RefcntUnchanged, Zenon DEF Install, CacheInv
<1>10. ASSUME NEW r \in Refs, WriteDone(r) PROVE CacheInv'
  <2>1. (Shape /\ HasBuffer /\ OneBuffer /\ LockHeld /\ Contents)'
    BY <1>10, <1>i, <1>c DEF WriteDone, Goto
  <2> QED BY <2>1, <1>10, <1>i, RefcntUnchanged, Zenon DEF WriteDone, CacheInv
<1>11. ASSUME NEW r \in Refs, Bunpin(r) PROVE CacheInv'
  <2>1. /\ pc[r] = "written" /\ buf[r] \in Bufs /\ want[r] \in pinned /\ blockno[buf[r]] = want[r]
        /\ refcnt' = [refcnt EXCEPT ![buf[r]] = @ - 1]
        /\ pinned' = pinned \ {want[r]}
        /\ pc' = [pc EXCEPT ![r] = "have"]
        /\ UNCHANGED <<list, blockno, valid, data, locked, disk, want, buf, latest>>
    BY <1>11, <1>i, <1>c DEF Bunpin, Goto
  <2>2. ASSUME NEW c \in Bufs PROVE (refcnt[c] = Cardinality(Users(c)) + Pin(c))' /\ refcnt'[c] \in Nat
    <3>1. Users(c)' = Users(c)
      BY <2>1, Zenon DEF Users
    <3>2. Pin(c)' = IF c = buf[r] THEN 0 ELSE Pin(c)
      BY <2>1, <1>i, <1>c DEF Pin
    <3>3. c = buf[r] => Pin(c) = 1
      BY <2>1, Zenon DEF Pin
    <3>4. refcnt[c] = Cardinality(Users(c)) + Pin(c) /\ Pin(c) \in Nat
      BY <1>i, Zenon DEF RefcntRight, Pin
    <3> QED BY <3>1, <3>2, <3>3, <3>4, <2>1, <1>i, UsersFinite
  <2>3. refcnt' \in [Bufs -> Nat]
    BY <2>1, <2>2, <1>i, Zenon
  <2>4. (Shape /\ HasBuffer /\ OneBuffer /\ LockHeld /\ Contents)'
    BY <2>1, <2>3, <1>i, <1>c, SMTT(30)
  <2> QED BY <2>2, <2>4, Zenon DEF CacheInv, RefcntRight
<1>12. ASSUME NEW r \in Refs, Releasesleep(r) PROVE CacheInv'
  <2>1. (Shape /\ HasBuffer /\ OneBuffer /\ LockHeld /\ Contents)'
    <3>1. /\ pc[r] = "have" /\ buf[r] \in Bufs
          /\ locked' = [locked EXCEPT ![buf[r]] = None]
          /\ UNCHANGED <<list, blockno, valid, refcnt, data, disk, pinned, want, buf, latest>>
      BY <1>12, <1>i, <1>c DEF Releasesleep
    <3>2. /\ pc' \in [Refs -> PCs] /\ pc'[r] = "brelse"
          /\ \A q \in Refs \ {r} :
               pc'[q] = pc[q] \/ (pc[q] = "asleep" /\ pc'[q] = "acquiresleep")
      BY <1>12, <1>i DEF Releasesleep, Woken
    <3>3. (Shape /\ HasBuffer /\ OneBuffer)'
      BY <3>1, <3>2, <1>i, <1>c
    <3>4. \A q \in Refs \ {r} : pc[q] \in Holding => buf[q] # buf[r]
      BY <3>1, <1>i
    <3>5. LockHeld'
      BY <3>1, <3>2, <3>4, <1>i, <1>c
    <3>6. Contents'
      BY <3>1, <3>2, <1>i
    <3> QED BY <3>3, <3>5, <3>6, Zenon
  <2> QED BY <2>1, <1>12, <1>i, RefcntUnchanged, Zenon DEF Releasesleep, CacheInv
<1>13. ASSUME NEW r \in Refs, Brelse(r) PROVE CacheInv'
  <2>1. /\ pc[r] = "brelse" /\ buf[r] \in Bufs
        /\ refcnt' = [refcnt EXCEPT ![buf[r]] = @ - 1]
        /\ want' = [want EXCEPT ![r] = None] /\ buf' = [buf EXCEPT ![r] = None]
        /\ pc' = [pc EXCEPT ![r] = "idle"]
        /\ UNCHANGED <<blockno, valid, data, locked, disk, pinned, latest>>
    BY <1>13, <1>i, <1>c DEF Brelse, Goto
  <2>2. list' \in [Bufs -> Bufs]
    <3>1. \A k \in Bufs : k # 1 => k - 1 \in Bufs
      BY ConstAssumption DEF Bufs
    <3>2. ToFront(buf[r]) \in [Bufs -> Bufs]
      BY <3>1, <2>1, <1>i DEF ToFront
    <3> QED BY <3>2, <1>13, <1>i, Zenon DEF Brelse
  <2>3. ASSUME NEW c \in Bufs PROVE (refcnt[c] = Cardinality(Users(c)) + Pin(c))' /\ refcnt'[c] \in Nat
    <3>0. buf \in [Refs -> Bufs \cup {None}]
      BY <1>i, Zenon
    <3>1. Cardinality(Users(c)') = Cardinality(Users(c)) - IF c = buf[r] THEN 1 ELSE 0
      BY ONLY <3>0, <2>1, UsersDrop, c \in Bufs, r \in Refs, Zenon
    <3>4. Cardinality(Users(c)') \in Nat
      <4>1. Users(c)' \subseteq Refs
        BY Zenon DEF Users
      <4> QED BY <4>1, RefsFinite, FS_Subset, FS_CardinalityType, Zenon
    <3>2. Pin(c)' = Pin(c) /\ Pin(c) \in Nat
      BY <2>1, Zenon DEF Pin
    <3>3. refcnt[c] = Cardinality(Users(c)) + Pin(c)
      BY <1>i, Zenon DEF RefcntRight
    <3> QED BY <3>1, <3>2, <3>3, <3>4, <2>1, <1>i, UsersFinite, SMTT(30)
  <2>4. refcnt' \in [Bufs -> Nat]
    BY <2>1, <2>3, <1>i, Zenon
  <2>5. (Shape /\ HasBuffer /\ OneBuffer /\ LockHeld /\ Contents)'
    BY <2>1, <2>2, <2>4, <1>i, <1>c, SMTT(30)
  <2> QED BY <2>3, <2>5, Zenon DEF CacheInv, RefcntRight
<1>14. ASSUME NEW r \in Refs, BgetPanic(r) PROVE CacheInv'
  <2>1. (Shape /\ HasBuffer /\ OneBuffer /\ LockHeld /\ Contents)'
    BY <1>14, <1>i, <1>c DEF BgetPanic, Goto
  <2> QED BY <2>1, <1>14, <1>i, RefcntUnchanged, Zenon DEF BgetPanic, CacheInv
<1>15. CASE UNCHANGED vars
  <2>1. (Shape /\ HasBuffer /\ OneBuffer /\ LockHeld /\ Contents)'
    BY <1>15, <1>i DEF vars
  <2> QED BY <2>1, <1>15, <1>i, RefcntUnchanged, Zenon DEF vars, CacheInv
<1> QED
  BY <1>1, <1>2, <1>3, <1>4, <1>5, <1>6, <1>7, <1>8, <1>9, <1>10, <1>11, <1>12, <1>13,
     <1>14, <1>15, Zenon DEF Next
-----------------------------------------------------------------------------
(* The invariant of references, locks and contents holds in every          *)
(* reachable state, for any number of processes, buffers and blocks.       *)
THEOREM CacheInvariance == Spec => []CacheInv
BY CacheInit, CacheStep, PTL DEF Spec

(* A buffer is not recycled under a process that waits for it or has it    *)
(* (bget, brelse, bpin, bunpin).                                           *)
THEOREM BuffersStay == Spec => []BufferStays
<1>1. CacheInv => BufferStays
  BY Zenon DEF CacheInv, HasBuffer, BufferStays
<1> QED BY <1>1, CacheInvariance, PTL

(* bread returns the latest contents of the block, wherever they are. *)
THEOREM BreadReadsLatest == Spec => []ReadsLatest
<1>1. CacheInv => ReadsLatest
  <2> SUFFICES ASSUME CacheInv, NEW r \in Refs, pc[r] = "have"
               PROVE  data[buf[r]] = latest[want[r]]
    BY Zenon DEF ReadsLatest
  <2>1. buf[r] \in Bufs
    BY Zenon DEF CacheInv, Shape, HasBuffer
  <2>2. valid[buf[r]] /\ blockno[buf[r]] = want[r]
    BY <2>1, ConstAssumption, Zenon DEF CacheInv, HasBuffer, LockHeld, Bufs
  <2> QED BY <2>1, <2>2, Zenon DEF CacheInv, Contents
<1> QED BY <1>1, CacheInvariance, PTL
-----------------------------------------------------------------------------
(* Who sleeps for whom. *)
Asking == {"bget", "acquiresleep", "asleep", "bread", "reading"}

(* The holder of a sleep-lock is between bget and brelse of that buffer,   *)
(* nobody sleeps for one that is free, and a caller asks for its second    *)
(* buffer with the first in its hands, in the order of Inner.              *)
OwnerRight == \A r \in Refs, b \in Bufs : locked[b] = r => buf[r] = b /\ pc[r] \in Holding
SleepRight == \A r \in Refs : pc[r] = "asleep" => locked[buf[r]] # None
NestRight ==
  \A r \in Refs : pc[r] \in Asking =>
    IF r[2] = 1 THEN pc[Other(r)] = "idle" ELSE pc[Other(r)] = "have" /\ Inner(want[Other(r)], want[r])

WaitInv == OwnerRight /\ SleepRight /\ NestRight

(* The two pointers of a caller. *)
LEMMA OtherRef ==
  ASSUME NEW r \in Refs
  PROVE  /\ Other(r) \in Refs /\ Other(r) # r /\ Other(Other(r)) = r
         /\ Other(r)[1] = r[1] /\ Other(r)[2] = 3 - r[2] /\ r[2] \in {1, 2}
         /\ \A s \in Refs : s[1] = r[1] => s = r \/ s = Other(r)
BY DEF Refs, Other

(* A step of one pointer, with the other idle or in hand, from one place   *)
(* of bread to another or out of it, keeps the nesting.                    *)
LEMMA NestStep ==
  ASSUME Shape, NestRight, NEW r \in Refs, NEW from \in PCs, NEW to \in PCs, At(r, from),
         to \in Asking => from \in Asking,
         pc' = [pc EXCEPT ![r] = to],
         \A s \in Refs : s # r \/ to # "idle" => want'[s] = want[s]
  PROVE  NestRight'
<1> SUFFICES ASSUME NEW s \in Refs, pc'[s] \in Asking
             PROVE  IF s[2] = 1 THEN pc'[Other(s)] = "idle"
                    ELSE pc'[Other(s)] = "have" /\ Inner(want'[Other(s)], want'[s])
  BY Zenon DEF NestRight, Inner
<1>0. pc[r] = from /\ pc[Other(r)] \in {"idle", "have"} /\ pc \in [Refs -> PCs]
  BY Zenon DEF At, Shape
<1>1. s # Other(r)
  <2>1. s = Other(r) => pc'[s] = pc[s]
    BY <1>0, OtherRef, Zenon
  <2> QED BY <2>1, <1>0, Zenon DEF Asking
<1>2. Other(s) # r /\ Other(s) \in Refs
  BY <1>1, OtherRef, Zenon
<1>3. pc'[Other(s)] = pc[Other(s)] /\ want'[Other(s)] = want[Other(s)]
  BY <1>0, <1>2, Zenon
<1>4. pc[s] \in Asking /\ want'[s] = want[s]
  <2>1. CASE s = r
    BY <2>1, <1>0, Zenon DEF Asking
  <2>2. CASE s # r
    BY <2>2, <1>0, Zenon
  <2> QED BY <2>1, <2>2, Zenon
<1> QED BY <1>3, <1>4, Zenon DEF NestRight

(* So it does the locks, when it stays between bget and brelse or out of   *)
(* there and does not go to sleep.                                         *)
LEMMA OwnerStep ==
  ASSUME Shape, OwnerRight, SleepRight, NEW r \in Refs, NEW to \in PCs \ {"asleep"},
         pc' = [pc EXCEPT ![r] = to], pc[r] \in Holding => to \in Holding, UNCHANGED <<locked, buf>>
  PROVE  (OwnerRight /\ SleepRight)'
<1>1. pc \in [Refs -> PCs]
  BY Zenon DEF Shape
<1>2. OwnerRight'
  BY <1>1, Zenon DEF OwnerRight
<1>3. SleepRight'
  BY <1>1, Zenon DEF SleepRight
<1> QED BY <1>2, <1>3, Zenon

(* Every step keeps the invariant of the sleepers. *)
LEMMA WaitStep == CacheInv /\ WaitInv /\ [Next]_vars => WaitInv'
<1> SUFFICES ASSUME CacheInv, WaitInv, [Next]_vars PROVE WaitInv'
  OBVIOUS
<1>c. None \notin Bufs /\ None \notin Refs /\ None \notin Blocks
  BY ConstAssumption, Zenon DEF Bufs, Refs
<1>i. Shape /\ HasBuffer /\ LockHeld /\ OwnerRight /\ SleepRight /\ NestRight
  BY Zenon DEF CacheInv, WaitInv
<1>s. ASSUME NEW r \in Refs, NEW x \in Blocks, Bread(r, x) PROVE WaitInv'
  <2>1. /\ pc[r] = "idle" /\ pc' = [pc EXCEPT ![r] = "bget"] /\ want' = [want EXCEPT ![r] = x]
        /\ IF r[2] = 1 THEN pc[Other(r)] = "idle" ELSE pc[Other(r)] = "have" /\ Inner(want[Other(r)], x)
        /\ UNCHANGED <<locked, buf>>
    BY <1>s, Zenon DEF Bread, At, Goto
  <2>2. (OwnerRight /\ SleepRight)'
    BY <2>1, <1>i DEF OwnerRight, SleepRight, Shape, Holding
  <2>3. NestRight'
    <3> SUFFICES ASSUME NEW s \in Refs, pc'[s] \in Asking
                 PROVE  IF s[2] = 1 THEN pc'[Other(s)] = "idle"
                        ELSE pc'[Other(s)] = "have" /\ Inner(want'[Other(s)], want'[s])
      BY Zenon DEF NestRight, Inner
    <3>1. CASE s = r
      BY <3>1, <2>1, <1>i, OtherRef, Zenon DEF Shape
    <3>2. CASE s # r
      <4>1. pc[s] \in Asking /\ want'[s] = want[s]
        BY <3>2, <2>1, <1>i, Zenon DEF Shape
      <4>2. CASE Other(s) = r
        <5>1. s = Other(r) /\ r[2] = 3 - s[2] /\ s[2] \in {1, 2}
          BY <4>2, OtherRef, Zenon
        <5>2. pc[s] \in {"idle", "have"}
          BY <5>1, <2>1, Zenon
        <5> QED BY <5>2, <4>1, Zenon DEF Asking
      <4>3. CASE Other(s) # r
        <5>1. pc'[Other(s)] = pc[Other(s)] /\ want'[Other(s)] = want[Other(s)]
          BY <4>3, <2>1, <1>i, OtherRef, Zenon DEF Shape
        <5> QED BY <5>1, <4>1, <1>i, Zenon DEF NestRight
      <4> QED BY <4>2, <4>3, Zenon
    <3> QED BY <3>1, <3>2, Zenon
  <2> QED BY <2>2, <2>3, Zenon DEF WaitInv
<1>k. ASSUME NEW r \in Refs, NEW from \in PCs, NEW to \in PCs \ {"asleep"}, At(r, from), pc' = [pc EXCEPT ![r] = to],
             UNCHANGED <<locked, buf, want>>, from \in Holding => to \in Holding, to \in Asking => from \in Asking
      PROVE  WaitInv'
  <2>1. pc[r] = from
    BY <1>k, Zenon DEF At
  <2>2. (OwnerRight /\ SleepRight)'
    BY <2>1, <1>k, <1>i, OwnerStep, Zenon
  <2>3. NestRight'
    BY <1>k, <1>i, NestStep, Zenon
  <2> QED BY <2>2, <2>3, Zenon DEF WaitInv
<1>1. ASSUME NEW r \in Refs, BgetPanic(r) PROVE WaitInv'
  <2>1. PICK to \in {"panic"} : pc' = [pc EXCEPT ![r] = to]
    BY <1>1, Zenon DEF BgetPanic, Goto
  <2>2. At(r, "bget") /\ UNCHANGED <<locked, buf, want>>
    BY <1>1, Zenon DEF BgetPanic
  <2> QED BY <2>1, <2>2, <1>k, Zenon DEF PCs, Holding, Asking
<1>2. ASSUME NEW r \in Refs, BreadValid(r) PROVE WaitInv'
  <2>1. PICK to \in {"have", "reading"} : pc' = [pc EXCEPT ![r] = to]
    BY <1>2, Zenon DEF BreadValid, Goto
  <2>2. At(r, "bread") /\ UNCHANGED <<locked, buf, want>>
    BY <1>2, Zenon DEF BreadValid
  <2> QED BY <2>1, <2>2, <1>k, Zenon DEF PCs, Holding, Asking
<1>3. ASSUME NEW r \in Refs, ReadDone(r) PROVE WaitInv'
  <2>1. PICK to \in {"have"} : pc' = [pc EXCEPT ![r] = to]
    BY <1>3, Zenon DEF ReadDone, Goto
  <2>2. At(r, "reading") /\ UNCHANGED <<locked, buf, want>>
    BY <1>3, Zenon DEF ReadDone
  <2> QED BY <2>1, <2>2, <1>k, Zenon DEF PCs, Holding, Asking
<1>4. ASSUME NEW r \in Refs, NEW v \in Vals, Bwrite(r, v) PROVE WaitInv'
  <2>1. PICK to \in {"writing"} : pc' = [pc EXCEPT ![r] = to]
    BY <1>4, Zenon DEF Bwrite, Goto
  <2>2. At(r, "have") /\ UNCHANGED <<locked, buf, want>>
    BY <1>4, Zenon DEF Bwrite
  <2> QED BY <2>1, <2>2, <1>k, Zenon DEF PCs, Holding, Asking
<1>5. ASSUME NEW r \in Refs, Install(r) PROVE WaitInv'
  <2>1. PICK to \in {"writing"} : pc' = [pc EXCEPT ![r] = to]
    BY <1>5, Zenon DEF Install, Goto
  <2>2. At(r, "have") /\ UNCHANGED <<locked, buf, want>>
    BY <1>5, Zenon DEF Install
  <2> QED BY <2>1, <2>2, <1>k, Zenon DEF PCs, Holding, Asking
<1>6. ASSUME NEW r \in Refs, WriteDone(r) PROVE WaitInv'
  <2>1. PICK to \in {"written", "have"} : pc' = [pc EXCEPT ![r] = to]
    BY <1>6, Zenon DEF WriteDone, Goto
  <2>2. At(r, "writing") /\ UNCHANGED <<locked, buf, want>>
    BY <1>6, Zenon DEF WriteDone
  <2> QED BY <2>1, <2>2, <1>k, Zenon DEF PCs, Holding, Asking
<1>7. ASSUME NEW r \in Refs, Bunpin(r) PROVE WaitInv'
  <2>1. PICK to \in {"have"} : pc' = [pc EXCEPT ![r] = to]
    BY <1>7, Zenon DEF Bunpin, Goto
  <2>2. At(r, "written") /\ UNCHANGED <<locked, buf, want>>
    BY <1>7, Zenon DEF Bunpin
  <2> QED BY <2>1, <2>2, <1>k, Zenon DEF PCs, Holding, Asking
<1>8. ASSUME NEW r \in Refs, BgetHit(r) \/ BgetMiss(r) PROVE WaitInv'
  <2>1. /\ At(r, "bget") /\ pc' = [pc EXCEPT ![r] = "acquiresleep"]
        /\ \E b \in Bufs : buf' = [buf EXCEPT ![r] = b]
        /\ UNCHANGED <<locked, want>>
    BY <1>8, <1>i, Zenon DEF BgetHit, BgetMiss, Goto, Cached, Shape
  <2>2. (OwnerRight /\ SleepRight)'
    BY <2>1, <1>i DEF OwnerRight, SleepRight, Shape, Holding, At
  <2>3. NestRight'
    BY <2>1, <1>i, NestStep, Zenon DEF PCs, Asking
  <2> QED BY <2>2, <2>3, Zenon DEF WaitInv
<1>9. ASSUME NEW r \in Refs, Acquiresleep(r) PROVE WaitInv'
  <2>1. PICK to \in {"bread", "asleep"} :
          /\ pc' = [pc EXCEPT ![r] = to]
          /\ IF to = "asleep" THEN locked[buf[r]] # None /\ UNCHANGED locked
             ELSE locked[buf[r]] = None /\ locked' = [locked EXCEPT ![buf[r]] = r]
    BY <1>9, Zenon DEF Acquiresleep, Goto
  <2>2. At(r, "acquiresleep") /\ UNCHANGED <<buf, want>>
    BY <1>9, Zenon DEF Acquiresleep
  <2>3. buf[r] \in Bufs
    BY <2>2, <1>i, Zenon DEF At, HasBuffer, Shape
  <2>4. (OwnerRight /\ SleepRight)'
    <3>1. CASE to = "asleep"
      BY <3>1, <2>1, <2>2, <1>i DEF OwnerRight, SleepRight, Shape, Holding, At
    <3>2. CASE to = "bread"
      <4>1. /\ locked[buf[r]] = None /\ locked' = [locked EXCEPT ![buf[r]] = r]
            /\ pc' = [pc EXCEPT ![r] = "bread"] /\ buf' = buf
        BY <3>2, <2>1, <2>2, Zenon
      <4>2. OwnerRight'
        BY <4>1, <2>3, <1>i, <1>c DEF OwnerRight, Shape, Holding
      <4>3. SleepRight'
        BY <4>1, <2>3, <1>i, <1>c DEF SleepRight, Shape
      <4> QED BY <4>2, <4>3, Zenon
    <3> QED BY <3>1, <3>2, Zenon
  <2>5. NestRight'
    BY <2>1, <2>2, <1>i, NestStep, Zenon DEF PCs, Asking
  <2> QED BY <2>4, <2>5, Zenon DEF WaitInv
<1>10. ASSUME NEW r \in Refs, Brelse(r) PROVE WaitInv'
  <2>1. /\ At(r, "brelse") /\ pc' = [pc EXCEPT ![r] = "idle"]
        /\ want' = [want EXCEPT ![r] = None] /\ buf' = [buf EXCEPT ![r] = None] /\ UNCHANGED locked
    BY <1>10, Zenon DEF Brelse, Goto
  <2>2. (OwnerRight /\ SleepRight)'
    BY <2>1, <1>i DEF OwnerRight, SleepRight, Shape, Holding, At
  <2>3. \A s \in Refs : s # r \/ "idle" # "idle" => want'[s] = want[s]
    BY <2>1, <1>i, Zenon DEF Shape
  <2>4. NestRight'
    BY <2>1, <2>3, <1>i, NestStep DEF PCs, Asking
  <2> QED BY <2>2, <2>4, Zenon DEF WaitInv
<1>11. ASSUME NEW r \in Refs, Releasesleep(r) PROVE WaitInv'
  <2>1. /\ pc[r] = "have" /\ pc[Other(r)] \in {"idle", "have"} /\ pc'[r] = "brelse"
        /\ \A s \in Refs \ {r} :
             pc'[s] = IF pc[s] = "asleep" /\ buf[s] = buf[r] THEN "acquiresleep" ELSE pc[s]
        /\ locked' = [locked EXCEPT ![buf[r]] = None]
        /\ UNCHANGED <<buf, want>>
    BY <1>11, <1>i, Zenon DEF Releasesleep, At, Woken
  <2>2. OwnerRight'
    BY <2>1, <1>i, <1>c DEF OwnerRight, Shape, Holding
  <2>3. SleepRight'
    BY <2>1, <1>i DEF SleepRight, Shape
  <2>4. NestRight'
    <3> SUFFICES ASSUME NEW s \in Refs, pc'[s] \in Asking
                 PROVE  IF s[2] = 1 THEN pc'[Other(s)] = "idle"
                        ELSE pc'[Other(s)] = "have" /\ Inner(want'[Other(s)], want'[s])
      BY Zenon DEF NestRight, Inner
    <3>1. s # r /\ pc[s] \in Asking
      BY <2>1, Zenon DEF Asking
    <3>2. Other(s) \in Refs \ {r}
      BY <3>1, <2>1, OtherRef, Zenon DEF Asking
    <3>3. pc'[Other(s)] = pc[Other(s)]
      BY <3>1, <3>2, <2>1, <1>i, Zenon DEF NestRight
    <3> QED BY <3>1, <3>3, <2>1, <1>i, Zenon DEF NestRight
  <2> QED BY <2>2, <2>3, <2>4, Zenon DEF WaitInv
<1>12. CASE UNCHANGED <<locked, pc, want, buf>>
  BY <1>12, <1>i, Zenon DEF WaitInv, OwnerRight, SleepRight, NestRight, Inner
<1> QED
  BY <1>s, <1>1, <1>2, <1>3, <1>4, <1>5, <1>6, <1>7, <1>8, <1>9, <1>10, <1>11, <1>12, Zenon
     DEF Next, LogWrite, vars

(* The invariant of the sleepers holds in every reachable state. *)
THEOREM WaitInvariance == Spec => []WaitInv
<1>1. Init => WaitInv
  BY ConstAssumption DEF Init, WaitInv, OwnerRight, SleepRight, NestRight, Asking, Refs, Bufs
<1> QED BY <1>1, WaitStep, CacheInvariance, PTL DEF Spec

(* A caller asleep for a buffer that a process of S has, if anybody has it. *)
SleepsIn(r, S) == pc[r] = "asleep" /\ (locked[buf[r]] # None => locked[buf[r]][1] \in S)

(* It waits for another sleeper, who asks for a block further on. *)
LEMMA NextSleeper ==
  ASSUME CacheInv, WaitInv, NEW S \in SUBSET Procs, \A p \in S : WaitsFor(p, S),
         NEW r \in Refs, SleepsIn(r, S)
  PROVE  \E g \in Refs : SleepsIn(g, S) /\ Inner(want[r], want[g])
<1> DEFINE h == locked[buf[r]]
<1>1. pc[r] = "asleep" /\ buf[r] \in Bufs /\ h \in Refs /\ h[1] \in S
  BY DEF SleepsIn, CacheInv, Shape, HasBuffer, WaitInv, SleepRight
<1>2. buf[h] = buf[r] /\ pc[h] \in Holding
  BY <1>1, Zenon DEF WaitInv, OwnerRight
<1>3. want[h] = want[r]
  BY <1>1, <1>2, ConstAssumption, Zenon DEF CacheInv, HasBuffer, Bufs
<1> HIDE DEF h
<1>4. PICK k \in {1, 2} : SleepsIn(<<h[1], k>>, S)
  BY <1>1, Zenon DEF WaitsFor, SleepsIn
<1> DEFINE g == <<h[1], k>>
<1>5. g \in Refs /\ g[1] = h[1] /\ pc[g] = "asleep"
  BY <1>1, <1>4, Zenon DEF Refs, SleepsIn
<1> HIDE DEF g
<1>6. g # h
  BY <1>2, <1>5, Zenon DEF Holding
<1>7. g = Other(h) /\ Other(g) = h
  BY <1>1, <1>5, <1>6, OtherRef, Zenon
<1>8. pc[h] # "idle"
  BY <1>2, Zenon DEF Holding
<1>9. Inner(want[h], want[g])
  BY <1>5, <1>7, <1>8, Zenon DEF WaitInv, NestRight, Asking
<1>10. SleepsIn(g, S)
  BY <1>4, Zenon DEF g
<1> QED BY <1>3, <1>5, <1>9, <1>10, Zenon

(* No set of processes sleeps for each other's buffers: from the log to    *)
(* indirect blocks to the rest there are two steps, and a circle would     *)
(* take a third (acquiresleep under bread in bmap, itrunc, install_trans   *)
(* and write_log).                                                         *)
THEOREM SleepersFreed == Spec => []NobodyStuck
<1>1. CacheInv /\ WaitInv => NobodyStuck
  <2> SUFFICES ASSUME CacheInv, WaitInv, NEW S \in SUBSET Procs, NEW p \in S, \A q \in S : WaitsFor(q, S)
               PROVE  FALSE
    BY Zenon DEF NobodyStuck
  <2>1. PICK r \in Refs : SleepsIn(r, S)
    BY Zenon DEF WaitsFor, SleepsIn, Refs
  <2>2. PICK s \in Refs : SleepsIn(s, S) /\ Inner(want[r], want[s])
    BY <2>1, NextSleeper, Zenon
  <2>3. PICK t \in Refs : SleepsIn(t, S) /\ Inner(want[s], want[t])
    BY <2>2, NextSleeper, Zenon
  <2>4. PICK u \in Refs : SleepsIn(u, S) /\ Inner(want[t], want[u])
    BY <2>3, NextSleeper, Zenon
  <2> QED BY <2>2, <2>3, <2>4, Zenon DEF Inner
<1> QED BY <1>1, CacheInvariance, WaitInvariance, PTL
-----------------------------------------------------------------------------
(* The list has every buffer. *)
ListInv == \A b \in Bufs : \E k \in Bufs : list[k] = b

(* brelse loses no buffer from the list. *)
LEMMA ToFrontKeeps ==
  ASSUME list \in [Bufs -> Bufs], \A c \in Bufs : \E k \in Bufs : list[k] = c, NEW b \in Bufs
  PROVE  \A c \in Bufs : \E k \in Bufs : ToFront(b)[k] = c
<1> DEFINE j == CHOOSE j \in Bufs : list[j] = b
<1>1. j \in Bufs /\ list[j] = b
  OBVIOUS
<1>2. ToFront(b) = [k \in Bufs |-> IF k = 1 THEN b ELSE IF k <= j THEN list[k - 1] ELSE list[k]]
  BY Zenon DEF ToFront
<1> HIDE DEF j
<1> TAKE c \in Bufs
<1>3. PICK i \in Bufs : list[i] = c
  OBVIOUS
<1>4. CASE c = b
  <2>1. 1 \in Bufs
    BY ConstAssumption DEF Bufs
  <2> QED BY <2>1, <1>2, <1>4, Zenon
<1>5. CASE c # b /\ i < j
  <2>1. i + 1 \in Bufs /\ i + 1 # 1 /\ i + 1 <= j /\ (i + 1) - 1 = i
    BY <1>1, <1>5, ConstAssumption DEF Bufs
  <2>2. ToFront(b)[i + 1] = c
    BY <2>1, <1>2, <1>3, Zenon
  <2> QED BY <2>1, <2>2, Zenon
<1>6. CASE c # b /\ i >= j
  <2>0. i # j
    BY <1>1, <1>3, <1>6, Zenon
  <2>1. i # 1 /\ ~(i <= j)
    BY <2>0, <1>1, <1>3, <1>6, ConstAssumption DEF Bufs
  <2> QED BY <2>1, <1>2, <1>3, Zenon
<1> QED BY <1>1, <1>4, <1>5, <1>6, ConstAssumption DEF Bufs

(* A buffer that is not free has a user or is pinned. *)
LEMMA UsedBuffer ==
  ASSUME CacheInv, NEW b \in Bufs, ~Free(b)
  PROVE  blockno[b] \in pinned \/ \E r \in Refs : buf[r] = b
<1>1. CASE Pin(b) = 0
  <2>1. Cardinality(Users(b)) # 0
    BY <1>1, UsersFinite DEF CacheInv, RefcntRight, Free
  <2> QED BY <2>1, FS_EmptySet, Zenon DEF Users
<1>2. CASE Pin(b) # 0
  BY <1>2, Zenon DEF Pin
<1> QED BY <1>1, <1>2, Zenon

(* bget looks at every buffer, and panics only when each is in use: no     *)
(* reference outlives its user or its pin, and brelse loses no buffer from *)
(* the list.                                                               *)
THEOREM PanicsRight == Spec => []PanicsOnlyWhenFull
<1>1. Init => ListInv /\ PanicsOnlyWhenFull
  <2> SUFFICES ASSUME Init PROVE ListInv /\ PanicsOnlyWhenFull
    OBVIOUS
  <2>1. ASSUME NEW b \in Bufs PROVE \E k \in Bufs : list[k] = b
    <3>1. NBUF + 1 - b \in Bufs /\ list[NBUF + 1 - b] = b
      BY ConstAssumption DEF Init, Bufs
    <3> QED BY <3>1, Zenon
  <2>2. ~Panicked
    BY Zenon DEF Init, Panicked
  <2> QED BY <2>1, <2>2, Zenon DEF ListInv, PanicsOnlyWhenFull
<1>2. CacheInv /\ ListInv /\ PanicsOnlyWhenFull /\ [Next]_vars => (ListInv /\ PanicsOnlyWhenFull)'
  <2> SUFFICES ASSUME CacheInv, ListInv, PanicsOnlyWhenFull, [Next]_vars
               PROVE  (ListInv /\ PanicsOnlyWhenFull)'
    OBVIOUS
  <2>1. CASE UNCHANGED vars
    BY <2>1, Zenon DEF vars, ListInv, PanicsOnlyWhenFull, Panicked
  <2>2. ASSUME NEW r \in Refs, BgetPanic(r) PROVE (ListInv /\ PanicsOnlyWhenFull)'
    <3>1. UNCHANGED <<list, blockno, pinned, buf>> /\ \A k \in Bufs : ~Free(list[k])
      BY <2>2, Zenon DEF BgetPanic
    <3>2. \A b \in Bufs : ~Free(b)
      BY <3>1, Zenon DEF ListInv
    <3>3. \A b \in Bufs : blockno[b] \in pinned \/ \E s \in Refs : buf[s] = b
      BY <3>2, UsedBuffer, Zenon
    <3> QED BY <3>1, <3>3, Zenon DEF ListInv, PanicsOnlyWhenFull
  <2>3. ASSUME NEW r \in Refs, NEW to \in PCs \ {"panic"}, ~Panicked, pc' = [pc EXCEPT ![r] = to] PROVE ~Panicked'
    BY <2>3, Zenon DEF Panicked, CacheInv, Shape
  <2>4. ASSUME NEW r \in Refs, Brelse(r) PROVE (ListInv /\ PanicsOnlyWhenFull)'
    <3>1. list' \in {ToFront(buf[r]), list} /\ pc[r] = "brelse" /\ ~Panicked /\ pc' = [pc EXCEPT ![r] = "idle"]
      BY <2>4, Zenon DEF Brelse, At, Goto
    <3>2. list \in [Bufs -> Bufs] /\ buf[r] \in Bufs
      BY <3>1, Zenon DEF CacheInv, Shape, HasBuffer
    <3>3. \A c \in Bufs : \E k \in Bufs : ToFront(buf[r])[k] = c
      BY <3>2, ToFrontKeeps, Zenon DEF ListInv
    <3>4. ~Panicked'
      BY <2>3, <3>1, Zenon DEF PCs
    <3> QED BY <3>1, <3>3, <3>4, Zenon DEF ListInv, PanicsOnlyWhenFull
  <2>5. ASSUME NEW r \in Refs, Releasesleep(r) PROVE (ListInv /\ PanicsOnlyWhenFull)'
    <3>1. ~Panicked /\ pc' = [Woken(buf[r]) EXCEPT ![r] = "brelse"] /\ list' = list
      BY <2>5, Zenon DEF Releasesleep, At
    <3>2. ~Panicked'
      BY <3>1, Zenon DEF Panicked, Woken
    <3> QED BY <3>1, <3>2, Zenon DEF ListInv, PanicsOnlyWhenFull
  <2>6. ASSUME NEW r \in Refs, NEW v \in Vals, LogWrite(r, v) PROVE (ListInv /\ PanicsOnlyWhenFull)'
    BY <2>6, Zenon DEF LogWrite, At, Panicked, ListInv, PanicsOnlyWhenFull
  <2>7. ASSUME NEW r \in Refs, ~Panicked, list' = list, \E to \in PCs \ {"panic"} : pc' = [pc EXCEPT ![r] = to]
        PROVE  (ListInv /\ PanicsOnlyWhenFull)'
    BY <2>3, <2>7, Zenon DEF ListInv, PanicsOnlyWhenFull
  <2> DEFINE Plain(r) == \/ \E x \in Blocks : Bread(r, x)
                         \/ BgetHit(r) \/ BgetMiss(r) \/ Acquiresleep(r) \/ BreadValid(r) \/ ReadDone(r)
                         \/ \E v \in Vals : Bwrite(r, v)
                         \/ Install(r) \/ WriteDone(r) \/ Bunpin(r)
  <2>8. ASSUME NEW r \in Refs, Plain(r) PROVE (ListInv /\ PanicsOnlyWhenFull)'
    <3>1. ~Panicked /\ list' = list
      BY <2>8, Zenon DEF At, Bread, BgetHit, BgetMiss, Acquiresleep, BreadValid, ReadDone, Bwrite, Install,
         WriteDone, Bunpin
    <3>2. PICK to \in {"bget", "acquiresleep", "bread", "asleep", "have", "reading", "writing", "written"} :
            pc' = [pc EXCEPT ![r] = to]
      BY <2>8, Zenon DEF Goto, Bread, BgetHit, BgetMiss, Acquiresleep, BreadValid, ReadDone, Bwrite, Install,
         WriteDone, Bunpin
    <3>3. to \in PCs \ {"panic"}
      BY <3>2, Zenon DEF PCs
    <3> QED BY <2>7, <3>1, <3>2, <3>3, Zenon
  <2>9. \/ UNCHANGED vars
        \/ \E r \in Refs : \/ Plain(r) \/ BgetPanic(r) \/ \E v \in Vals : LogWrite(r, v)
                          \/ Releasesleep(r) \/ Brelse(r)
    BY Zenon DEF Next
  <2> HIDE DEF Plain
  <2> QED BY <2>1, <2>2, <2>4, <2>5, <2>6, <2>8, <2>9, Zenon
<1> QED BY <1>1, <1>2, CacheInvariance, PTL DEF Spec
=============================================================================
