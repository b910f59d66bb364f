---------------------------- MODULE ConsoleProofs ---------------------------
(***************************************************************************)
(* Proofs about module Console, for any readers and writers, any ring and  *)
(* any larger multiple of its size at which cons.r, w and e wrap.          *)
(***************************************************************************)
EXTENDS Console, SequenceTheorems, TLAPS

(* The time that the provers get for a step that does not say otherwise. *)
USE SMTT(20), ZenonT(20)

(* The indices are in order around the ring, no more than its size apart,  *)
(* and the line that can still be edited has no end in it.                 *)
RingRight ==
  /\ {r, w, e} \subseteq 0 .. UINT - 1
  /\ Minus(w, r) + Minus(e, w) <= INPUT_BUF_SIZE
  /\ buf \in [Slot -> Char \cup {None}]
  /\ \A k \in 0 .. INPUT_BUF_SIZE - 1 : k < Minus(e, w) => buf[Plus(w, k) % INPUT_BUF_SIZE] = "x"

(* The types that the argument about sleepers needs. *)
Shape ==
  /\ rd \in [Readers -> [pc : {"user", "sleep", "woken"}, n : Nat, some : BOOLEAN, killed : BOOLEAN]]
  /\ wr \in [Writers -> {"user", "woken", "sleep", "uartstart", "thr"}]
  /\ tx \in 0 .. UART_TX_BUF_SIZE /\ {busy, rx, irq} \subseteq BOOLEAN
  /\ handler \in {"idle", "rx", "echo", "tx", "uartstart", "thr"}

ConsoleInv == Shape /\ RingRight /\ NoLostWakeup /\ OutputMoves
-----------------------------------------------------------------------------
(* The arithmetic of a ring that free-running indices select the slots of. *)

(* A multiple of s strictly between -s and s is 0. *)
LEMMA NoMultiple ==
  ASSUME NEW s \in Nat \ {0}, NEW k \in Int, s * k < s, 0 - s < s * k
  PROVE  k = 0
<1>1. CASE k >= 1
  <2>1. s * k >= s BY <1>1, SMT
  <2> QED BY <2>1
<1>2. CASE k <= -1
  <2>1. s * k <= 0 - s BY <1>2, SMT
  <2> QED BY <2>1
<1> QED BY <1>1, <1>2

(* Division with remainder, as C does it on unsigned numbers. *)
LEMMA Division ==
  ASSUME NEW s \in Nat \ {0}, NEW x \in Int
  PROVE  x \div s \in Int /\ x % s \in 0 .. s - 1 /\ x = s * (x \div s) + (x % s)
BY SMT

(* The remainder is the only number below s that differs from x by a      *)
(* multiple of s.                                                          *)
LEMMA ModUnique ==
  ASSUME NEW s \in Nat \ {0}, NEW x \in Nat, NEW q \in Int, NEW m \in 0 .. s - 1, x = s * q + m
  PROVE  x % s = m
<1> DEFINE d == x \div s
<1>1. d \in Int /\ x % s \in 0 .. s - 1 /\ x = s * d + (x % s) BY Division
<1> HIDE DEF d
<1>2. s * (d - q) = m - (x % s) BY <1>1, SMT
<1>3. d - q = 0 BY <1>1, <1>2, NoMultiple
<1>4. s * (d - q) = 0 BY <1>3
<1> QED BY <1>1, <1>2, <1>4

(* An index that is incremented, or an offset added to it, wraps at most   *)
(* once.                                                                   *)
LEMMA ModWrap ==
  ASSUME NEW c \in Nat \ {0}, NEW x \in Nat, x < 2 * c
  PROVE  x % c = IF x < c THEN x ELSE x - c
<1>1. CASE x < c
  <2>1. x = c * 0 + x BY SMT
  <2> QED BY <1>1, <2>1, ModUnique
<1>2. CASE x >= c
  <2>1. x = c * 1 + (x - c) BY SMT
  <2>2. x - c \in 0 .. c - 1 BY <1>2
  <2> QED BY <1>2, <2>1, <2>2, ModUnique
<1> QED BY <1>1, <1>2

(* Where an index with c values wraps, the slot it selects does not, since *)
(* the size of the ring divides c.                                         *)
LEMMA ModAdd ==
  ASSUME NEW s \in Nat \ {0}, NEW c \in Nat, c % s = 0, NEW x \in Nat
  PROVE  (x + c) % s = x % s
<1> DEFINE d == x \div s
           f == c \div s
           m == x % s
           y == x + c
<1>1. d \in Int /\ m \in 0 .. s - 1 /\ x = s * d + m BY Division
<1>2. f \in Int /\ c = s * f BY Division
<1>3. y \in Nat /\ y = x + c OBVIOUS
<1> HIDE DEF d, f, m, y
<1>4. s * (d + f) = s * d + s * f BY <1>1, <1>2, SMT
<1>5. d + f \in Int /\ y = s * (d + f) + m BY <1>1, <1>2, <1>3, <1>4
<1>6. y % s = m BY <1>1, <1>3, <1>5, ModUnique, ZenonT(30)
<1> QED BY <1>6, Zenon DEF m, y

(* Indices less than s apart select different slots of a ring of size s. *)
LEMMA ModDistinct ==
  ASSUME NEW s \in Nat \ {0}, NEW x \in Nat, NEW y \in Nat, x < y, y < x + s
  PROVE  x % s # y % s
<1> DEFINE d == x \div s
           f == y \div s
<1> SUFFICES ASSUME x % s = y % s PROVE FALSE OBVIOUS
<1>1. d \in Int /\ x % s \in 0 .. s - 1 /\ x = s * d + (x % s) BY Division
<1>2. f \in Int /\ y % s \in 0 .. s - 1 /\ y = s * f + (y % s) BY Division
<1> HIDE DEF d, f
<1>3. s * (f - d) = y - x BY <1>1, <1>2, SMT
<1>4. f - d = 0 BY <1>1, <1>2, <1>3, NoMultiple
<1>5. s * (f - d) = 0 BY <1>4
<1> QED BY <1>3, <1>5
-----------------------------------------------------------------------------
(* An index that is moved forward or back wraps at most once. *)
LEMMA PlusIs ==
  ASSUME NEW i \in 0 .. UINT - 1, NEW k \in 0 .. UINT
  PROVE  Plus(i, k) = (IF i + k < UINT THEN i + k ELSE i + k - UINT) /\ Plus(i, k) \in 0 .. UINT - 1
<1> DEFINE x == i + k
<1>1. UINT \in Nat \ {0} /\ x \in Nat /\ x < 2 * UINT
  BY ConstAssumption
<1> HIDE DEF x
<1>2. x % UINT = IF x < UINT THEN x ELSE x - UINT
  BY <1>1, ModWrap, Zenon
<1> QED BY <1>1, <1>2 DEF Plus, x

(* and back. *)
LEMMA MinusIs ==
  ASSUME NEW i \in 0 .. UINT - 1, NEW k \in 0 .. UINT
  PROVE  Minus(i, k) = (IF i >= k THEN i - k ELSE i + UINT - k) /\ Minus(i, k) \in 0 .. UINT - 1
<1> DEFINE x == i + UINT - k
<1>1. UINT \in Nat \ {0} /\ x \in Nat /\ x < 2 * UINT
  BY ConstAssumption
<1> HIDE DEF x
<1>2. x % UINT = IF x < UINT THEN x ELSE x - UINT
  BY <1>1, ModWrap, Zenon
<1> QED BY <1>1, <1>2 DEF Minus, x

(* The slot of an index does not depend on whether it has wrapped. *)
LEMMA SlotIs ==
  ASSUME NEW i \in 0 .. UINT - 1, NEW k \in 0 .. UINT
  PROVE  Plus(i, k) % INPUT_BUF_SIZE = (i + k) % INPUT_BUF_SIZE /\ (i + k) % INPUT_BUF_SIZE \in Slot
<1> DEFINE S == INPUT_BUF_SIZE  j == Plus(i, k)
<1>1. S \in Nat \ {0} /\ UINT \in Nat /\ UINT % S = 0 /\ i + k \in Nat
  BY ConstAssumption
<1> HIDE DEF j, S
<1>2. j \in Nat /\ (j = i + k \/ i + k = j + UINT)
  <2>1. Plus(i, k) = (IF i + k < UINT THEN i + k ELSE i + k - UINT) /\ Plus(i, k) \in 0 .. UINT - 1
    BY PlusIs, Zenon
  <2> QED BY <1>1, <2>1 DEF j
<1>3. (j + UINT) % S = j % S
  BY <1>1, <1>2, ModAdd, Zenon
<1>4. (i + k) % S \in 0 .. S - 1
  BY <1>1, Division
<1> QED BY <1>2, <1>3, <1>4, Zenon DEF j, S, Slot

(* Places less than the ring's size apart have slots of their own. *)
LEMMA SlotsDiffer ==
  ASSUME NEW i \in 0 .. UINT - 1, NEW j \in 0 .. UINT, NEW k \in 0 .. UINT, j < k, k < j + INPUT_BUF_SIZE
  PROVE  Plus(i, j) % INPUT_BUF_SIZE # Plus(i, k) % INPUT_BUF_SIZE
<1> DEFINE S == INPUT_BUF_SIZE  a == i + j  b == i + k
<1>1. S \in Nat \ {0} /\ a \in Nat /\ b \in Nat /\ a < b /\ b < a + S
  BY ConstAssumption
<1> HIDE DEF S, a, b
<1>2. a % S # b % S
  BY <1>1, ModDistinct, Zenon
<1> QED BY <1>2, SlotIs, Zenon DEF S, a, b
-----------------------------------------------------------------------------
(* Steps along the ring add up. *)
LEMMA Around ==
  ASSUME NEW i \in 0 .. UINT - 1, NEW a \in 0 .. UINT, NEW k \in 0 .. UINT, a + k <= UINT
  PROVE  /\ Plus(Plus(i, a), k) = Plus(i, a + k)
         /\ Minus(Plus(i, a + k), k) = Plus(i, a)
         /\ k < UINT => Minus(Plus(i, a + k), Plus(i, a)) = k
<1> DEFINE j == Plus(i, a)  l == Plus(i, a + k)
<1>1. UINT \in Nat \ {0} /\ a + k \in 0 .. UINT
  BY ConstAssumption
<1>2. /\ j = (IF i + a < UINT THEN i + a ELSE i + a - UINT) /\ j \in 0 .. UINT - 1
      /\ l = (IF i + (a + k) < UINT THEN i + (a + k) ELSE i + (a + k) - UINT) /\ l \in 0 .. UINT - 1
  BY <1>1, PlusIs, Zenon
<1> HIDE DEF j, l
<1>3. Plus(j, k) = IF j + k < UINT THEN j + k ELSE j + k - UINT
  BY <1>2, PlusIs, Zenon
<1>4. Minus(l, k) = IF l >= k THEN l - k ELSE l + UINT - k
  BY <1>2, MinusIs, Zenon
<1>5. Minus(l, j) = IF l >= j THEN l - j ELSE l + UINT - j
  <2>1. j \in 0 .. UINT
    BY <1>1, <1>2
  <2> QED BY <1>2, <2>1, MinusIs, Zenon
<1>6. Plus(j, k) = l /\ (k < UINT => Minus(l, j) = k)
  BY <1>1, <1>2, <1>3, <1>5
<1>7. Minus(l, k) = j
  BY <1>1, <1>2, <1>4
<1> QED BY <1>6, <1>7, Zenon DEF j, l
-----------------------------------------------------------------------------
(* n cells of the ring b, from index i on. *)
Cell(b, i, k) == b[Plus(i, k) % INPUT_BUF_SIZE]
Cells(b, i, n) == [k \in 1 .. n |-> Cell(b, i, k - 1)]
Value == Char \cup {None}
Rings == [Slot -> Value]

(* The cells are a sequence of that length. *)
LEMMA CellsAre ==
  ASSUME NEW b \in Rings, NEW i \in 0 .. UINT - 1, NEW n \in 0 .. UINT
  PROVE  /\ Cells(b, i, n) \in Seq(Value) /\ Len(Cells(b, i, n)) = n
         /\ \A k \in 1 .. n : Cells(b, i, n)[k] = Cell(b, i, k - 1)
<1>1. \A k \in 1 .. n : Cell(b, i, k - 1) \in Value
  <2> TAKE k \in 1 .. n
  <2>1. k - 1 \in 0 .. UINT
    BY ConstAssumption
  <2>2. Plus(i, k - 1) % INPUT_BUF_SIZE \in Slot
    BY <2>1, SlotIs, Zenon
  <2> QED BY <2>2, Zenon DEF Cell, Rings
<1>2. n \in Nat /\ Cells(b, i, n) \in [1 .. n -> Value]
  BY <1>1, ConstAssumption DEF Cells
<1>3. Cells(b, i, n) \in Seq(Value) /\ Len(Cells(b, i, n)) = n
  BY <1>2
<1> QED BY <1>3, Zenon DEF Cells

(* Neighbouring parts of the ring. *)
LEMMA CellsConcat ==
  ASSUME NEW b \in Rings, NEW i \in 0 .. UINT - 1, NEW n \in 0 .. UINT, NEW m \in 0 .. UINT, n + m <= UINT
  PROVE  Cells(b, i, n) \o Cells(b, Plus(i, n), m) = Cells(b, i, n + m)
<1> DEFINE j == Plus(i, n)  s == Cells(b, i, n)  t == Cells(b, j, m)  u == Cells(b, i, n + m)
<1>1. j \in 0 .. UINT - 1 /\ n + m \in 0 .. UINT /\ UINT \in Nat
  BY PlusIs, ConstAssumption
<1>2. \A k \in 1 .. m : Cell(b, j, k - 1) = Cell(b, i, n + k - 1)
  <2> TAKE k \in 1 .. m
  <2>1. k - 1 \in 0 .. UINT /\ n + (k - 1) <= UINT /\ n + (k - 1) = n + k - 1
    BY <1>1
  <2>2. Plus(j, k - 1) = Plus(i, n + (k - 1))
    BY <2>1, Around, ZenonT(30)
  <2> QED BY <2>1, <2>2, Zenon DEF Cell
<1> HIDE DEF j
<1>3. s \in Seq(Value) /\ Len(s) = n /\ \A k \in 1 .. n : s[k] = Cell(b, i, k - 1)
  BY CellsAre, Zenon
<1>4. t \in Seq(Value) /\ Len(t) = m /\ \A k \in 1 .. m : t[k] = Cell(b, j, k - 1)
  BY <1>1, CellsAre, Zenon
<1>5. u \in Seq(Value) /\ Len(u) = n + m /\ \A k \in 1 .. n + m : u[k] = Cell(b, i, k - 1)
  BY <1>1, CellsAre, Zenon
<1> HIDE DEF s, t, u
<1>6. /\ s \o t \in Seq(Value) /\ Len(s \o t) = n + m
      /\ \A k \in 1 .. n + m : (s \o t)[k] = IF k <= n THEN s[k] ELSE t[k - n]
  BY <1>3, <1>4, ConcatProperties, Zenon
<1>7. ASSUME NEW k \in 1 .. n + m PROVE (s \o t)[k] = u[k]
  <2>1. CASE k <= n
    BY <1>1, <1>3, <1>5, <1>6, <2>1
  <2>2. CASE k > n
    <3>1. k - n \in 1 .. m /\ n + (k - n) - 1 = k - 1
      BY <1>1, <2>2
    <3>2. (s \o t)[k] = t[k - n]
      BY <1>1, <1>6, <2>2
    <3>3. t[k - n] = Cell(b, i, n + (k - n) - 1)
      BY <1>2, <1>4, <3>1, Zenon
    <3> QED BY <1>5, <3>1, <3>2, <3>3, Zenon
  <2>3. k <= n \/ k > n
    BY <1>1
  <2> QED BY <2>1, <2>2, <2>3, Zenon
<1>8. s \o t = u
  BY <1>5, <1>6, <1>7, SeqEqual, Zenon
<1> QED BY <1>8, Zenon DEF s, t, u, j

(* A character is put behind the others. *)
LEMMA CellsAppend ==
  ASSUME NEW b \in Rings, NEW d \in Rings, NEW i \in 0 .. UINT - 1, NEW n \in 0 .. INPUT_BUF_SIZE - 1, NEW c \in Value,
         \A k \in 0 .. n - 1 : Cell(d, i, k) = Cell(b, i, k), Cell(d, i, n) = c
  PROVE  Cells(d, i, n + 1) = Append(Cells(b, i, n), c)
<1> DEFINE s == Cells(b, i, n)  t == Cells(d, i, n + 1)  u == Append(s, c)
<1>1. n \in 0 .. UINT /\ n + 1 \in 0 .. UINT /\ n \in Nat /\ UINT \in Nat
  BY ConstAssumption
<1>2. Cell(d, i, n) = c
  OBVIOUS
<1>3. ASSUME NEW k \in 1 .. n PROVE Cell(d, i, k - 1) = Cell(b, i, k - 1)
  <2>1. k - 1 \in 0 .. n - 1
    BY <1>1
  <2> QED BY <2>1, Zenon
<1>4. s \in Seq(Value) /\ Len(s) = n /\ \A k \in 1 .. n : s[k] = Cell(b, i, k - 1)
  BY <1>1, CellsAre, Zenon
<1>5. t \in Seq(Value) /\ Len(t) = n + 1 /\ \A k \in 1 .. n + 1 : t[k] = Cell(d, i, k - 1)
  BY <1>1, CellsAre, Zenon
<1> HIDE DEF s, t
<1>6. u \in Seq(Value) /\ Len(u) = n + 1 /\ u[n + 1] = c /\ \A k \in 1 .. n : u[k] = s[k]
  BY <1>4, AppendProperties
<1> HIDE DEF u
<1>7. ASSUME NEW k \in 1 .. n + 1 PROVE t[k] = u[k]
  <2>1. CASE k = n + 1
    <3>1. k - 1 = n
      BY <1>1, <2>1
    <3>2. t[k] = Cell(d, i, n)
      BY <1>5, <3>1, Zenon
    <3> QED BY <1>2, <1>6, <2>1, <3>2, Zenon
  <2>2. CASE k # n + 1
    <3>1. k \in 1 .. n
      BY <1>1, <2>2
    <3> QED BY <1>3, <1>4, <1>5, <1>6, <3>1, Zenon
  <2> QED BY <2>1, <2>2, Zenon
<1>8. t = u
  BY <1>5, <1>6, <1>7, SeqEqual, Zenon
<1> QED BY <1>8, Zenon DEF s, t, u

(* The first k of them, *)
LEMMA CellsTake ==
  ASSUME NEW b \in Rings, NEW i \in 0 .. UINT - 1, NEW n \in 0 .. UINT, NEW k \in 0 .. n
  PROVE  SubSeq(Cells(b, i, n), 1, k) = Cells(b, i, k)
<1> DEFINE s == Cells(b, i, n)  t == Cells(b, i, k)  u == SubSeq(s, 1, k)
<1>1. k \in 0 .. UINT /\ k \in Nat /\ n \in Nat
  BY ConstAssumption
<1>2. s \in Seq(Value) /\ Len(s) = n /\ \A j \in 1 .. n : s[j] = Cell(b, i, j - 1)
  BY CellsAre, Zenon
<1>3. t \in Seq(Value) /\ Len(t) = k /\ \A j \in 1 .. k : t[j] = Cell(b, i, j - 1)
  BY <1>1, CellsAre, Zenon
<1> HIDE DEF s, t
<1>4. u \in Seq(Value) /\ Len(u) = k /\ \A j \in 1 .. k : u[j] = s[j]
  BY <1>1, <1>2
<1> HIDE DEF u
<1>5. t = u
  BY <1>1, <1>2, <1>3, <1>4, SeqEqual
<1> QED BY <1>5, Zenon DEF s, t, u

(* and what is behind them. *)
LEMMA CellsDrop ==
  ASSUME NEW b \in Rings, NEW i \in 0 .. UINT - 1, NEW n \in 0 .. UINT, NEW k \in 0 .. n
  PROVE  SubSeq(Cells(b, i, n), k + 1, n) = Cells(b, Plus(i, k), n - k)
<1> DEFINE j == Plus(i, k)  s == Cells(b, i, n)  t == Cells(b, j, n - k)  u == SubSeq(s, k + 1, n)
<1>1. k \in 0 .. UINT /\ n - k \in 0 .. UINT /\ k \in Nat /\ n \in Nat /\ UINT \in Nat
  BY ConstAssumption
<1>2. j \in 0 .. UINT - 1
  BY <1>1, PlusIs, Zenon
<1>3. ASSUME NEW l \in 1 .. n - k PROVE Cell(b, j, l - 1) = Cell(b, i, k + l - 1)
  <2>1. l - 1 \in 0 .. UINT /\ k + (l - 1) <= UINT /\ k + (l - 1) = k + l - 1
    BY <1>1
  <2>2. Plus(j, l - 1) = Plus(i, k + (l - 1))
    BY <1>1, <2>1, Around, ZenonT(30)
  <2> QED BY <2>1, <2>2, Zenon DEF Cell
<1> HIDE DEF j
<1>4. s \in Seq(Value) /\ Len(s) = n /\ \A l \in 1 .. n : s[l] = Cell(b, i, l - 1)
  BY CellsAre, Zenon
<1>5. t \in Seq(Value) /\ Len(t) = n - k /\ \A l \in 1 .. n - k : t[l] = Cell(b, j, l - 1)
  BY <1>1, <1>2, CellsAre, Zenon
<1> HIDE DEF s, t
<1>6. u \in Seq(Value) /\ Len(u) = n - k /\ \A l \in 1 .. n - k : u[l] = s[k + l]
  BY <1>1, <1>4
<1> HIDE DEF u
<1>7. ASSUME NEW l \in 1 .. n - k PROVE t[l] = u[l]
  <2>1. k + l \in 1 .. n
    BY <1>1
  <2> QED BY <1>3, <1>4, <1>5, <1>6, <2>1
<1>8. t = u
  BY <1>5, <1>6, <1>7, SeqEqual, Zenon
<1> QED BY <1>8, Zenon DEF s, t, u, j

(* No cells, no characters. *)
LEMMA CellsNone == ASSUME NEW b, NEW i PROVE Cells(b, i, 0) = <<>>
BY DEF Cells

(* A character behind two sequences is one behind the second. *)
LEMMA AppendConcat ==
  ASSUME NEW s \in Seq(Value), NEW t \in Seq(Value), NEW c \in Value
  PROVE  Append(s \o t, c) = s \o Append(t, c)
<1> DEFINE u == <<c>>  st == s \o t
<1>1. u \in Seq(Value)
  OBVIOUS
<1>2. st \in Seq(Value)
  BY ConcatProperties, Zenon
<1>3. Append(t, c) = t \o u
  OBVIOUS
<1> HIDE DEF st
<1>4. Append(st, c) = st \o u
  BY <1>2
<1> HIDE DEF u
<1>5. st \o u = s \o (t \o u)
  BY <1>1, ConcatAssociative DEF st
<1> QED BY <1>3, <1>4, <1>5, Zenon DEF st

(* A cell can be counted from either index. *)
LEMMA CellShift ==
  ASSUME NEW b, NEW i \in 0 .. UINT - 1, NEW a \in 0 .. UINT, NEW k \in 0 .. UINT, a + k <= UINT
  PROVE  Cell(b, Plus(i, a), k) = Cell(b, i, a + k)
BY Around, Zenon DEF Cell

(* The places of one round have slots of their own. *)
LEMMA PlacesDiffer ==
  ASSUME NEW i \in 0 .. UINT - 1, NEW j \in 0 .. INPUT_BUF_SIZE - 1, NEW k \in 0 .. INPUT_BUF_SIZE - 1, j # k
  PROVE  /\ Plus(i, j) % INPUT_BUF_SIZE # Plus(i, k) % INPUT_BUF_SIZE
         /\ Plus(i, j) % INPUT_BUF_SIZE \in Slot
<1>1. j \in 0 .. UINT /\ k \in 0 .. UINT /\ (j < k \/ k < j)
      /\ k < j + INPUT_BUF_SIZE /\ j < k + INPUT_BUF_SIZE
  BY ConstAssumption
<1>2. Plus(i, j) % INPUT_BUF_SIZE \in Slot
  BY <1>1, SlotIs, Zenon
<1>3. j < k => Plus(i, j) % INPUT_BUF_SIZE # Plus(i, k) % INPUT_BUF_SIZE
  BY <1>1, SlotsDiffer, Zenon
<1>4. k < j => Plus(i, j) % INPUT_BUF_SIZE # Plus(i, k) % INPUT_BUF_SIZE
  BY <1>1, SlotsDiffer, Zenon
<1> QED BY <1>1, <1>2, <1>3, <1>4, Zenon

(* A part of the ring that is written nowhere keeps its contents. *)
Agree(b, d, i, a, n) == \A k \in a .. a + n - 1 : Cell(d, i, k) = Cell(b, i, k)

(* The same, counted from the index where the part begins. *)
LEMMA AgreeShift ==
  ASSUME NEW b, NEW d, NEW i \in 0 .. UINT - 1, NEW a \in 0 .. UINT, NEW n \in 0 .. UINT, a + n <= UINT,
         Agree(b, d, i, a, n)
  PROVE  Agree(b, d, Plus(i, a), 0, n)
<1> SUFFICES ASSUME NEW k \in 0 .. 0 + n - 1 PROVE Cell(d, Plus(i, a), k) = Cell(b, Plus(i, a), k)
  BY Zenon DEF Agree
<1>1. k \in 0 .. UINT /\ a + k <= UINT /\ a + k \in a .. a + n - 1
  BY ConstAssumption
<1>2. Cell(d, Plus(i, a), k) = Cell(d, i, a + k) /\ Cell(b, Plus(i, a), k) = Cell(b, i, a + k)
  BY <1>1, CellShift, Zenon
<1> QED BY <1>1, <1>2, Zenon DEF Agree

(* Then the sequence is the same. *)
LEMMA CellsKept ==
  ASSUME NEW b, NEW d, NEW i, NEW n \in Nat, Agree(b, d, i, 0, n)
  PROVE  Cells(d, i, n) = Cells(b, i, n)
<1>1. ASSUME NEW k \in 1 .. n PROVE Cell(d, i, k - 1) = Cell(b, i, k - 1)
  <2>1. k - 1 \in 0 .. 0 + n - 1
    OBVIOUS
  <2> QED BY <2>1, Zenon DEF Agree
<1> QED BY <1>1, Zenon DEF Cells
-----------------------------------------------------------------------------
Ready == Contents(r, w)
Line == Contents(w, e)
nready == Minus(w, r)
nline == Minus(e, w)

(* Where the indices are, and what is between them. *)
LEMMA RingIs ==
  ASSUME RingRight
  PROVE  /\ nready \in 0 .. INPUT_BUF_SIZE /\ nline \in 0 .. INPUT_BUF_SIZE
         /\ nready + nline <= INPUT_BUF_SIZE
         /\ r \in 0 .. UINT - 1 /\ w \in 0 .. UINT - 1 /\ e \in 0 .. UINT - 1 /\ buf \in Rings
         /\ w = Plus(r, nready) /\ e = Plus(r, nready + nline) /\ e = Plus(w, nline)
         /\ Minus(e, r) = nready + nline
         /\ Ready = Cells(buf, r, nready) /\ Line = Cells(buf, w, nline)
         /\ \A k \in 0 .. nline - 1 : Cell(buf, w, k) = "x"
<1>1. /\ r \in 0 .. UINT - 1 /\ w \in 0 .. UINT - 1 /\ e \in 0 .. UINT - 1 /\ buf \in Rings
      /\ nready + nline <= INPUT_BUF_SIZE
  BY Zenon DEF RingRight, nready, nline, Rings, Value
<1>2. /\ UINT \in Nat /\ INPUT_BUF_SIZE \in Nat /\ INPUT_BUF_SIZE < UINT
      /\ r \in 0 .. UINT /\ w \in 0 .. UINT
  BY <1>1, ConstAssumption
<1>3. nready = (IF w >= r THEN w - r ELSE w + UINT - r) /\ nready \in 0 .. UINT - 1
  BY <1>1, <1>2, MinusIs, Zenon DEF nready
<1>4. nline = (IF e >= w THEN e - w ELSE e + UINT - w) /\ nline \in 0 .. UINT - 1
  BY <1>1, <1>2, MinusIs, Zenon DEF nline
<1>5. nready \in 0 .. INPUT_BUF_SIZE /\ nline \in 0 .. INPUT_BUF_SIZE
  BY <1>1, <1>2, <1>3, <1>4
<1>6. nready \in 0 .. UINT /\ nline \in 0 .. UINT /\ nready + nline \in 0 .. UINT
  BY <1>1, <1>2, <1>5
<1>7. Plus(r, nready) = IF r + nready < UINT THEN r + nready ELSE r + nready - UINT
  BY <1>1, <1>6, PlusIs, Zenon
<1>8. Plus(w, nline) = IF w + nline < UINT THEN w + nline ELSE w + nline - UINT
  BY <1>1, <1>6, PlusIs, Zenon
<1>9. w = Plus(r, nready)
  BY <1>1, <1>2, <1>3, <1>7
<1>10. e = Plus(w, nline)
  BY <1>1, <1>2, <1>4, <1>8
<1>11. e = Plus(r, nready + nline)
  BY <1>1, <1>6, <1>9, <1>10, Around
<1>12. Minus(e, r) = IF e >= r THEN e - r ELSE e + UINT - r
  BY <1>1, <1>2, MinusIs, Zenon
<1>13. Minus(e, r) = nready + nline
  BY <1>1, <1>2, <1>3, <1>4, <1>12
<1>14. Ready = Cells(buf, r, nready) /\ Line = Cells(buf, w, nline)
  BY Zenon DEF Ready, Line, Contents, Cells, Cell, nready, nline
<1>15. ASSUME NEW k \in 0 .. nline - 1 PROVE Cell(buf, w, k) = "x"
  <2>1. k \in 0 .. INPUT_BUF_SIZE - 1 /\ k < nline
    BY <1>2, <1>5
  <2> QED BY <2>1, Zenon DEF RingRight, nline, Cell
<1> QED BY <1>1, <1>5, <1>9, <1>10, <1>11, <1>13, <1>14, <1>15, Zenon

(* The same, read backwards: a step that leaves n characters to be read    *)
(* and m in the line, none of them the end of one, has kept the ring right.*)
LEMMA NewRing ==
  ASSUME NEW n \in 0 .. INPUT_BUF_SIZE, NEW m \in 0 .. INPUT_BUF_SIZE, n + m <= INPUT_BUF_SIZE,
         r' \in 0 .. UINT - 1, w' = Plus(r', n), e' = Plus(r', n + m), buf' \in Rings,
         \A k \in 0 .. m - 1 : Cell(buf', w', k) = "x"
  PROVE  RingRight' /\ Ready' = Cells(buf', r', n) /\ Line' = Cells(buf', w', m)
<1>1. /\ UINT \in Nat /\ INPUT_BUF_SIZE \in Nat /\ INPUT_BUF_SIZE < UINT
      /\ n \in 0 .. UINT /\ m \in 0 .. UINT /\ n + m \in 0 .. UINT /\ 0 \in 0 .. UINT
      /\ n < UINT /\ m < UINT /\ n + m < UINT /\ 0 + n = n /\ 0 + n <= UINT /\ n + m <= UINT
  BY ConstAssumption
<1>2. w' \in 0 .. UINT - 1 /\ e' \in 0 .. UINT - 1
  BY <1>1, PlusIs, Zenon
<1>3. Plus(r', 0) = r'
  BY <1>1, PlusIs
<1>4. Minus(w', r') = n
  <2>1. Minus(Plus(r', 0 + n), Plus(r', 0)) = n
    BY <1>1, Around
  <2> QED BY <1>1, <1>3, <2>1, Zenon
<1>5. Minus(e', w') = m
  BY <1>1, Around
<1>6. RingRight'
  <2>1. (\A k \in 0 .. INPUT_BUF_SIZE - 1 : k < Minus(e, w) => buf[Plus(w, k) % INPUT_BUF_SIZE] = "x")'
    <3> SUFFICES ASSUME NEW k \in 0 .. INPUT_BUF_SIZE - 1, k < m
                 PROVE  buf'[Plus(w', k) % INPUT_BUF_SIZE] = "x"
      BY <1>5, Zenon
    <3>1. k \in 0 .. m - 1
      BY <1>1
    <3> QED BY <3>1, Zenon DEF Cell
  <2> QED BY <1>2, <1>4, <1>5, <2>1, Zenon DEF RingRight, Rings, Value
<1>7. Ready' = Cells(buf', r', n) /\ Line' = Cells(buf', w', m)
  BY <1>4, <1>5, Zenon DEF Ready, Line, Contents, Cells, Cell
<1> QED BY <1>6, <1>7, Zenon
-----------------------------------------------------------------------------
(* A typed character is behind the line, and may end it. *)
LEMMA InsertIsKey ==
  ASSUME RingRight, NEW c \in Char, Insert(c)
  PROVE  RingRight' /\ Abstract!Key(c)
<1> DEFINE n == nready  m == nline  S == INPUT_BUF_SIZE
<1>0. /\ n \in 0 .. S /\ m \in 0 .. S /\ n + m <= S
      /\ r \in 0 .. UINT - 1 /\ w \in 0 .. UINT - 1 /\ e \in 0 .. UINT - 1 /\ buf \in Rings
      /\ w = Plus(r, n) /\ e = Plus(r, n + m) /\ e = Plus(w, m) /\ Minus(e, r) = n + m
      /\ Ready = Cells(buf, r, n) /\ Line = Cells(buf, w, m)
      /\ \A k \in 0 .. m - 1 : Cell(buf, w, k) = "x"
  BY RingIs, Zenon
<1> HIDE DEF n, m
<1>1. /\ S \in Nat /\ UINT \in Nat /\ S < UINT /\ n + m < S
      /\ n \in 0 .. UINT /\ m \in 0 .. UINT /\ n + m \in 0 .. S - 1 /\ n + m \in 0 .. UINT
      /\ 1 \in 0 .. UINT /\ n + m + 1 \in 0 .. UINT /\ (n + m) + 1 <= UINT
  BY <1>0, ConstAssumption DEF Insert, Room
<1>2. /\ buf' = [buf EXCEPT ![Plus(r, n + m) % S] = c] /\ e' = Plus(r, n + m + 1) /\ r' = r
  <2>1. Plus(Plus(r, n + m), 1) = Plus(r, (n + m) + 1)
    BY <1>0, <1>1, Around
  <2> QED BY <1>0, <1>1, <2>1, Zenon DEF Insert
<1>3. buf' \in Rings /\ c \in Value
  <2>1. c \in Value
    BY Zenon DEF Value
  <2> QED BY <1>0, <1>2, <2>1, Zenon DEF Rings
<1>4. Minus(e', r) = n + m + 1
  <2>1. Plus(r, 0) = r /\ 0 \in 0 .. UINT
    BY <1>0, <1>1, PlusIs
  <2>2. n + m + 1 < UINT /\ 0 + (n + m + 1) = n + m + 1 /\ 0 + (n + m + 1) <= UINT
    BY <1>0, <1>1
  <2>3. Minus(Plus(r, 0 + (n + m + 1)), Plus(r, 0)) = n + m + 1
    BY <1>0, <1>1, <2>1, <2>2, Around
  <2> QED BY <1>2, <2>1, <2>2, <2>3, Zenon
<1>5. ASSUME NEW k \in 0 .. n + m - 1 PROVE Cell(buf', r, k) = Cell(buf, r, k)
  <2>1. k \in 0 .. S - 1 /\ k # n + m
    BY <1>0, <1>1
  <2> QED BY <1>0, <1>1, <1>2, <2>1, PlacesDiffer, Zenon DEF Cell, Rings
<1>6. Agree(buf, buf', r, 0, n) /\ Agree(buf, buf', r, n, m)
  BY <1>0, <1>1, <1>5 DEF Agree
<1>7. Cell(buf', r, n + m) = c
  <2>1. Plus(r, n + m) % S \in Slot
    BY <1>0, <1>1, SlotIs, Zenon
  <2> QED BY <1>0, <1>2, <2>1, Zenon DEF Cell, Rings
<1>8. Ready \in Seq(Value) /\ Line \in Seq(Value) /\ Len(Ready) = n /\ Len(Line) = m
  BY <1>0, <1>1, CellsAre, Zenon
<1>9. CASE Ends(c, e')
  <2>1. w' = e'
    BY <1>9, Zenon DEF Insert
  <2>2. Cells(buf', r, n + m + 1) = Ready \o Append(Line, c)
    <3>1. Cells(buf', r, n + m + 1) = Append(Cells(buf, r, n + m), c)
      <4> DEFINE l == n + m
      <4>1. /\ buf \in Rings /\ buf' \in Rings /\ r \in 0 .. UINT - 1 /\ l \in 0 .. INPUT_BUF_SIZE - 1
            /\ Cell(buf', r, l) = c /\ \A k \in 0 .. l - 1 : Cell(buf', r, k) = Cell(buf, r, k)
        BY <1>0, <1>1, <1>3, <1>5, <1>7
      <4> HIDE DEF l
      <4>2. Cells(buf', r, l + 1) = Append(Cells(buf, r, l), c)
        BY <1>3, <4>1, CellsAppend, Zenon
      <4> QED BY <4>2, Zenon DEF l
    <3>2. Cells(buf, r, n + m) = Ready \o Line
      <4>1. Cells(buf, r, n) \o Cells(buf, Plus(r, n), m) = Cells(buf, r, n + m)
        <5>1. n + m <= UINT
          BY <1>0, <1>1
        <5> QED BY ONLY <5>1, <1>0, <1>1, CellsConcat, ZenonT(30)
      <4> QED BY <1>0, <4>1, ZenonT(30)
    <3> QED BY <1>3, <1>8, <3>1, <3>2, AppendConcat, Zenon
  <2>3. /\ n + m + 1 \in 0 .. S /\ 0 \in 0 .. S /\ n + m + 1 + 0 <= S /\ n + m + 1 + 0 = n + m + 1
        /\ \A k \in 0 .. 0 - 1 : Cell(buf', w', k) = "x"
    BY <1>0, <1>1
  <2>4. RingRight' /\ Ready' = Cells(buf', r, n + m + 1) /\ Line' = Cells(buf', w', 0)
    BY <1>0, <1>2, <1>3, <2>1, <2>3, NewRing, Zenon
  <2>5. c \in Ender \/ n + m + 1 = S
    BY <1>2, <1>4, <1>9, Zenon DEF Ends
  <2>6. Ready' = Ready \o Append(Line, c) /\ Line' = <<>>
    BY <2>2, <2>4, CellsNone, Zenon
  <2> QED BY <1>1, <1>8, <2>4, <2>5, <2>6, Zenon DEF Abstract!Key, Ready, Line
<1>10. CASE ~Ends(c, e')
  <2>1. w' = w /\ c \notin Ender /\ c = "x" /\ n + m + 1 # S
    BY <1>2, <1>4, <1>10, Zenon DEF Insert, Ends, Char
  <2>2. /\ Cell(buf', w, m) = c /\ \A k \in 0 .. m - 1 : Cell(buf', w, k) = Cell(buf, w, k)
    <3>1. Agree(buf, buf', w, 0, m) /\ n + m <= UINT
      BY <1>0, <1>1, <1>6, AgreeShift
    <3>2. \A k \in 0 .. m - 1 : Cell(buf', w, k) = Cell(buf, w, k)
      BY <1>0, <1>1, <3>1 DEF Agree
    <3>3. Cell(buf', Plus(r, n), m) = Cell(buf', r, n + m)
      BY <1>0, <1>1, <3>1, CellShift
    <3> QED BY <1>0, <1>7, <3>2, <3>3, Zenon
  <2>3. Cells(buf', r, n) = Ready
    BY <1>0, <1>1, <1>6, CellsKept
  <2>4. Cells(buf', w, m + 1) = Append(Line, c)
    <3>1. m \in 0 .. INPUT_BUF_SIZE - 1
      BY <1>0, <1>1
    <3>2. Cells(buf', w, m + 1) = Append(Cells(buf, w, m), c)
      BY <1>0, <1>3, <2>2, <3>1, CellsAppend
    <3> QED BY <1>0, <3>2, Zenon
  <2>5. ASSUME NEW k \in 0 .. (m + 1) - 1 PROVE Cell(buf', w', k) = "x"
    <3>1. k = m \/ k \in 0 .. m - 1
      BY <1>0, <1>1
    <3> QED BY <1>0, <2>1, <2>2, <3>1, Zenon
  <2>6. m + 1 \in 0 .. S /\ n + (m + 1) <= S /\ n + (m + 1) = n + m + 1
    BY <1>0, <1>1
  <2>7. RingRight' /\ Ready' = Cells(buf', r, n) /\ Line' = Cells(buf', w, m + 1)
    BY <1>0, <1>2, <1>3, <2>1, <2>5, <2>6, NewRing, Zenon
  <2>8. Ready' = Ready /\ Line' = Append(Line, c)
    BY <2>3, <2>4, <2>7, Zenon
  <2> QED BY <1>1, <1>8, <2>1, <2>7, <2>8, Zenon DEF Abstract!Key, Ready, Line
<1> QED BY <1>9, <1>10, Zenon

(* Moving e back by j erases the last j characters of the line. *)
LEMMA CutBack ==
  ASSUME RingRight, NEW j \in 1 .. nline, UNCHANGED <<r, w>>, e' = Minus(e, j),
         buf' = [s \in Slot |-> IF \E k \in 1 .. j : Minus(e, k) % INPUT_BUF_SIZE = s THEN None ELSE buf[s]]
  PROVE  RingRight' /\ Ready' = Ready /\ Line' = SubSeq(Line, 1, nline - j)
<1> DEFINE n == nready  m == nline  S == INPUT_BUF_SIZE  l == m - j
<1>0. /\ n \in 0 .. S /\ m \in 0 .. S /\ n + m <= S
      /\ r \in 0 .. UINT - 1 /\ w \in 0 .. UINT - 1 /\ e \in 0 .. UINT - 1 /\ buf \in Rings
      /\ w = Plus(r, n) /\ e = Plus(r, n + m)
      /\ Ready = Cells(buf, r, n) /\ Line = Cells(buf, w, m)
      /\ \A k \in 0 .. m - 1 : Cell(buf, w, k) = "x"
  BY RingIs, Zenon
<1>j. j \in 1 .. m
  OBVIOUS
<1> HIDE DEF n, m
<1>1. /\ S \in Nat /\ UINT \in Nat /\ S < UINT
      /\ n \in 0 .. UINT /\ m \in 0 .. UINT /\ l \in 0 .. m - 1 /\ l \in 0 .. S /\ l \in 0 .. UINT
      /\ n + l <= S /\ n + l <= UINT /\ n + l + j = n + m
  BY <1>0, <1>j, ConstAssumption
<1>2. ASSUME NEW k \in 1 .. j PROVE Minus(e, k) = Plus(r, n + m - k) /\ n + m - k \in n + l .. S - 1
  <2> DEFINE a == n + m - k
  <2>1. a \in 0 .. UINT /\ k \in 0 .. UINT /\ a + k <= UINT /\ a + k = n + m /\ a \in n + l .. S - 1
    BY <1>0, <1>1, <1>j
  <2> HIDE DEF a
  <2>2. Minus(Plus(r, a + k), k) = Plus(r, a)
    BY <1>0, <2>1, Around, Zenon
  <2> QED BY <1>0, <2>1, <2>2, Zenon DEF a
<1>3. e' = Plus(r, n + l)
  <2>1. j \in 1 .. j /\ n + m - j = n + l
    BY <1>0, <1>1, <1>j
  <2> QED BY <1>2, <2>1, Zenon
<1>4. buf' \in Rings
  BY <1>0, Zenon DEF Rings, Value
<1>5. ASSUME NEW k \in 0 .. n + l - 1 PROVE Cell(buf', r, k) = Cell(buf, r, k)
  <2>1. k \in 0 .. S - 1 /\ k \in 0 .. UINT
    BY <1>0, <1>1
  <2>2. Plus(r, k) % S \in Slot
    BY <1>0, <2>1, SlotIs, Zenon
  <2>3. ASSUME NEW h \in 1 .. j PROVE Minus(e, h) % S # Plus(r, k) % S
    <3> DEFINE a == n + m - h
    <3>1. a \in 0 .. S - 1 /\ a # k
      BY <1>0, <1>1, <1>2
    <3>2. Minus(e, h) = Plus(r, a)
      BY <1>2, Zenon
    <3> HIDE DEF a
    <3> QED BY <1>0, <2>1, <3>1, <3>2, PlacesDiffer, Zenon
  <2> QED BY <2>2, <2>3, Zenon DEF Cell
<1>6. Agree(buf, buf', r, 0, n) /\ Agree(buf, buf', r, n, l)
  BY <1>0, <1>1, <1>5 DEF Agree
<1>7. Cells(buf', r, n) = Ready
  BY <1>0, <1>1, <1>6, CellsKept
<1>8. /\ \A k \in 0 .. l - 1 : Cell(buf', w, k) = Cell(buf, w, k)
      /\ Cells(buf', w, l) = Cells(buf, w, l)
  <2> HIDE DEF l
  <2>1. Agree(buf, buf', w, 0, l)
    BY <1>0, <1>1, <1>6, AgreeShift, Zenon
  <2>2. Cells(buf', w, l) = Cells(buf, w, l)
    BY <1>1, <2>1, CellsKept
  <2> QED BY <1>1, <2>1, <2>2 DEF Agree
<1>9. Cells(buf, w, l) = SubSeq(Line, 1, l)
  <2>1. l \in 0 .. m
    BY <1>0, <1>1
  <2> HIDE DEF l
  <2> QED BY <1>0, <1>1, <2>1, CellsTake, Zenon
<1>10. RingRight' /\ Ready' = Cells(buf', r, n) /\ Line' = Cells(buf', w, l)
  <2>1. \A k \in 0 .. l - 1 : Cell(buf', w', k) = "x"
    BY <1>0, <1>1, <1>8
  <2> HIDE DEF l
  <2> QED BY <1>0, <1>1, <1>3, <1>4, <2>1, NewRing, Zenon
<1> QED BY <1>7, <1>8, <1>9, <1>10, Zenon DEF m

(* Moving r forward by k takes the first k characters. *)
LEMMA ConsumeTakes ==
  ASSUME RingRight, NEW k \in 0 .. nready, Consume(k), UNCHANGED <<w, e>>
  PROVE  RingRight' /\ Ready' = SubSeq(Ready, k + 1, nready) /\ Line' = Line
<1> DEFINE n == nready  m == nline  S == INPUT_BUF_SIZE  l == n - k
<1>0. /\ n \in 0 .. S /\ m \in 0 .. S /\ n + m <= S
      /\ r \in 0 .. UINT - 1 /\ w \in 0 .. UINT - 1 /\ e \in 0 .. UINT - 1 /\ buf \in Rings
      /\ w = Plus(r, n) /\ e = Plus(r, n + m)
      /\ Ready = Cells(buf, r, n) /\ Line = Cells(buf, w, m)
      /\ \A h \in 0 .. m - 1 : Cell(buf, w, h) = "x"
  BY RingIs, Zenon
<1>k. k \in 0 .. n
  OBVIOUS
<1> HIDE DEF n, m
<1>1. /\ S \in Nat /\ UINT \in Nat /\ S < UINT /\ k \in 0 .. UINT
      /\ n \in 0 .. UINT /\ m \in 0 .. UINT /\ l \in 0 .. n /\ l \in 0 .. S /\ l \in 0 .. UINT
      /\ l + m \in 0 .. UINT /\ l + m <= S /\ k + l = n /\ k + (l + m) = n + m /\ n + m <= UINT
      /\ k + l <= UINT
  BY <1>0, <1>k, ConstAssumption
<1> HIDE DEF l
<1>2. r' = Plus(r, k) /\ r' \in 0 .. UINT - 1
  BY <1>0, <1>1, PlusIs, Zenon DEF Consume
<1>3. w' = Plus(r', l) /\ e' = Plus(r', l + m)
  <2>1. Plus(Plus(r, k), l) = Plus(r, k + l)
    BY <1>0, <1>1, Around
  <2>2. Plus(Plus(r, k), l + m) = Plus(r, k + (l + m))
    BY <1>0, <1>1, Around
  <2> QED BY <1>0, <1>1, <1>2, <2>1, <2>2, Zenon
<1>4. buf' \in Rings
  BY <1>0, Zenon DEF Rings, Value, Consume
<1>5. ASSUME NEW h \in k .. n + m - 1 PROVE Cell(buf', r, h) = Cell(buf, r, h)
  <2>1. h \in 0 .. S - 1 /\ h \in 0 .. UINT
    BY <1>0, <1>1, <1>k
  <2>2. Plus(r, h) % S \in Slot
    BY <1>0, <2>1, SlotIs, Zenon
  <2>3. ASSUME NEW j \in 0 .. k - 1 PROVE Plus(r, j) % S # Plus(r, h) % S
    <3>1. j \in 0 .. S - 1 /\ j # h
      BY <1>0, <1>1, <1>k
    <3> QED BY <1>0, <2>1, <3>1, PlacesDiffer, Zenon
  <2> QED BY <2>2, <2>3, Zenon DEF Cell, Consume
<1>6. Agree(buf, buf', r, k, l) /\ Agree(buf, buf', r, n, m)
  BY <1>0, <1>1, <1>k, <1>5 DEF Agree
<1>7. Cells(buf', r', l) = Cells(buf, r', l)
  <2>1. Agree(buf, buf', r', 0, l)
    BY <1>0, <1>1, <1>2, <1>6, AgreeShift, Zenon
  <2> QED BY <1>1, <2>1, CellsKept
<1>8. /\ \A h \in 0 .. m - 1 : Cell(buf', w, h) = Cell(buf, w, h)
      /\ Cells(buf', w, m) = Line
  <2>1. Agree(buf, buf', w, 0, m)
    BY <1>0, <1>1, <1>6, AgreeShift, Zenon
  <2>2. Cells(buf', w, m) = Line
    BY <1>0, <1>1, <2>1, CellsKept
  <2> QED BY <1>1, <2>1, <2>2 DEF Agree
<1>9. Cells(buf, r', l) = SubSeq(Ready, k + 1, n)
  <2>1. SubSeq(Cells(buf, r, n), k + 1, n) = Cells(buf, Plus(r, k), n - k)
    BY <1>0, <1>1, <1>k, CellsDrop, ZenonT(30)
  <2> QED BY <1>0, <1>2, <2>1, ZenonT(30) DEF l
<1>10. RingRight' /\ Ready' = Cells(buf', r', l) /\ Line' = Cells(buf', w', m)
  <2>1. \A h \in 0 .. m - 1 : Cell(buf', w', h) = "x"
    BY <1>0, <1>8, Zenon
  <2> QED BY <1>0, <1>1, <1>2, <1>3, <1>4, <2>1, NewRing, Zenon
<1> QED BY <1>7, <1>8, <1>9, <1>10, Zenon DEF n

(* Backspace erases the last character of the line. *)
LEMMA EraseIsErase ==
  ASSUME RingRight, Erase
  PROVE  RingRight' /\ Abstract!Erase
<1>0. /\ nline \in 0 .. INPUT_BUF_SIZE /\ w \in 0 .. UINT - 1 /\ e = Plus(w, nline) /\ buf \in Rings
      /\ Line = Cells(buf, w, nline)
  BY RingIs, Zenon
<1>1. INPUT_BUF_SIZE \in Nat /\ UINT \in Nat /\ nline \in 0 .. UINT
  BY <1>0, ConstAssumption
<1>2. nline # 0
  <2>1. Plus(w, 0) = w
    BY <1>0, <1>1, PlusIs
  <2> QED BY <1>0, <2>1, Zenon DEF Erase
<1>3. 1 \in 1 .. nline /\ \A k \in 1 .. 1 : k = 1
  BY <1>0, <1>1, <1>2
<1>4. buf' = [s \in Slot |-> IF \E k \in 1 .. 1 : Minus(e, k) % INPUT_BUF_SIZE = s THEN None ELSE buf[s]]
  <2>1. \A s : (\E k \in 1 .. 1 : Minus(e, k) % INPUT_BUF_SIZE = s) <=> Minus(e, 1) % INPUT_BUF_SIZE = s
    BY <1>3
  <2> QED BY <1>0, <2>1, Zenon DEF Erase, Rings
<1>5. RingRight' /\ Ready' = Ready /\ Line' = SubSeq(Line, 1, nline - 1)
  BY ONLY RingRight, Erase, <1>3, <1>4, CutBack, Zenon DEF Erase
<1>6. Line \in Seq(Value) /\ Len(Line) = nline
  BY <1>0, <1>1, CellsAre, Zenon
<1>7. Line # <<>>
  BY <1>2, <1>6
<1> QED BY <1>5, <1>6, <1>7, Zenon DEF Abstract!Erase, Ready, Line

(* ^U erases all of the line: there is no newline in it to stop at. *)
LEMMA KillLineIsKillLine ==
  ASSUME RingRight, KillLine
  PROVE  RingRight' /\ Abstract!KillLine
<1>0. /\ nready \in 0 .. INPUT_BUF_SIZE /\ nline \in 0 .. INPUT_BUF_SIZE /\ nready + nline <= INPUT_BUF_SIZE
      /\ w \in 0 .. UINT - 1 /\ e = Plus(w, nline)
      /\ \A k \in 0 .. nline - 1 : Cell(buf, w, k) = "x"
  BY RingIs, Zenon
<1>1. INPUT_BUF_SIZE \in Nat /\ UINT \in Nat /\ INPUT_BUF_SIZE < UINT
  BY ConstAssumption, Zenon
<1>2. PICK k \in 1 .. nline :
        /\ k = nline \/ buf[Minus(e, k + 1) % INPUT_BUF_SIZE] = "nl"
        /\ e' = Minus(e, k)
        /\ buf' = [s \in Slot |-> IF \E j \in 1 .. k : Minus(e, j) % INPUT_BUF_SIZE = s THEN None ELSE buf[s]]
        /\ UNCHANGED <<r, w>>
  BY Zenon DEF KillLine, nline
<1>3. k = nline
  <2> SUFFICES ASSUME k # nline PROVE FALSE
    OBVIOUS
  <2> DEFINE a == nline - (k + 1)
  <2>1. a \in 0 .. UINT /\ k + 1 \in 0 .. UINT /\ a + (k + 1) = nline /\ a + (k + 1) <= UINT /\ a \in 0 .. nline - 1
    BY <1>0, <1>1
  <2> HIDE DEF a
  <2>2. Minus(Plus(w, a + (k + 1)), k + 1) = Plus(w, a)
    BY <1>0, <2>1, Around, Zenon
  <2>3. buf[Plus(w, a) % INPUT_BUF_SIZE] = "nl"
    BY <1>0, <1>2, <2>1, <2>2, Zenon
  <2>4. Cell(buf, w, a) = "x"
    BY <1>0, <2>1, Zenon
  <2> QED BY <2>3, <2>4, Zenon DEF Cell
<1>4. RingRight' /\ Ready' = Ready /\ Line' = SubSeq(Line, 1, nline - k)
  BY ONLY RingRight, <1>2, k \in 1 .. nline, CutBack, Zenon
<1>5. Line' = <<>>
  <2>1. nline - k = 0
    BY <1>0, <1>1, <1>3
  <2>2. SubSeq(Line, 1, 0) = <<>>
    BY SubSeqEmpty
  <2> QED BY <1>4, <2>1, <2>2, Zenon
<1> QED BY <1>4, <1>5, Zenon DEF Abstract!KillLine, Ready, Line

(* A read that takes no more than the rest of a line. *)
LEMMA ConsumeIsTake ==
  ASSUME RingRight, NEW k \in 0 .. nready, Consume(k), UNCHANGED <<w, e>>,
         \A j \in 1 .. k - 1 : Ready[j] = "x", k > 1 => Ready[k] # "eof"
  PROVE  RingRight' /\ (Abstract!Take \/ UNCHANGED Abstract!vars)
<1>0. nready \in 0 .. INPUT_BUF_SIZE /\ r \in 0 .. UINT - 1 /\ buf \in Rings /\ Ready = Cells(buf, r, nready)
  BY RingIs, Zenon
<1>1. nready \in 0 .. UINT /\ nready \in Nat /\ k \in Nat
  BY <1>0, ConstAssumption
<1>2. RingRight' /\ Ready' = SubSeq(Ready, k + 1, nready) /\ Line' = Line
  BY ConsumeTakes, Zenon
<1>3. Ready \in Seq(Value) /\ Len(Ready) = nready
  BY <1>0, <1>1, CellsAre, Zenon
<1>4. CASE k = 0
  <2>1. SubSeq(Ready, 0 + 1, nready) = Ready
    BY <1>1, <1>3
  <2> QED BY <1>2, <1>4, <2>1, Zenon DEF Abstract!vars, Ready, Line
<1>5. CASE k # 0
  <2>1. k \in 1 .. nready
    BY <1>1, <1>5
  <2>2. \A j \in 1 .. k - 1 : Ready[j] \notin Ender
    BY Zenon DEF Ender
  <2>3. Ready[k] = "eof" => k = 1
    BY <2>1
  <2> QED BY <1>2, <1>3, <2>1, <2>2, <2>3, Zenon DEF Abstract!Take, Ready, Line
<1> QED BY <1>4, <1>5, Zenon

(* consoleread takes a part of a line and returns, or takes all there is   *)
(* and returns or sleeps.                                                  *)
LEMMA ReadIsTake ==
  ASSUME RingRight, NEW p \in Readers, NEW n \in Nat, NEW some, NEW killed, consoleread(p, n, some, killed)
  PROVE  /\ RingRight' /\ (Abstract!Take \/ UNCHANGED Abstract!vars)
         /\ \/ r # w /\ rd' = [rd EXCEPT ![p] = User]
            \/ /\ r' = w'
               /\ \E s \in [pc : {"user", "sleep"}, n : Nat, some : BOOLEAN, killed : BOOLEAN] :
                    rd' = [rd EXCEPT ![p] = s]
<1>0. /\ nready \in 0 .. INPUT_BUF_SIZE /\ r \in 0 .. UINT - 1 /\ buf \in Rings
      /\ w = Plus(r, nready) /\ Ready = Cells(buf, r, nready)
  BY RingIs, Zenon
<1>1. nready \in 0 .. UINT /\ nready \in Nat /\ UINT \in Nat
  BY <1>0, ConstAssumption
<1>2. Ready \in Seq(Value) /\ Len(Ready) = nready
  BY <1>0, <1>1, CellsAre, Zenon
<1>3. UNCHANGED <<w, e>>
  BY Zenon DEF consoleread
<1>4. Contents(r, w) = Ready
  BY Zenon DEF Ready
<1>5. CASE \E k \in 1 .. (IF n < nready THEN n ELSE nready) :
             /\ \A j \in 1 .. k - 1 : Ready[j] = "x"
             /\ Consume(Taken(Ready[k], k, some))
             /\ rd' = [rd EXCEPT ![p] = User]
  <2>1. PICK k \in 1 .. nready :
          /\ \A j \in 1 .. k - 1 : Ready[j] = "x"
          /\ Consume(Taken(Ready[k], k, some))
          /\ rd' = [rd EXCEPT ![p] = User]
    BY <1>1, <1>5
  <2> DEFINE t == Taken(Ready[k], k, some)
  <2>2. t \in 0 .. nready /\ t <= k
    BY <1>1 DEF Taken
  <2>3. t > 1 => Ready[t] # "eof"
    <3>1. CASE Ready[k] = "eof" /\ (some \/ k > 1)
      <4>1. t = k - 1
        BY <3>1, Zenon DEF Taken
      <4>2. t > 1 => Ready[t] = "x"
        BY <1>1, <2>1, <4>1
      <4> QED BY <4>2, Zenon
    <3>2. CASE ~(Ready[k] = "eof" /\ (some \/ k > 1))
      BY <1>1, <3>2, Zenon DEF Taken
    <3> QED BY <3>1, <3>2, Zenon
  <2>4. \A j \in 1 .. t - 1 : Ready[j] = "x"
    BY <1>1, <2>1, <2>2
  <2>5. Consume(t)
    BY <2>1, Zenon
  <2> HIDE DEF t
  <2>6. RingRight' /\ (Abstract!Take \/ UNCHANGED Abstract!vars)
    BY ONLY RingRight, <1>3, <2>2, <2>3, <2>4, <2>5, ConsumeIsTake, Zenon
  <2>7. r # w
    <3>1. w = IF r + nready < UINT THEN r + nready ELSE r + nready - UINT
      BY <1>0, <1>1, PlusIs, Zenon
    <3>2. nready < UINT /\ nready > 0
      BY <1>0, <1>1, ConstAssumption
    <3> QED BY <1>0, <1>1, <3>1, <3>2
  <2> QED BY <2>1, <2>6, <2>7, Zenon
<1>6. CASE /\ nready < n /\ \A j \in 1 .. nready : Ready[j] = "x"
           /\ Consume(nready)
           /\ \/ rd' = [rd EXCEPT ![p] = User]
              \/ rd' = [rd EXCEPT ![p] = [pc |-> "sleep", n |-> n - nready,
                                          some |-> some \/ Ready # <<>>, killed |-> FALSE]]
  <2>1. nready \in 0 .. nready /\ (nready > 1 => Ready[nready] = "x") /\ \A j \in 1 .. nready - 1 : Ready[j] = "x"
    BY <1>1, <1>6
  <2>2. nready > 1 => Ready[nready] # "eof"
    BY <2>1, Zenon
  <2>3. RingRight' /\ (Abstract!Take \/ UNCHANGED Abstract!vars)
    BY ONLY RingRight, <1>3, <1>6, <2>1, <2>2, ConsumeIsTake, Zenon
  <2>4. r' = w'
    BY <1>0, <1>3, <1>6, Zenon DEF Consume
  <2>5. \E s \in [pc : {"user", "sleep"}, n : Nat, some : BOOLEAN, killed : BOOLEAN] :
          rd' = [rd EXCEPT ![p] = s]
    <3> DEFINE T == [pc : {"user", "sleep"}, n : Nat, some : BOOLEAN, killed : BOOLEAN]
               sm == some \/ Ready # <<>>
               s == [pc |-> "sleep", n |-> n - nready, some |-> sm, killed |-> FALSE]
    <3>1. User \in T
      BY Zenon DEF User
    <3>2. n - nready \in Nat
      BY <1>1, <1>6
    <3>3. sm \in BOOLEAN
      BY Zenon
    <3> HIDE DEF sm
    <3>4. s \in T
      BY <3>2, <3>3, Zenon
    <3> HIDE DEF s, T
    <3>5. rd' = [rd EXCEPT ![p] = User] \/ rd' = [rd EXCEPT ![p] = s]
      BY <1>6, Zenon DEF s, sm
    <3>6. \E x \in T : rd' = [rd EXCEPT ![p] = x]
      BY <3>1, <3>4, <3>5, Zenon
    <3> QED BY <3>6, Zenon DEF T
  <2> QED BY <2>3, <2>4, <2>5, Zenon
<1>7. \/ \E k \in 1 .. (IF n < nready THEN n ELSE nready) :
            /\ \A j \in 1 .. k - 1 : Ready[j] = "x"
            /\ Consume(Taken(Ready[k], k, some))
            /\ rd' = [rd EXCEPT ![p] = User]
      \/ /\ nready < n /\ \A j \in 1 .. nready : Ready[j] = "x"
         /\ Consume(nready)
         /\ \/ rd' = [rd EXCEPT ![p] = User]
            \/ rd' = [rd EXCEPT ![p] = [pc |-> "sleep", n |-> n - nready,
                                        some |-> some \/ Ready # <<>>, killed |-> FALSE]]
  BY <1>2, <1>4, Zenon DEF consoleread
<1> QED BY <1>5, <1>6, <1>7, Zenon
-----------------------------------------------------------------------------
(* A step of a reader moves r and itself, and the others not at all. *)
LEMMA ReaderSteps ==
  ASSUME ConsoleInv, NEW p \in Readers, Read(p) \/ Woken(p)
  PROVE  /\ RingRight' /\ (Abstract!Take \/ UNCHANGED Abstract!vars)
         /\ \/ r # w /\ rd' = [rd EXCEPT ![p] = User]
            \/ /\ r' = w'
               /\ \E s \in [pc : {"user", "sleep"}, n : Nat, some : BOOLEAN, killed : BOOLEAN] :
                    rd' = [rd EXCEPT ![p] = s]
         /\ UNCHANGED <<wr, tx, busy, rx, irq, handler>>
<1>1. PICK n \in Nat, some \in BOOLEAN, killed \in BOOLEAN : consoleread(p, n, some, killed)
  <2>1. CASE Read(p)
    <3>1. PICK n \in 1 .. MaxRead : consoleread(p, n, FALSE, FALSE)
      BY <2>1, Zenon DEF Read
    <3>2. n \in Nat
      BY ConstAssumption
    <3> QED BY <3>1, <3>2, Zenon
  <2>2. CASE Woken(p)
    <3>1. rd[p].n \in Nat /\ rd[p].some \in BOOLEAN /\ rd[p].killed \in BOOLEAN
      BY Zenon DEF ConsoleInv, Shape
    <3> QED BY <2>2, <3>1, Zenon DEF Woken
  <2> QED BY <2>1, <2>2, Zenon
<1>2. UNCHANGED <<wr, tx, busy, rx, irq, handler>>
  BY <1>1, Zenon DEF consoleread, uart
<1>3. RingRight
  BY Zenon DEF ConsoleInv
<1> QED BY ONLY <1>1, <1>2, <1>3, n \in Nat, p \in Readers, ReadIsTake, Zenon

(* The ring is right after every step, and every step is one of the        *)
(* terminal or leaves it alone.                                            *)
LEMMA RingStep ==
  ASSUME ConsoleInv, [Next]_vars
  PROVE  RingRight' /\ [Abstract!Next]_(Abstract!vars)
<1>0. RingRight
  BY Zenon DEF ConsoleInv
<1>1. CASE \E p \in Readers : Read(p) \/ Woken(p)
  BY <1>1, ReaderSteps, Zenon DEF Abstract!Next
<1>2. ASSUME NEW c \in Char, Insert(c) PROVE RingRight' /\ [Abstract!Next]_(Abstract!vars)
  <2>1. RingRight' /\ Abstract!Key(c)
    BY <1>0, <1>2, InsertIsKey, Zenon
  <2> QED BY <2>1, Zenon DEF Abstract!Next
<1>3. CASE Erase
  <2>1. RingRight' /\ Abstract!Erase
    BY <1>0, <1>3, EraseIsErase, Zenon
  <2> QED BY <2>1, Zenon DEF Abstract!Next
<1>4. CASE KillLine
  <2>1. RingRight' /\ Abstract!KillLine
    BY <1>0, <1>4, KillLineIsKillLine, Zenon
  <2> QED BY <2>1, Zenon DEF Abstract!Next
<1>5. CASE UNCHANGED cons
  <2>1. RingRight'
    BY <1>0, <1>5, Zenon DEF RingRight, cons
  <2>2. UNCHANGED Abstract!vars
    BY <1>5, Zenon DEF cons, Abstract!vars, Contents
  <2> QED BY <2>1, <2>2, Zenon
<1>6. \/ \E p \in Readers : Read(p) \/ Woken(p)
      \/ \E c \in Char : Insert(c)
      \/ Erase \/ KillLine \/ UNCHANGED cons
  <2>1. CASE HandleKey
    BY <2>1, Zenon DEF HandleKey, consoleintr, Ignored
  <2>2. CASE \E p \in Readers : Kill(p)
    BY <2>2, Zenon DEF Kill
  <2>3. CASE \E p \in Writers : consolewrite(p) \/ WriterWoken(p) \/ WriterStart(p) \/ WriterTHR(p)
    BY <2>3, Zenon DEF consolewrite, WriterWoken, uartputc, WriterStart, WriterTHR
  <2>4. CASE Receive \/ TxDone \/ Interrupt \/ EchoWait \/ NoMoreKeys \/ HandlerStart \/ HandlerTHR
    BY <2>4, Zenon DEF Receive, TxDone, Interrupt, EchoWait, NoMoreKeys, HandlerStart, HandlerTHR
  <2>5. CASE UNCHANGED vars
    BY <2>5, Zenon DEF vars
  <2> QED BY <1>1, <2>1, <2>2, <2>3, <2>4, <2>5, Zenon DEF Next, Intr
<1> QED BY <1>1, <1>2, <1>3, <1>4, <1>5, <1>6, Zenon

(* Who sleeps has nothing to wake for, and output has somebody to move it. *)
LEMMA SleepersStep ==
  ASSUME ConsoleInv, [Next]_vars
  PROVE  Shape' /\ NoLostWakeup' /\ OutputMoves'
<1>0. Shape /\ NoLostWakeup /\ OutputMoves
  BY Zenon DEF ConsoleInv
<1> USE <1>0 DEF Shape, NoLostWakeup, OutputMoves
<1>1. ASSUME NEW p \in Readers, Read(p) \/ Woken(p) PROVE Shape' /\ NoLostWakeup' /\ OutputMoves'
  <2>1. /\ \/ r # w /\ rd' = [rd EXCEPT ![p] = User]
           \/ /\ r' = w'
              /\ \E s \in [pc : {"user", "sleep"}, n : Nat, some : BOOLEAN, killed : BOOLEAN] :
                   rd' = [rd EXCEPT ![p] = s]
        /\ UNCHANGED <<wr, tx, busy, rx, irq, handler>>
    BY ONLY <1>1, ConsoleInv, p \in Readers, ReaderSteps, Zenon
  <2>2. CASE r # w /\ rd' = [rd EXCEPT ![p] = User]
    <3>1. User \in [pc : {"user", "sleep", "woken"}, n : Nat, some : BOOLEAN, killed : BOOLEAN] /\ User.pc = "user"
      BY Zenon DEF User
    <3> QED BY <2>1, <2>2, <3>1, Zenon
  <2>3. CASE r' = w'
    <3>1. PICK s \in [pc : {"user", "sleep"}, n : Nat, some : BOOLEAN, killed : BOOLEAN] :
            rd' = [rd EXCEPT ![p] = s]
      <4>1. User \in [pc : {"user", "sleep"}, n : Nat, some : BOOLEAN, killed : BOOLEAN]
        BY Zenon DEF User
      <4> QED BY ONLY <2>1, <4>1, Zenon
    <3>2. s \in [pc : {"user", "sleep", "woken"}, n : Nat, some : BOOLEAN, killed : BOOLEAN]
      OBVIOUS
    <3> QED BY <2>1, <2>3, <3>1, <3>2, Zenon
  <2> QED BY <2>1, <2>2, <2>3, Zenon
<1>2. ASSUME NEW p \in Readers, Kill(p) PROVE Shape' /\ NoLostWakeup' /\ OutputMoves'
  BY <1>2 DEF Kill, cons, uart
<1>3. ASSUME NEW p \in Writers, consolewrite(p) \/ WriterWoken(p)
      PROVE  Shape' /\ NoLostWakeup' /\ OutputMoves'
  <2>1. uartputc(p)
    BY <1>3, Zenon DEF consolewrite, WriterWoken
  <2>2. UNCHANGED <<r, w, rd, rx, irq, handler>>
    BY <2>1, Zenon DEF uartputc, cons
  <2>3. CASE tx = UART_TX_BUF_SIZE
    <3>1. tx' = tx /\ busy' = busy /\ wr' = [wr EXCEPT ![p] = "sleep"]
      BY <2>1, <2>3, ConstAssumption DEF uartputc
    <3>2. wr[p] \notin InUartstart
      BY <1>3, Zenon DEF consolewrite, WriterWoken, InUartstart
    <3>3. wr' \in [Writers -> {"user", "woken", "sleep", "uartstart", "thr"}]
      BY <3>1, Zenon
    <3>4. \A q \in Writers : wr[q] \in InUartstart => wr'[q] \in InUartstart
      BY <3>1, <3>2, Zenon
    <3> QED BY <2>2, <2>3, <3>1, <3>3, <3>4, Zenon
  <2>4. CASE tx < UART_TX_BUF_SIZE
    <3>1. tx' = tx + 1 /\ busy' = busy /\ wr' = [wr EXCEPT ![p] = "uartstart"]
      BY <2>1, <2>4, ConstAssumption DEF uartputc
    <3>2. tx' \in 0 .. UART_TX_BUF_SIZE
      BY <2>4, <3>1, ConstAssumption
    <3>3. \A q \in Writers : wr[q] # "sleep"
      BY <2>4, ConstAssumption
    <3>4. wr' \in [Writers -> {"user", "woken", "sleep", "uartstart", "thr"}] /\ wr'[p] = "uartstart"
      BY <3>1, Zenon
    <3>5. \A q \in Writers : wr'[q] # "sleep"
      BY <3>1, <3>3, Zenon
    <3> QED BY <2>2, <3>1, <3>2, <3>4, <3>5, Zenon DEF InUartstart
  <2> QED BY <2>3, <2>4, ConstAssumption
<1>4. ASSUME NEW p \in Writers, WriterStart(p) PROVE Shape' /\ NoLostWakeup' /\ OutputMoves'
  <2>1. UNCHANGED <<r, w, rd, busy, rx, irq, handler>> /\ wr[p] = "uartstart"
    BY <1>4, Zenon DEF WriterStart, cons
  <2>2. CASE Starts
    <3>1. tx > 0 /\ tx' = tx - 1 /\ wr' = [WakeWriters(wr) EXCEPT ![p] = "thr"]
      BY <1>4, <2>2, Zenon DEF WriterStart, Starts
    <3>2. tx' \in 0 .. UART_TX_BUF_SIZE
      BY <3>1, ConstAssumption
    <3>3. /\ wr' \in [Writers -> {"user", "woken", "sleep", "uartstart", "thr"}] /\ wr'[p] = "thr"
          /\ \A q \in Writers : wr'[q] # "sleep"
      BY <3>1, Zenon DEF WakeWriters
    <3> QED BY <2>1, <3>2, <3>3, Zenon DEF InUartstart
  <2>3. CASE ~Starts
    <3>1. tx' = tx /\ wr' = [wr EXCEPT ![p] = "user"] /\ (tx > 0 => busy)
      BY <1>4, <2>3, Zenon DEF WriterStart, Starts
    <3>2. wr' \in [Writers -> {"user", "woken", "sleep", "uartstart", "thr"}]
      BY <3>1, Zenon
    <3>3. \A q \in Writers : wr'[q] = "sleep" => wr[q] = "sleep"
      BY <3>1, Zenon
    <3> QED BY <2>1, <3>1, <3>2, <3>3, Zenon
  <2> QED BY <2>2, <2>3, Zenon
<1>5. ASSUME NEW p \in Writers, WriterTHR(p) PROVE Shape' /\ NoLostWakeup' /\ OutputMoves'
  <2>1. busy' = TRUE /\ wr' = [wr EXCEPT ![p] = "uartstart"] /\ UNCHANGED <<r, w, rd, tx, rx, irq, handler>>
    BY <1>5, Zenon DEF WriterTHR, cons
  <2>2. \A q \in Writers : wr'[q] = "sleep" => wr[q] = "sleep"
    BY <2>1, Zenon
  <2> QED BY <2>1, <2>2, Zenon
<1>6. CASE Receive \/ TxDone \/ Interrupt \/ EchoWait \/ NoMoreKeys
  BY <1>6, Zenon DEF Receive, TxDone, Interrupt, EchoWait, NoMoreKeys, cons
<1>7. CASE HandleKey
  <2>1. UNCHANGED <<wr, tx, irq>> /\ handler' = "rx" /\ rx' = FALSE
    BY <1>7, Zenon DEF HandleKey
  <2>2. PICK c \in Keys : consoleintr(c)
    BY <1>7, Zenon DEF HandleKey
  <2>3. CASE c \in Char /\ Insert(c)
    <3>1. busy' = TRUE /\ UNCHANGED r /\ (WakeReaders \/ UNCHANGED <<w, rd>>)
      BY <2>3, Zenon DEF Insert, consputc, uartputc_sync
    <3>2. CASE WakeReaders
      <4>1. /\ rd' \in [Readers -> [pc : {"user", "sleep", "woken"}, n : Nat, some : BOOLEAN, killed : BOOLEAN]]
            /\ \A p \in Readers : rd'[p].pc # "sleep"
        BY <3>2, Zenon DEF WakeReaders
      <4> QED BY <2>1, <3>1, <4>1, Zenon
    <3>3. CASE UNCHANGED <<w, rd>>
      BY <2>1, <3>1, <3>3, Zenon
    <3> QED BY <3>1, <3>2, <3>3, Zenon
  <2>4. CASE Erase \/ KillLine
    <3>1. busy' = TRUE /\ UNCHANGED <<r, w, rd>>
      BY <2>4, Zenon DEF Erase, KillLine, consputc, uartputc_sync
    <3> QED BY <2>1, <3>1, Zenon
  <2>5. CASE Ignored(c)
    BY <2>1, <2>5, Zenon DEF Ignored, cons
  <2> QED BY <2>2, <2>3, <2>4, <2>5, Zenon DEF consoleintr
<1>8. CASE HandlerStart
  <2>1. UNCHANGED <<r, w, rd, busy, rx, irq>>
    BY <1>8, Zenon DEF HandlerStart, cons
  <2>2. CASE IntrSends
    <3>1. tx > 0 /\ tx' = tx - 1 /\ wr' = WakeWriters(wr) /\ handler' = "thr"
      BY <1>8, <2>2, Zenon DEF HandlerStart, IntrSends, Starts
    <3>2. tx' \in 0 .. UART_TX_BUF_SIZE
      BY <3>1, ConstAssumption
    <3>3. /\ wr' \in [Writers -> {"user", "woken", "sleep", "uartstart", "thr"}]
          /\ \A q \in Writers : wr'[q] # "sleep"
      BY <3>1, Zenon DEF WakeWriters
    <3> QED BY <2>1, <3>1, <3>2, <3>3, Zenon
  <2>3. CASE ~IntrSends
    <3>1. tx' = tx /\ wr' = wr /\ handler' = "idle" /\ (tx > 0 => busy)
      BY <1>8, <2>3, Zenon DEF HandlerStart, IntrSends, Starts
    <3> QED BY <2>1, <3>1, Zenon
  <2> QED BY <2>2, <2>3, Zenon
<1>9. CASE HandlerTHR
  BY <1>9, Zenon DEF HandlerTHR, cons
<1>10. CASE UNCHANGED vars
  BY <1>10, Zenon DEF vars, cons, uart
<1> QED BY <1>1, <1>2, <1>3, <1>6, <1>7, <1>8, <1>10, <1>4, <1>5, <1>9, Zenon DEF Next, Intr
-----------------------------------------------------------------------------
(* The invariant holds after consoleinit and uartinit. *)
LEMMA ConsoleInit == Init => ConsoleInv /\ Abstract!Init
<1> SUFFICES ASSUME Init PROVE ConsoleInv /\ Abstract!Init
  OBVIOUS
<1>1. UINT \in Nat /\ 0 \in 0 .. UINT - 1 /\ 0 \in 0 .. UINT
  BY ConstAssumption
<1>2. Minus(0, 0) = 0
  BY <1>1, MinusIs
<1>3. RingRight
  BY <1>1, <1>2, ConstAssumption DEF Init, RingRight, Slot
<1>4. Shape /\ NoLostWakeup /\ OutputMoves
  <2>1. User \in [pc : {"user", "sleep", "woken"}, n : Nat, some : BOOLEAN, killed : BOOLEAN] /\ User.pc = "user"
    BY Zenon DEF User
  <2>2. Shape
    <3>1. rd \in [Readers -> [pc : {"user", "sleep", "woken"}, n : Nat, some : BOOLEAN, killed : BOOLEAN]]
      BY <2>1, Zenon DEF Init
    <3>2. {busy, rx, irq} \subseteq BOOLEAN
      BY Zenon DEF Init
    <3>3. tx \in 0 .. UART_TX_BUF_SIZE
      BY ConstAssumption DEF Init
    <3> QED BY <3>1, <3>2, <3>3, Zenon DEF Init, Shape
  <2>3. NoLostWakeup /\ OutputMoves
    BY <2>1 DEF Init, NoLostWakeup, OutputMoves
  <2> QED BY <2>2, <2>3, Zenon
<1>5. Contents(0, 0) = <<>>
  BY <1>2 DEF Contents
<1> QED BY <1>3, <1>4, <1>5, Zenon DEF ConsoleInv, Init, Abstract!Init

(* The invariant holds always. *)
THEOREM ConsoleInvariance == Spec => []ConsoleInv
<1>1. ConsoleInv /\ [Next]_vars => ConsoleInv'
  BY RingStep, SleepersStep, Zenon DEF ConsoleInv
<1> QED BY <1>1, ConsoleInit, PTL DEF Spec

(* For any readers, writers and sizes, no reader sleeps while there is a   *)
(* line, or the rest of one, and no writer while there is room.            *)
THEOREM NobodySleepsOnInput == Spec => []NoLostWakeup
<1>1. ConsoleInv => NoLostWakeup
  BY Zenon DEF ConsoleInv
<1> QED BY <1>1, ConsoleInvariance, PTL

(* Output never stalls, whatever echo does to the device. *)
THEOREM OutputNeverStalls == Spec => []OutputMoves
<1>1. ConsoleInv => OutputMoves
  BY Zenon DEF ConsoleInv
<1> QED BY <1>1, ConsoleInvariance, PTL

(* console.c's ring, whose indices wrap and are moved by the interrupt     *)
(* handler and by readers, implements the terminal.                        *)
THEOREM ConsoleIsTerminal == Spec => IsTerminal
<1>1. Init => Abstract!Init
  BY ConsoleInit, Zenon
<1>2. ConsoleInv /\ [Next]_vars => [Abstract!Next]_(Abstract!vars)
  BY RingStep, Zenon
<1> QED BY <1>1, <1>2, ConsoleInvariance, PTL DEF Spec, IsTerminal, Abstract!Spec
=============================================================================
