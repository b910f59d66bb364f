------------------------------ MODULE LogProofs -----------------------------
(***************************************************************************)
(* Proofs about Log for every number of processes, blocks and contents and *)
(* every size of the log: type correctness, the inductive invariant, that  *)
(* the log implements CrashSafeDisk, and that log_write finds room.        *)
(***************************************************************************)
EXTENDS Log, FiniteSetTheorems, TLAPS

(* The time that the provers get for a step that does not say otherwise. *)
USE SMTT(20), ZenonT(20)

(* Appending keeps a sequence typed and keeps its old entries. *)
LEMMA AppendFacts ==
  ASSUME NEW S, NEW s \in Seq(S), NEW x \in S
  PROVE  /\ Append(s, x) \in Seq(S)
         /\ Len(Append(s, x)) = Len(s) + 1
         /\ \A i \in 1 .. Len(s) : Append(s, x)[i] = s[i]
         /\ Append(s, x)[Len(s) + 1] = x
  OBVIOUS

(* The entries of a header are blocks. *)
LEMMA EntryType ==
  ASSUME NEW S, NEW s \in Seq(S), NEW i \in 1 .. Len(s)
  PROVE  s[i] \in S
  OBVIOUS

(* The empty header has no entries. *)
LEMMA EmptySeq ==
  ASSUME NEW S
  PROVE  <<>> \in Seq(S) /\ Len(<<>>) = 0
  OBVIOUS

(* wakeup(&log) keeps every process in one of its states. *)
LEMMA WakeupType ==
  ASSUME NEW f \in [Procs -> OpStates]
  PROVE  Wakeup(f) \in [Procs -> OpStates]
  BY SMTT(30) DEF Wakeup, OpStates
-----------------------------------------------------------------------------
(* Every step of log.c keeps each variable in its range, given that a      *)
(* header never outgrows the log area and pins are matched (the rest of    *)
(* the inductive invariant).                                               *)
LEMMA TypeStep == IInv /\ [Next]_vars => TypeOK'
<1> SUFFICES ASSUME IInv, [Next]_vars PROVE TypeOK'
  OBVIOUS
<1> USE ConstAssumption DEF TypeOK, Contents, Slots, disk, buffers, calls
<1>0. TypeOK
  BY Zenon DEF IInv
<1>1. ASSUME NEW p \in Procs, EnterOp(p) PROVE TypeOK'
  BY <1>0, <1>1, Zenon DEF EnterOp, OpStates
<1>2. ASSUME NEW p \in Procs, BeginOp(p) PROVE TypeOK'
  BY <1>0, <1>2 DEF BeginOp, OpStates
<1>3. ASSUME NEW p \in Procs, Kill(p) PROVE TypeOK'
  BY <1>0, <1>3, Zenon DEF Kill, OpStates
<1>4. ASSUME NEW p \in Procs, EndOp(p) PROVE TypeOK'
  <2>1. outstanding >= 1
    <3>1. IsFiniteSet(Active) /\ p \in Active
      BY <1>4, FS_Subset, Zenon DEF EndOp, Active
    <3>2. Cardinality(Active) \in Nat /\ Cardinality(Active) # 0
      BY <3>1, FS_CardinalityType, FS_EmptySet, Zenon
    <3> QED BY <3>2 DEF IInv, ControlInv
  <2>2. outstanding' \in Nat
    BY <1>0, <1>4, <2>1 DEF EndOp
  <2>3. op' \in [Procs -> OpStates]
    <3>1. [op EXCEPT ![p] = "idle"] \in [Procs -> OpStates]
      BY <1>0, Zenon DEF OpStates
    <3>2. [op EXCEPT ![p] = "commit"] \in [Procs -> OpStates]
      BY <1>0, Zenon DEF OpStates
    <3> QED BY <1>4, <3>1, <3>2, WakeupType, Zenon DEF EndOp
  <2>4. pc' \in PCs /\ committing' \in BOOLEAN
    BY <1>0, <1>4, Zenon DEF EndOp, CommitStart, PCs
  <2> QED BY <1>0, <1>4, <2>2, <2>3, <2>4, Zenon DEF EndOp
<1>5. ASSUME NEW p \in Procs, FinishCommit(p) PROVE TypeOK'
  <2>1. op' \in [Procs -> OpStates]
    <3>1. [op EXCEPT ![p] = "idle"] \in [Procs -> OpStates]
      BY <1>0, Zenon DEF OpStates
    <3> QED BY <1>5, <3>1, WakeupType, Zenon DEF FinishCommit
  <2> QED BY <1>0, <1>5, <2>1, Zenon DEF FinishCommit, PCs
<1>6. ASSUME NEW p \in Procs, NEW b \in Blocks, NEW v \in Vals,
             LogWrite(p, b, v)
      PROVE  TypeOK'
  <2>1. CASE Panic
    BY <1>0, <2>1, Zenon DEF Panic, PCs
  <2>2. CASE ~LogFull /\ outstanding >= 1
    <3>1. Append(lh, b) \in Seq(Blocks)
      BY <1>0, AppendFacts, Zenon
    <3>2. /\ cache' = [cache EXCEPT ![b] = v]
          /\ wrote' = [wrote EXCEPT ![p] = @ \cup {b}]
          /\ \/ lh' = lh /\ pin' = pin
             \/ lh' = Append(lh, b) /\ Bpin(b)
          /\ UNCHANGED <<home, logdisk, header, outstanding, committing, op,
                         pc, tail>>
      BY <1>0, <1>6, <2>2 DEF LogWrite
    <3>3. lh' \in Seq(Blocks)
      BY <1>0, <3>1, <3>2, Zenon
    <3>4. pin' \in [Blocks -> Nat]
      BY <1>0, <3>2 DEF Bpin
    <3> QED BY <1>0, <3>2, <3>3, <3>4, Zenon
  <2> QED BY <1>6, <2>1, <2>2, SMTT(30) DEF LogWrite
<1>7. CASE WriteLogBlock
  <2>1. lh[tail + 1] \in Blocks
    BY <1>0, <1>7, EntryType DEF WriteLogBlock
  <2>2. Contents_of(lh[tail + 1]) \in Contents
    BY <1>0, <2>1, Zenon DEF Contents_of
  <2>3. /\ logdisk' \in [Slots -> Contents]
        /\ cache' \in [Blocks -> Contents \cup {None}]
    BY <1>0, <1>7, <2>1, <2>2, Zenon DEF WriteLogBlock
  <2> QED BY <1>0, <1>7, <2>3 DEF WriteLogBlock
<1>8. CASE WriteHead
  BY <1>0, <1>8, Zenon DEF WriteHead, PCs
<1>9. ASSUME tail < Len(lh), CopyHome, HeaderOK(lh)
      PROVE  /\ lh[tail + 1] \in Blocks
             /\ home' \in [Blocks -> Contents]
             /\ cache' \in [Blocks -> Contents \cup {None}]
  <2>1. lh[tail + 1] \in Blocks
    BY <1>0, <1>9, EntryType
  <2>2. tail + 1 \in Slots
    BY <1>0, <1>9 DEF HeaderOK
  <2> QED BY <1>0, <1>9, <2>1, <2>2, Zenon DEF CopyHome
<1>10. CASE InstallBlock
  <2>1. pin[lh[tail + 1]] = 1 /\ lh[tail + 1] \in Blocks
    BY <1>0, <1>10, EntryType DEF InstallBlock, IInv, BlockInv, DirtyBlock
  <2>2. pin' \in [Blocks -> Nat]
    BY <1>0, <1>10, <2>1 DEF InstallBlock, Bunpin
  <2> QED BY <1>0, <1>9, <1>10, <2>2 DEF InstallBlock, IInv
<1>11. CASE ClearLog
  BY <1>0, <1>11 DEF ClearLog, PCs
<1>12. CASE ReadHead
  BY <1>0, <1>12, Zenon DEF ReadHead, PCs
<1>13. CASE RecoverBlock
  BY <1>0, <1>9, <1>13 DEF RecoverBlock, IInv
<1>14. CASE RecoverClear
  BY <1>0, <1>14 DEF RecoverClear, PCs
<1>15. ASSUME NEW b \in Blocks, Bread(b) PROVE TypeOK'
  BY <1>0, <1>15, Zenon DEF Bread
<1>16. ASSUME NEW b \in Blocks, Recycle(b) PROVE TypeOK'
  BY <1>0, <1>16, Zenon DEF Recycle
<1>17. CASE Crash
  <2>1. home' \in [Blocks -> Contents] /\ logdisk' \in [Slots -> Contents]
    BY <1>0, <1>17, EntryType, Zenon DEF Crash
  <2>2. op' \in [Procs -> OpStates] /\ wrote' \in [Procs -> SUBSET Blocks]
    BY <1>17, Zenon DEF Crash, OpStates
  <2>3. cache' \in [Blocks -> Contents \cup {None}] /\ pin' \in [Blocks -> Nat]
    BY <1>17, Zenon DEF Crash
  <2>4. /\ header' \in Seq(Blocks) /\ lh' \in Seq(Blocks)
        /\ outstanding' \in Nat /\ committing' \in BOOLEAN
        /\ pc' \in PCs /\ tail' \in Nat
    <3>1. /\ header' = header /\ lh' = <<>> /\ outstanding' = 0
          /\ committing' = FALSE /\ pc' = "read_head" /\ tail' = 0
      BY <1>17, Zenon DEF Crash
    <3> QED BY <1>0, <3>1, EmptySeq, Zenon DEF PCs
  <2> QED BY <2>1, <2>2, <2>3, <2>4, Zenon
<1>18. CASE UNCHANGED vars
  BY <1>0, <1>18, Zenon DEF vars
<1> QED
  BY <1>1, <1>2, <1>3, <1>4, <1>5, <1>6, <1>7, <1>8, <1>10, <1>11, <1>12,
     <1>13, <1>14, <1>15, <1>16, <1>17, <1>18, Zenon
  DEF Next, CommitStep, RecoveryStep
-----------------------------------------------------------------------------
(* The processes inside a call form a finite set. *)
LEMMA ActiveFinite == IsFiniteSet(Active) /\ Cardinality(Active) \in Nat
  BY FS_Subset, FS_CardinalityType, ConstAssumption, Zenon DEF Active

(* begin_op and end_op keep log.outstanding equal to the number of calls   *)
(* in progress, and commit starts only when that number is zero.           *)
LEMMA ControlStep == IInv /\ TypeOK' /\ [Next]_vars => ControlInv'
<1> SUFFICES ASSUME IInv, TypeOK', [Next]_vars PROVE ControlInv'
  OBVIOUS
<1> USE DEF disk, buffers, calls
<1>0. TypeOK /\ ControlInv
  BY Zenon DEF IInv
<1>1. ASSUME UNCHANGED <<lh, outstanding, committing, op, pc>>
      PROVE  ControlInv'
  BY <1>0, <1>1, Zenon DEF ControlInv, Active, Booting, SleeperHasWaker
<1>2. ASSUME NEW p \in Procs, NEW s \in {"trying", "asleep"}, op[p] # "in",
             op[p] # "commit", op' = [op EXCEPT ![p] = s]
      PROVE  Active' = Active
  BY <1>0, <1>2, Zenon DEF Active, TypeOK
<1>3. ASSUME NEW p \in Procs, EnterOp(p) PROVE ControlInv'
  <2>1. Active' = Active
    BY <1>2, <1>3, Zenon DEF EnterOp
  <2> QED BY <1>0, <1>3, <2>1, Zenon
          DEF EnterOp, ControlInv, Booting, SleeperHasWaker, TypeOK
<1>4. ASSUME NEW p \in Procs, Kill(p) PROVE ControlInv'
  <2>1. Active' = Active
    BY <1>2, <1>4, Zenon DEF Kill
  <2> QED BY <1>0, <1>4, <2>1, Zenon
          DEF Kill, ControlInv, Booting, SleeperHasWaker, TypeOK
<1>5. ASSUME NEW p \in Procs, BeginOp(p) PROVE ControlInv'
  <2>0. ~Booting /\ ~Booting'
    BY <1>0, <1>5, Zenon DEF BeginOp, ControlInv, Booting
  <2>1. CASE MustWait
    <3>1. op' = [op EXCEPT ![p] = "asleep"] /\ UNCHANGED <<lh, outstanding, committing, pc>>
      BY <1>5, <2>1, Zenon DEF BeginOp
    <3>2. Active' = Active
      BY <1>2, <1>5, <3>1, Zenon DEF BeginOp
    <3>3. committing \/ outstanding > 0
      <4> SUFFICES ASSUME ~committing, outstanding = 0 PROVE FALSE
        BY <1>0 DEF TypeOK
      <4>1. Len(lh) = 0
        BY <1>0, <2>0, Zenon DEF ControlInv
      <4> QED BY <2>1, <4>1, ConstAssumption DEF MustWait
    <3> QED BY <1>0, <2>0, <3>1, <3>2, <3>3, Zenon
            DEF ControlInv, SleeperHasWaker, Booting, TypeOK
  <2>2. CASE ~MustWait
    <3>1. /\ op[p] = "trying" /\ op' = [op EXCEPT ![p] = "in"]
          /\ outstanding' = outstanding + 1
          /\ UNCHANGED <<lh, committing, pc>>
      BY <1>5, <2>2, Zenon DEF BeginOp
    <3>2. Active' = Active \cup {p} /\ p \notin Active
      BY <1>0, <3>1, Zenon DEF Active, TypeOK
    <3>3. outstanding' = Cardinality(Active') /\ outstanding' > 0
      <4>1. Cardinality(Active \cup {p}) = Cardinality(Active) + 1
        BY <3>2, ActiveFinite, FS_AddElement, Zenon
      <4> QED BY <1>0, <3>1, <3>2, <4>1, ActiveFinite DEF ControlInv
    <3>4. ~committing
      BY <2>2, Zenon DEF MustWait
    <3> QED BY <1>0, <2>0, <3>1, <3>3, <3>4
            DEF ControlInv, SleeperHasWaker, Booting, TypeOK
  <2> QED BY <2>1, <2>2, Zenon
<1>6. ASSUME NEW p \in Procs, NEW s \in {"idle", "commit"},
             op' \in {[op EXCEPT ![p] = s], Wakeup([op EXCEPT ![p] = s])}
      PROVE  /\ Active' = Active \ {p}
             /\ \A q \in Procs : q # p /\ op'[q] = "commit" => op[q] = "commit"
             /\ op'[p] = s
  BY <1>0, <1>6, Zenon DEF Active, TypeOK, Wakeup
<1>7. ASSUME NEW p \in Procs, EndOp(p) PROVE ControlInv'
  <2>0. p \in Active /\ ~Booting /\ ~Booting' /\ ~committing
    BY <1>0, <1>7, Zenon DEF EndOp, Active, ControlInv, Booting, CommitStart
  <2>1. Active' = Active \ {p}
    BY <1>6, <1>7, Zenon DEF EndOp
  <2>2. outstanding' = Cardinality(Active')
    BY <1>0, <1>7, <2>0, <2>1, ActiveFinite, FS_RemoveElement, Zenon DEF EndOp, ControlInv
  <2>3. CASE outstanding' = 0
    <3>1. Active' = {}
      <4>1. IsFiniteSet(Active')
        BY <2>1, ActiveFinite, FS_Subset, Zenon
      <4> QED BY <2>2, <2>3, <4>1, FS_EmptySet, Zenon
    <3>2. committing' /\ pc' \in {"write_log", "done"}
      BY <1>7, <2>3, Zenon DEF EndOp, CommitStart
    <3>3. \A q \in Procs : op'[q] = "commit" => q = p
      BY <1>0, <1>6, <1>7, <2>0, <2>3, Zenon DEF EndOp, ControlInv
    <3> QED BY <2>0, <2>2, <3>1, <3>2, <3>3, Zenon DEF ControlInv, SleeperHasWaker
  <2>4. CASE outstanding' # 0
    <3>1. /\ op' = Wakeup([op EXCEPT ![p] = "idle"])
          /\ UNCHANGED <<committing, pc>>
      BY <1>7, <2>4, Zenon DEF EndOp
    <3>2. \A q \in Procs : op'[q] # "commit"
      BY <1>0, <1>6, <2>0, <3>1, Zenon DEF ControlInv
    <3>3. \A q \in Procs : op'[q] # "asleep"
      BY <1>0, <3>1, Zenon DEF Wakeup, TypeOK
    <3> QED BY <1>0, <2>0, <2>2, <2>4, <3>1, <3>2, <3>3, Zenon
            DEF ControlInv, SleeperHasWaker
  <2> QED BY <2>3, <2>4, Zenon
<1>8. ASSUME NEW p \in Procs, FinishCommit(p) PROVE ControlInv'
  <2>1. Active = {} /\ lh = <<>>
    BY <1>0, <1>8, Zenon DEF FinishCommit, ControlInv, IInv, HeaderInv
  <2>2. Active' = {}
    BY <1>6, <1>8, <2>1, Zenon DEF FinishCommit
  <2>3. \A q \in Procs : op'[q] # "asleep"
    BY <1>0, <1>8, Zenon DEF FinishCommit, Wakeup, TypeOK
  <2>4. \A q \in Procs : op'[q] # "commit"
    BY <1>0, <1>6, <1>8, Zenon DEF FinishCommit, ControlInv
  <2>5. op[p] = "commit" /\ committing' = FALSE /\ pc' = "up"
        /\ lh' = lh /\ outstanding' = outstanding
    BY <1>8, Zenon DEF FinishCommit
  <2> QED BY <1>0, <2>1, <2>2, <2>3, <2>4, <2>5, Zenon
          DEF ControlInv, SleeperHasWaker, Booting
<1>9. ASSUME NEW p \in Procs, NEW b \in Blocks, NEW v \in Vals,
             LogWrite(p, b, v)
      PROVE  ControlInv'
  <2>1. Active # {} /\ ~Booting
    BY <1>0, <1>9, Zenon DEF LogWrite, Active, ControlInv
  <2>2. UNCHANGED <<op, outstanding, committing>> /\ pc' \in {pc, "panic"}
    BY <1>9, Zenon DEF LogWrite, Panic
  <2>3. ~committing /\ outstanding # 0
    BY <1>0, <2>1, ActiveFinite, FS_EmptySet, Zenon DEF ControlInv
  <2> QED BY <1>0, <2>1, <2>2, <2>3, Zenon
          DEF ControlInv, Active, Booting, SleeperHasWaker
<1>10. CASE CommitStep
  <2>1. /\ UNCHANGED <<op, outstanding, committing>>
        /\ {pc, pc'} \subseteq {"write_log", "install_trans", "done"}
    BY <1>10, Zenon DEF CommitStep, WriteLogBlock, WriteHead, InstallBlock, ClearLog
  <2> QED BY <1>0, <2>1, Zenon DEF ControlInv, Active, Booting, SleeperHasWaker
<1>11. CASE RecoveryStep
  <2>1. /\ UNCHANGED <<op, outstanding, committing>> /\ Booting
        /\ Booting' \/ (pc' = "up" /\ lh' = <<>>)
    BY <1>11, Zenon DEF RecoveryStep, ReadHead, RecoverBlock, RecoverClear, Booting
  <2> QED BY <1>0, <2>1, Zenon DEF ControlInv, Active, Booting, SleeperHasWaker
<1>12. ASSUME NEW b \in Blocks, Bread(b) \/ Recycle(b) PROVE ControlInv'
  BY <1>1, <1>12, Zenon DEF Bread, Recycle
<1>13. CASE Crash
  <2>1. /\ op' = [p \in Procs |-> "idle"] /\ outstanding' = 0
        /\ committing' = FALSE /\ pc' = "read_head"
    BY <1>13, Zenon DEF Crash
  <2>2. Active' = {}
    BY <2>1, Zenon DEF Active
  <2> QED BY <2>1, <2>2, FS_EmptySet, Zenon DEF ControlInv, Booting, SleeperHasWaker
<1>14. CASE UNCHANGED vars
  BY <1>1, <1>14, Zenon DEF vars
<1> QED
  BY <1>3, <1>4, <1>5, <1>7, <1>8, <1>9, <1>10, <1>11, <1>12, <1>13, <1>14, Zenon
  DEF Next
-----------------------------------------------------------------------------
(* While a call is in progress neither commit nor recovery runs. *)
LEMMA InCall ==
  ASSUME IInv, NEW p \in Procs, op[p] = "in", pc # "panic"
  PROVE  pc = "up" /\ ~committing
  BY SMTT(30) DEF IInv, TypeOK, PCs, ControlInv, Active, Booting

(* log_write's absorption keeps a block from occurring twice and its panic *)
(* keeps the header within the log area.                                   *)
LEMMA HeaderOKStep ==
  IInv /\ TypeOK' /\ [Next]_vars => HeaderOK(lh)' /\ HeaderOK(header)'
<1> SUFFICES ASSUME IInv, TypeOK', [Next]_vars
             PROVE  HeaderOK(lh)' /\ HeaderOK(header)'
  OBVIOUS
<1> USE DEF disk, buffers, calls
<1>0. TypeOK /\ HeaderOK(lh) /\ HeaderOK(header) /\ HeaderOK(<<>>)
  BY ConstAssumption DEF IInv, HeaderOK
<1>1. CASE lh' \in {lh, header, <<>>} /\ header' \in {lh, header, <<>>}
  BY <1>0, <1>1 DEF HeaderOK
<1>2. ASSUME NEW p \in Procs, NEW b \in Blocks, NEW v \in Vals,
             LogWrite(p, b, v), lh' # lh
      PROVE  HeaderOK(lh)' /\ HeaderOK(header)'
  <2>1. lh' = Append(lh, b) /\ ~Logged(b) /\ ~LogFull /\ header' = header
    BY <1>2, Zenon DEF LogWrite, Panic
  <2>2. Len(lh') <= size - 1
    BY <1>0, <2>1, AppendFacts, ConstAssumption DEF LogFull, TypeOK
  <2>3. \A i, j \in 1 .. Len(lh') : lh'[i] = lh'[j] => i = j
    <3> SUFFICES ASSUME NEW i \in 1 .. Len(lh'), NEW j \in 1 .. Len(lh'),
                        lh'[i] = lh'[j]
                 PROVE  i = j
      OBVIOUS
    <3>1. i \in 1 .. Len(lh) + 1 /\ j \in 1 .. Len(lh) + 1 /\ Len(lh) \in Nat
      BY <1>0, <2>1, AppendFacts DEF TypeOK
    <3>2. \A k \in 1 .. Len(lh) : lh'[k] = lh[k] /\ lh[k] # b
      <4>1. \A k \in 1 .. Len(lh) : Append(lh, b)[k] = lh[k]
        BY <1>0, AppendFacts DEF TypeOK
      <4> QED BY <2>1, <4>1, Zenon DEF Logged
    <3>3. lh'[Len(lh) + 1] = b
      BY <1>0, <2>1, AppendFacts DEF TypeOK
    <3> QED BY <1>0, <3>1, <3>2, <3>3 DEF HeaderOK
  <2> QED BY <1>0, <2>1, <2>2, <2>3, Zenon DEF HeaderOK
<1>3. ASSUME NEW p \in Procs,
             EnterOp(p) \/ BeginOp(p) \/ Kill(p) \/ EndOp(p) \/ FinishCommit(p)
      PROVE  lh' = lh /\ header' = header
  BY <1>3, Zenon DEF EnterOp, BeginOp, Kill, EndOp, FinishCommit
<1>4. ASSUME CommitStep \/ RecoveryStep
      PROVE  lh' \in {lh, header, <<>>} /\ header' \in {lh, header, <<>>}
  BY <1>4, Zenon DEF CommitStep, WriteLogBlock, WriteHead, InstallBlock, ClearLog,
              RecoveryStep, ReadHead, RecoverBlock, RecoverClear
<1>5. ASSUME NEW b \in Blocks, Bread(b) \/ Recycle(b)
      PROVE  lh' = lh /\ header' = header
  BY <1>5, Zenon DEF Bread, Recycle
<1>6. ASSUME Crash PROVE lh' = <<>> /\ header' = header
  BY <1>6, Zenon DEF Crash
<1>7. ASSUME NEW p \in Procs, NEW b \in Blocks, NEW v \in Vals,
             LogWrite(p, b, v)
      PROVE  header' = header
  BY <1>7, Zenon DEF LogWrite, Panic
<1> QED
  BY <1>1, <1>2, <1>3, <1>4, <1>5, <1>6, <1>7, Zenon DEF Next, vars

(* The on-disk header changes only at the commit point and at the erasure, *)
(* and the commit point comes after all of write_log.                      *)
LEMMA HeaderStep == IInv /\ TypeOK' /\ [Next]_vars => HeaderInv'
<1> SUFFICES ASSUME IInv, TypeOK', [Next]_vars PROVE HeaderInv'
  OBVIOUS
<1> USE DEF disk, buffers, calls
<1>0. TypeOK /\ HeaderInv /\ ControlInv /\ BlockInv /\ HeaderOK(lh)
  BY Zenon DEF IInv
<1>1. CASE UNCHANGED <<logdisk, header, lh, pc, tail>>
  BY <1>0, <1>1, Zenon DEF HeaderInv
<1>2. ASSUME NEW p \in Procs, EnterOp(p) \/ BeginOp(p) \/ Kill(p)
      PROVE  UNCHANGED <<logdisk, header, lh, pc, tail>>
  BY <1>2, Zenon DEF EnterOp, BeginOp, Kill
<1>3. ASSUME NEW p \in Procs, EndOp(p) PROVE HeaderInv'
  <2>1. pc = "up"
    BY <1>3, InCall, Zenon DEF EndOp
  <2>2. /\ UNCHANGED <<logdisk, header, lh, tail>>
        /\ pc' \in {"up", "write_log"} \/ (pc' = "done" /\ lh = <<>>)
    BY <1>3, <2>1, Zenon DEF EndOp, CommitStart
  <2> QED BY <1>0, <2>1, <2>2 DEF HeaderInv, TypeOK
<1>4. ASSUME NEW p \in Procs, FinishCommit(p) PROVE HeaderInv'
  BY <1>0, <1>4, Zenon DEF FinishCommit, HeaderInv
<1>5. ASSUME NEW p \in Procs, NEW b \in Blocks, NEW v \in Vals,
             LogWrite(p, b, v)
      PROVE  HeaderInv'
  <2>1. pc = "up"
    BY <1>5, InCall, Zenon DEF LogWrite
  <2>2. UNCHANGED <<logdisk, header, tail>> /\ pc' \in {"up", "panic"}
    BY <1>5, <2>1, Zenon DEF LogWrite, Panic
  <2> QED BY <1>0, <2>1, <2>2, Zenon DEF HeaderInv
<1>6. CASE WriteLogBlock
  BY <1>0, <1>6 DEF WriteLogBlock, HeaderInv, TypeOK
<1>7. CASE WriteHead
  <2>1. \A i \in 1 .. Len(lh) : logdisk[i] \in Vals
    BY <1>0, <1>7, Zenon DEF WriteHead, BlockInv, DirtyBlock
  <2> QED BY <1>0, <1>7, <2>1 DEF WriteHead, HeaderInv, TypeOK
<1>8. CASE InstallBlock
  BY <1>0, <1>8 DEF InstallBlock, HeaderInv, TypeOK
<1>9. CASE ClearLog
  BY <1>0, <1>9 DEF ClearLog, HeaderInv
<1>10. CASE ReadHead
  BY <1>0, <1>10 DEF ReadHead, HeaderInv, TypeOK
<1>11. CASE RecoverBlock
  BY <1>0, <1>11 DEF RecoverBlock, HeaderInv, TypeOK
<1>12. CASE RecoverClear
  BY <1>0, <1>12 DEF RecoverClear, HeaderInv
<1>13. ASSUME NEW b \in Blocks, Bread(b) \/ Recycle(b)
       PROVE  UNCHANGED <<logdisk, header, lh, pc, tail>>
  BY <1>13, Zenon DEF Bread, Recycle
<1>14. CASE Crash
  <2>1. header' = header /\ lh' = <<>> /\ pc' = "read_head"
    BY <1>14, Zenon DEF Crash
  <2>2. \A i \in 1 .. Len(header) : logdisk'[i] = logdisk[i]
    BY <1>0, <1>14 DEF Crash, HeaderInv
  <2> QED BY <1>0, <2>1, <2>2, Zenon DEF HeaderInv
<1> QED
  BY <1>1, <1>2, <1>3, <1>4, <1>5, <1>6, <1>7, <1>8, <1>9, <1>10, <1>11,
     <1>12, <1>13, <1>14, Zenon
  DEF Next, CommitStep, RecoveryStep, vars
-----------------------------------------------------------------------------
(* At each control point of commit() the cache, the log blocks and the     *)
(* home blocks agree, whatever readers and bget's recycling do meanwhile.  *)
LEMMA BlockStep == IInv /\ TypeOK' /\ [Next]_vars => BlockInv'
<1> SUFFICES ASSUME IInv, TypeOK', [Next]_vars PROVE BlockInv'
  OBVIOUS
<1> USE DEF disk, buffers, calls
<1>0. TypeOK /\ BlockInv /\ HeaderInv /\ HeaderOK(lh) /\ ControlInv /\ RecoveryInv
  BY Zenon DEF IInv
<1>a. \A i \in 1 .. Len(lh) : lh[i] \in Blocks
  BY <1>0 DEF TypeOK
<1>1. CASE UNCHANGED <<home, logdisk, cache, pin, lh, pc, tail>>
  BY <1>0, <1>1, Zenon DEF BlockInv, CleanBlock, DirtyBlock, InLog
<1>2. ASSUME NEW p \in Procs, EnterOp(p) \/ BeginOp(p) \/ Kill(p)
      PROVE  UNCHANGED <<home, logdisk, cache, pin, lh, pc, tail>>
  BY <1>2, Zenon DEF EnterOp, BeginOp, Kill
<1>3. ASSUME NEW p \in Procs, EndOp(p) PROVE BlockInv'
  <2>1. pc = "up" /\ tail = 0
    BY <1>0, <1>3, InCall, Zenon DEF EndOp, HeaderInv
  <2>2. /\ UNCHANGED <<home, logdisk, cache, pin, lh, tail>>
        /\ pc' \in {"up", "write_log", "done"}
    BY <1>3, <2>1, Zenon DEF EndOp, CommitStart
  <2> QED BY <1>0, <2>1, <2>2 DEF BlockInv, CleanBlock, DirtyBlock, InLog
<1>4. ASSUME NEW p \in Procs, FinishCommit(p) PROVE BlockInv'
  <2>1. lh = <<>>
    BY <1>0, <1>4, Zenon DEF FinishCommit, HeaderInv
  <2> QED BY <1>0, <1>4, <2>1
          DEF FinishCommit, BlockInv, CleanBlock, DirtyBlock, InLog
<1>5. ASSUME NEW p \in Procs, NEW b \in Blocks, NEW v \in Vals,
             LogWrite(p, b, v)
      PROVE  BlockInv'
  <2>1. pc = "up"
    BY <1>5, InCall, Zenon DEF LogWrite
  <2>2. CASE Panic
    BY <1>0, <2>1, <2>2, Zenon DEF Panic, BlockInv, CleanBlock, DirtyBlock, InLog
  <2>3. CASE ~Panic
    <3>1. /\ cache' = [cache EXCEPT ![b] = v] /\ UNCHANGED <<home, pc>>
          /\ \/ Logged(b) /\ lh' = lh /\ pin' = pin
             \/ /\ ~Logged(b) /\ lh' = Append(lh, b)
                /\ pin' = [pin EXCEPT ![b] = @ + 1]
      BY <1>5, <2>3, Zenon DEF LogWrite, Bpin
    <3>2. CASE Logged(b)
      <4>1. /\ \A c \in Blocks : c # b => cache'[c] = cache[c]
            /\ cache'[b] = v /\ pin' = pin /\ lh' = lh /\ InLog(lh, b)
        BY <1>0, <3>1, <3>2, Zenon DEF TypeOK, Logged, InLog
      <4>2. \A c \in Blocks : ~InLog(lh', c) => CleanBlock(c)'
        BY <1>0, <2>1, <3>1, <4>1, Zenon DEF BlockInv, CleanBlock
      <4>3. \A i \in 1 .. Len(lh') : DirtyBlock(lh[i])' /\ home'[lh'[i]] \in Vals
        BY <1>0, <1>a, <2>1, <3>1, <4>1 DEF BlockInv, DirtyBlock
      <4> QED BY <2>1, <3>1, <4>2, <4>3, Zenon DEF BlockInv
    <3>3. CASE ~Logged(b)
      <4>1. /\ Len(lh') = Len(lh) + 1 /\ Len(lh) \in Nat
            /\ \A i \in 1 .. Len(lh) : lh'[i] = lh[i]
            /\ lh'[Len(lh) + 1] = b
        <5>1. lh' = Append(lh, b) /\ lh \in Seq(Blocks)
          BY <1>0, <3>1, <3>3, Zenon DEF TypeOK
        <5> QED BY <5>1, AppendFacts
      <4>2. CleanBlock(b)
        BY <1>0, <2>1, <3>3, Zenon DEF BlockInv, InLog, Logged
      <4>3. DirtyBlock(b)' /\ home'[b] \in Vals
        BY <1>0, <3>1, <3>3, <4>2 DEF TypeOK, DirtyBlock, CleanBlock
      <4>4. \A c \in Blocks : c # b => cache'[c] = cache[c] /\ pin'[c] = pin[c]
        BY <1>0, <3>1, <3>3, Zenon DEF TypeOK
      <4>5. \A i \in 1 .. Len(lh) : lh[i] # b
        BY <3>3, Zenon DEF Logged
      <4>6. \A i \in 1 .. Len(lh') : DirtyBlock(lh[i])' /\ home'[lh'[i]] \in Vals
        <5> SUFFICES ASSUME NEW i \in 1 .. Len(lh')
                     PROVE  DirtyBlock(lh[i])' /\ home'[lh'[i]] \in Vals
          OBVIOUS
        <5>1. CASE i = Len(lh) + 1
          BY <4>1, <4>3, <5>1, SMTT(30) DEF DirtyBlock
        <5>2. CASE i \in 1 .. Len(lh)
          BY <1>0, <1>a, <2>1, <3>1, <4>1, <4>4, <4>5, <5>2, SMTT(60) DEF BlockInv, DirtyBlock
        <5> QED BY <4>1, <5>1, <5>2
      <4>7. \A c \in Blocks : ~InLog(lh', c) => CleanBlock(c)'
        <5> SUFFICES ASSUME NEW c \in Blocks, ~InLog(lh', c)
                     PROVE  CleanBlock(c)'
          OBVIOUS
        <5>1. c # b /\ ~InLog(lh, c)
          BY <4>1, SMTT(30) DEF InLog
        <5> QED BY <1>0, <2>1, <3>1, <4>4, <5>1, Zenon DEF BlockInv, CleanBlock
      <4> QED BY <2>1, <3>1, <4>6, <4>7, Zenon DEF BlockInv
    <3> QED BY <3>2, <3>3, Zenon
  <2> QED BY <2>2, <2>3, Zenon
<1>6. CASE WriteLogBlock
  <2>1. /\ pc = "write_log" /\ pc' = pc /\ tail < Len(lh) /\ tail' = tail + 1
        /\ UNCHANGED <<home, pin, lh>>
        /\ logdisk' = [logdisk EXCEPT ![tail + 1] = Contents_of(lh[tail + 1])]
        /\ cache' = [cache EXCEPT ![lh[tail + 1]] = Contents_of(lh[tail + 1])]
    BY <1>6, Zenon DEF WriteLogBlock
  <2>2. lh[tail + 1] \in Blocks /\ cache[lh[tail + 1]] \in Vals
    <3>1. tail + 1 \in 1 .. Len(lh)
      BY <1>0, <2>1 DEF TypeOK
    <3> QED BY <1>0, <1>a, <2>1, <3>1, Zenon DEF BlockInv, DirtyBlock
  <2>3. Contents_of(lh[tail + 1]) = cache[lh[tail + 1]]
    BY <2>2, ConstAssumption, Zenon DEF Contents_of
  <2>4. cache' = cache
    BY <1>0, <2>1, <2>3, Zenon DEF TypeOK
  <2>5. \A i \in 1 .. tail' : logdisk'[i] = cache'[lh'[i]]
    <3>1. tail + 1 \in Slots
      BY <1>0, <2>1 DEF TypeOK, HeaderOK, Slots
    <3> QED BY <1>0, <2>1, <2>3, <2>4, <3>1, SMTT(30) DEF TypeOK, BlockInv
  <2> QED BY <1>0, <2>1, <2>4, <2>5, Zenon DEF BlockInv, CleanBlock, DirtyBlock, InLog
<1>7. CASE WriteHead
  <2>1. /\ pc = "write_log" /\ pc' = "install_trans" /\ tail = Len(lh) /\ tail' = 0
        /\ UNCHANGED <<home, logdisk, cache, pin, lh>>
    BY <1>7, Zenon DEF WriteHead
  <2> QED BY <1>0, <2>1, SMTT(30) DEF BlockInv, CleanBlock, DirtyBlock, InLog, TypeOK
<1>8. CASE InstallBlock
  <2>0. PICK b : b = lh[tail + 1]
    OBVIOUS
  <2>1. /\ pc = "install_trans" /\ pc' = pc /\ tail < Len(lh) /\ tail' = tail + 1
        /\ UNCHANGED <<logdisk, lh>>
        /\ cache' = [cache EXCEPT ![b] = logdisk[tail + 1]]
        /\ home' = [home EXCEPT ![b] = logdisk[tail + 1]]
        /\ pin' = [pin EXCEPT ![b] = @ - 1]
    BY <1>8, <2>0, Zenon DEF InstallBlock, CopyHome, Bunpin
  <2>2. b \in Blocks /\ tail + 1 \in 1 .. Len(lh) /\ ~(tail + 1 <= tail)
    BY <1>0, <1>a, <2>0, <2>1 DEF TypeOK
  <2>3. cache[b] = logdisk[tail + 1] /\ pin[b] = 1 /\ logdisk[tail + 1] \in Vals
    BY <1>0, <2>0, <2>1, <2>2, Zenon DEF BlockInv, DirtyBlock
  <2>4. CleanBlock(b)' /\ home'[b] = logdisk[tail + 1]
    <3>1. /\ cache'[b] = logdisk[tail + 1] /\ home'[b] = logdisk[tail + 1]
          /\ pin'[b] = 0
      BY <1>0, <2>1, <2>2, <2>3 DEF TypeOK
    <3> QED BY <2>3, <3>1, Zenon DEF CleanBlock
  <2>5. \A c \in Blocks : c # b =>
           cache'[c] = cache[c] /\ pin'[c] = pin[c] /\ home'[c] = home[c]
    BY <1>0, <2>1, Zenon DEF TypeOK
  <2>6. \A i \in 1 .. Len(lh) : i # tail + 1 => lh[i] # b
    BY <1>0, <2>0, <2>2, Zenon DEF HeaderOK
  <2>7. \A c \in Blocks : ~InLog(lh', c) => CleanBlock(c)'
    BY <1>0, <2>0, <2>1, <2>2, <2>5, Zenon DEF BlockInv, CleanBlock, InLog
  <2>8. ASSUME NEW i \in 1 .. Len(lh')
        PROVE  IF i <= tail' THEN CleanBlock(lh[i])' /\ home'[lh'[i]] = logdisk'[i]
                             ELSE DirtyBlock(lh[i])' /\ cache'[lh'[i]] = logdisk'[i]
    <3>1. CASE i = tail + 1
      <4>1. lh'[i] = b /\ i <= tail' /\ logdisk'[i] = logdisk[tail + 1]
        BY <1>0, <2>0, <2>1, <3>1 DEF TypeOK
      <4> QED BY <2>4, <4>1, Zenon DEF CleanBlock
    <3>2. CASE i # tail + 1
      <4>1. lh[i] \in Blocks /\ lh[i] # b /\ lh' = lh
        BY <1>a, <2>1, <2>6, <3>2, Zenon
      <4>2. (i <= tail') <=> (i <= tail)
        BY <1>0, <2>1, <3>2 DEF TypeOK
      <4>3. IF i <= tail THEN CleanBlock(lh[i]) /\ home[lh[i]] = logdisk[i]
                         ELSE DirtyBlock(lh[i]) /\ cache[lh[i]] = logdisk[i]
        BY <1>0, <2>1, Zenon DEF BlockInv
      <4> QED BY <2>1, <2>5, <4>1, <4>2, <4>3, Zenon DEF CleanBlock, DirtyBlock
    <3> QED BY <3>1, <3>2, Zenon
  <2> QED BY <2>1, <2>7, <2>8, Zenon DEF BlockInv
<1>9. CASE ClearLog
  <2>1. /\ pc = "install_trans" /\ pc' = "done" /\ tail = Len(lh) /\ lh' = <<>>
        /\ UNCHANGED <<home, logdisk, cache, pin>>
    BY <1>9, SMTT(30) DEF ClearLog
  <2>2. \A c \in Blocks : CleanBlock(c)
    <3>1. \A i \in 1 .. Len(lh) : CleanBlock(lh[i])
      <4>1. \A i \in 1 .. Len(lh) : i <= tail
        BY <2>1
      <4> QED BY <1>0, <2>1, <4>1, Zenon DEF BlockInv
    <3>2. \A c \in Blocks : ~InLog(lh, c) => CleanBlock(c)
      BY <1>0, <2>1, Zenon DEF BlockInv
    <3> QED BY <3>1, <3>2, Zenon DEF InLog
  <2> QED BY <2>1, <2>2, Zenon DEF BlockInv, CleanBlock
<1>10. CASE ReadHead \/ RecoverBlock
  BY <1>10, Zenon DEF ReadHead, RecoverBlock, BlockInv
<1>11. CASE RecoverClear
  <2>1. /\ pc = "recover" /\ pc' = "up" /\ tail = Len(lh) /\ lh' = <<>>
        /\ UNCHANGED <<home, logdisk, cache, pin>>
    BY <1>11, Zenon DEF RecoverClear
  <2>2. header = lh /\ \A i \in 1 .. Len(lh) : logdisk[i] \in Vals
    BY <1>0, <2>1, Zenon DEF HeaderInv
  <2>3. \A c \in Blocks : CleanBlock(c)
    BY <1>0, <2>1, <2>2, SMTT(30) DEF RecoveryInv, Booting, CleanBlock, InLog, TypeOK
  <2> QED BY <2>1, <2>3 DEF BlockInv, CleanBlock
<1>12. ASSUME NEW b \in Blocks, Bread(b) \/ Recycle(b) PROVE BlockInv'
  <2>1. /\ UNCHANGED <<home, logdisk, pin, lh, pc, tail>>
        /\ \A c \in Blocks : c # b => cache'[c] = cache[c]
        /\ cache'[b] \in {None, home[b]}
    BY <1>0, <1>12, Zenon DEF Bread, Recycle, TypeOK
  <2>2. pin[b] = 0 \/ cache[b] = None
    BY <1>12, Zenon DEF Bread, Recycle
  <2>3. ASSUME NEW c \in Blocks PROVE CleanBlock(c) => CleanBlock(c)'
    BY <2>1, Zenon DEF CleanBlock
  <2>4. ASSUME NEW c \in Blocks, DirtyBlock(c)
        PROVE  DirtyBlock(c)' /\ cache'[c] = cache[c]
    <3>1. cache[c] # None /\ pin[c] # 0
      BY <2>4, ConstAssumption DEF DirtyBlock
    <3>2. c # b
      BY <2>2, <3>1, Zenon
    <3> QED BY <2>1, <2>4, <3>2, Zenon DEF DirtyBlock
  <2>5. pc \in {"up", "write_log", "done", "panic", "install_trans"} =>
          \A c \in Blocks : ~InLog(lh, c) => CleanBlock(c)'
    BY <1>0, <2>3, Zenon DEF BlockInv
  <2>6. pc \in {"up", "write_log", "panic"} =>
          \A i \in 1 .. Len(lh) : DirtyBlock(lh[i])' /\ home[lh[i]] \in Vals
    BY <1>0, <1>a, <2>1, <2>4, Zenon DEF BlockInv, DirtyBlock
  <2>7. pc = "write_log" => \A i \in 1 .. tail : logdisk[i] = cache'[lh[i]]
    <3> SUFFICES ASSUME pc = "write_log", NEW i \in 1 .. tail
                 PROVE  logdisk[i] = cache'[lh[i]]
      OBVIOUS
    <3>1. i \in 1 .. Len(lh)
      BY <1>0 DEF HeaderInv, TypeOK
    <3>2. logdisk[i] = cache[lh[i]] /\ DirtyBlock(lh[i]) /\ lh[i] \in Blocks
      BY <1>0, <1>a, <3>1, Zenon DEF BlockInv
    <3> QED BY <2>4, <3>2, Zenon
  <2>8. pc = "install_trans" =>
          \A i \in 1 .. Len(lh) :
            IF i <= tail THEN CleanBlock(lh[i])' /\ home[lh[i]] = logdisk[i]
                         ELSE DirtyBlock(lh[i])' /\ cache'[lh[i]] = logdisk[i]
    BY <1>0, <1>a, <2>1, <2>3, <2>4, Zenon DEF BlockInv, CleanBlock, DirtyBlock
  <2> QED BY <2>1, <2>5, <2>6, <2>7, <2>8, Zenon DEF BlockInv, CleanBlock, DirtyBlock, InLog
<1>13. CASE Crash
  <2>1. pc' = "read_head"
    BY <1>13, Zenon DEF Crash
  <2> QED BY <2>1, Zenon DEF BlockInv
<1> QED
  BY <1>1, <1>2, <1>3, <1>4, <1>5, <1>6, <1>7, <1>8, <1>9, <1>10, <1>11,
     <1>12, <1>13, Zenon
  DEF Next, CommitStep, RecoveryStep, vars
-----------------------------------------------------------------------------
(* recover_from_log only touches blocks the header names, and a crash at   *)
(* any step of commit or recovery leaves every other home block whole.     *)
LEMMA RecoveryStepInv == IInv /\ TypeOK' /\ [Next]_vars => RecoveryInv'
<1> SUFFICES ASSUME IInv, TypeOK', [Next]_vars PROVE RecoveryInv'
  OBVIOUS
<1> USE DEF disk, buffers, calls
<1>0. TypeOK /\ BlockInv /\ HeaderInv /\ HeaderOK(lh) /\ ControlInv /\ RecoveryInv
  BY Zenon DEF IInv
<1>1. CASE ~Booting'
  BY <1>1, Zenon DEF RecoveryInv
<1>2. CASE UNCHANGED vars
  BY <1>0, <1>2, Zenon DEF vars, RecoveryInv, Booting, CleanBlock, InLog
<1>3. CASE ReadHead
  <2>1. /\ pc = "read_head" /\ pc' = "recover" /\ lh' = header /\ tail' = 0
        /\ UNCHANGED <<home, logdisk, header, cache, pin>>
    BY <1>3, Zenon DEF ReadHead
  <2>2. \A i \in 1 .. Len(header) : header[i] \in Blocks /\ ~(i <= 0)
    BY <1>0 DEF TypeOK
  <2> QED BY <1>0, <2>1, <2>2, Zenon DEF RecoveryInv, Booting, CleanBlock, InLog
<1>4. CASE RecoverBlock
  <2>0. PICK b : b = lh[tail + 1]
    OBVIOUS
  <2>1. /\ pc = "recover" /\ pc' = pc /\ tail < Len(lh) /\ tail' = tail + 1
        /\ UNCHANGED <<logdisk, header, pin, lh>>
        /\ cache' = [cache EXCEPT ![b] = logdisk[tail + 1]]
        /\ home' = [home EXCEPT ![b] = logdisk[tail + 1]]
    BY <1>4, <2>0, Zenon DEF RecoverBlock, CopyHome
  <2>2. b \in Blocks /\ tail + 1 \in 1 .. Len(lh) /\ header = lh
    BY <1>0, <2>0, <2>1 DEF TypeOK, HeaderInv
  <2>3. /\ cache'[b] = logdisk[tail + 1] /\ home'[b] = logdisk[tail + 1]
        /\ \A c \in Blocks : c # b => cache'[c] = cache[c] /\ home'[c] = home[c]
    BY <1>0, <2>1, <2>2, Zenon DEF TypeOK
  <2>4. \A c \in Blocks : ~InLog(header', c) => CleanBlock(c)'
    BY <1>0, <2>0, <2>1, <2>2, <2>3, Zenon DEF RecoveryInv, Booting, CleanBlock, InLog
  <2>5. ASSUME NEW i \in 1 .. Len(lh')
        PROVE  IF i <= tail' THEN home'[lh'[i]] = logdisk'[i] /\ cache'[lh'[i]] = logdisk'[i]
                             ELSE cache'[lh'[i]] = None
    <3>1. CASE i = tail + 1
      BY <1>0, <2>0, <2>1, <2>3, <3>1 DEF TypeOK
    <3>2. CASE i # tail + 1
      <4>1. lh[i] \in Blocks /\ lh[i] # b
        BY <1>0, <2>0, <2>1, <2>2, <3>2 DEF HeaderOK, TypeOK
      <4>2. (i <= tail') <=> (i <= tail)
        BY <1>0, <2>1, <3>2 DEF TypeOK
      <4> QED BY <1>0, <2>1, <2>3, <4>1, <4>2 DEF RecoveryInv, Booting
    <3> QED BY <3>1, <3>2, Zenon
  <2> QED BY <1>0, <2>1, <2>4, <2>5, Zenon DEF RecoveryInv, Booting
<1>5. CASE Crash
  <2>1. /\ pc' = "read_head" /\ header' = header
        /\ cache' = [c \in Blocks |-> None] /\ pin' = [c \in Blocks |-> 0]
    BY <1>5, Zenon DEF Crash
  <2>2. ASSUME NEW c \in Blocks, ~InLog(header, c) PROVE home[c] \in Vals
    <3>1. CASE Booting
      BY <1>0, <2>2, <3>1, Zenon DEF RecoveryInv, CleanBlock
    <3>2. CASE ~Booting
      <4>1. pc \in {"up", "write_log", "done", "panic", "install_trans"}
        BY <1>0, <3>2, Zenon DEF TypeOK, PCs, Booting
      <4>2. CASE ~InLog(lh, c)
        BY <1>0, <4>1, <4>2, SMTT(60) DEF BlockInv, CleanBlock
      <4>3. CASE InLog(lh, c)
        <5>1. pc \in {"up", "write_log", "panic"}
          BY <1>0, <2>2, <4>1, <4>3, EmptySeq, Zenon DEF HeaderInv, InLog
        <5> QED BY <1>0, <4>3, <5>1, Zenon DEF BlockInv, InLog
      <4> QED BY <4>2, <4>3, Zenon
    <3> QED BY <3>1, <3>2, Zenon
  <2>3. ASSUME NEW c \in Blocks, ~InLog(header, c) PROVE home'[c] = home[c]
    <3>1. CASE home' = home
      BY <3>1, Zenon
    <3>2. CASE /\ pc \in {"install_trans", "recover"} /\ tail < Len(lh)
               /\ home' = [home EXCEPT ![lh[tail + 1]] = Torn]
      <4>1. header = lh /\ tail + 1 \in 1 .. Len(lh)
        BY <1>0, <3>2 DEF HeaderInv, TypeOK
      <4> QED BY <1>0, <2>3, <3>2, <4>1, SMTT(30) DEF InLog, TypeOK
    <3> QED BY <1>5, <3>1, <3>2, Zenon DEF Crash
  <2>4. \A c \in Blocks : ~InLog(header', c) => CleanBlock(c)'
    BY <2>1, <2>2, <2>3, Zenon DEF CleanBlock
  <2> QED BY <2>1, <2>4, Zenon DEF RecoveryInv
<1>6. ASSUME NEW p \in Procs, NEW b \in Blocks, NEW v \in Vals,
             LogWrite(p, b, v)
      PROVE  ~Booting'
  BY <1>6, InCall, Zenon DEF LogWrite, Booting, Panic
<1>10. ASSUME NEW p \in Procs, EndOp(p) \/ EnterOp(p) \/ BeginOp(p) \/ Kill(p)
       PROVE  ~Booting'
  <2>1. CASE EnterOp(p)
    BY <2>1, Zenon DEF EnterOp, Booting
  <2>2. CASE EndOp(p)
    BY <2>2, InCall, Zenon DEF EndOp, Booting, CommitStart
  <2>3. CASE BeginOp(p) \/ Kill(p)
    BY <1>0, <2>3, Zenon DEF BeginOp, Kill, Booting, ControlInv
  <2> QED BY <1>10, <2>1, <2>2, <2>3, Zenon
<1>7. ASSUME NEW p \in Procs, FinishCommit(p) PROVE ~Booting'
  BY <1>7, Zenon DEF FinishCommit, Booting
<1>8. ASSUME CommitStep \/ RecoverClear PROVE ~Booting'
  BY <1>8, Zenon DEF CommitStep, WriteLogBlock, WriteHead, InstallBlock, ClearLog,
              RecoverClear, Booting
<1>9. ASSUME NEW b \in Blocks, Bread(b) \/ Recycle(b) PROVE ~Booting'
  BY <1>9, Zenon DEF Bread, Recycle, Booting
<1> QED
  BY <1>1, <1>2, <1>3, <1>4, <1>5, <1>6, <1>10, <1>7, <1>8, <1>9, Zenon
  DEF Next, RecoveryStep

(* A freshly made file system satisfies the invariant. *)
LEMMA InitIInv == Init => IInv
<1> SUFFICES ASSUME Init PROVE IInv
  OBVIOUS
<1>1. TypeOK
  <2>1. home \in [Blocks -> Contents] /\ logdisk \in [Slots -> Contents]
    BY Zenon DEF Init, Contents
  <2>2. op \in [Procs -> OpStates] /\ wrote \in [Procs -> SUBSET Blocks]
    BY Zenon DEF Init, OpStates
  <2>3. cache \in [Blocks -> Contents \cup {None}] /\ pin \in [Blocks -> Nat]
    BY Zenon DEF Init
  <2> QED BY <2>1, <2>2, <2>3, EmptySeq, Zenon DEF Init, TypeOK, PCs
<1>2. Active = {}
  BY Zenon DEF Init, Active
<1>3. ControlInv
  BY <1>2, FS_EmptySet, Zenon DEF Init, ControlInv, Booting, SleeperHasWaker
<1>4. HeaderOK(lh) /\ HeaderOK(header) /\ HeaderInv /\ BlockInv
  BY ConstAssumption DEF Init, HeaderOK, HeaderInv, BlockInv
<1>5. RecoveryInv
  BY Zenon DEF Init, RecoveryInv, Booting, CleanBlock
<1> QED BY <1>1, <1>3, <1>4, <1>5, Zenon DEF IInv

(* The invariant of log.c holds in every reachable state: header, log      *)
(* blocks, cache and home blocks agree at each control point of commit()   *)
(* and recovery.                                                           *)
THEOREM Invariance == Spec => []IInv
<1>1. IInv /\ [Next]_vars => IInv'
  BY TypeStep, ControlStep, HeaderOKStep, HeaderStep, BlockStep, RecoveryStepInv, Zenon
  DEF IInv
<1> QED BY InitIInv, <1>1, PTL DEF Spec

(* Type correctness of log.c's state. *)
THEOREM TypeCorrect == Spec => []TypeOK
  BY Invariance, PTL DEF IInv

(* bget never recycles the only up-to-date copy of a block. *)
THEOREM PinnedWhileDirty == Spec => []DirtyIsPinned
<1>1. IInv => DirtyIsPinned
  <2> SUFFICES ASSUME IInv, NEW b \in Blocks, ~Booting, cache[b] # None,
                      cache[b] # home[b]
               PROVE  pin[b] > 0
    BY Zenon DEF DirtyIsPinned
  <2>1. ~CleanBlock(b)
    BY Zenon DEF CleanBlock
  <2>2. PICK i \in 1 .. Len(lh) : lh[i] = b
    BY <2>1, Zenon DEF IInv, BlockInv, TypeOK, PCs, Booting, InLog
  <2>3. DirtyBlock(b)
    BY <2>1, <2>2 DEF IInv, BlockInv, HeaderInv, TypeOK, PCs, Booting
  <2> QED BY <2>3 DEF DirtyBlock
<1> QED BY <1>1, Invariance, PTL

(* Every process asleep in begin_op has a call or a commit in progress to  *)
(* wait for: no wakeup(&log) is lost.                                      *)
THEOREM NoLostWakeup == Spec => []SleeperHasWaker
<1>1. IInv => SleeperHasWaker
  BY Zenon DEF IInv, ControlInv
<1> QED BY <1>1, Invariance, PTL
-----------------------------------------------------------------------------
(* What Durable is on a block the header names, and on any other. *)
LEMMA DurableFacts ==
  ASSUME TypeOK, HeaderOK(header)
  PROVE  /\ \A i \in 1 .. Len(header) : Durable[header[i]] = logdisk[i]
         /\ \A b \in Blocks : ~InLog(header, b) => Durable[b] = home[b]
<1>1. ASSUME NEW i \in 1 .. Len(header)
      PROVE  Durable[header[i]] = logdisk[i]
  <2>1. header[i] \in Blocks
    BY EntryType, Zenon DEF TypeOK
  <2>2. (CHOOSE j \in 1 .. Len(header) : header[j] = header[i]) = i
    BY Zenon DEF HeaderOK
  <2> QED BY <2>1, <2>2, SMTT(30) DEF Durable
<1>2. ASSUME NEW b \in Blocks, ~InLog(header, b)
      PROVE  Durable[b] = home[b]
  BY <1>2, Zenon DEF Durable, InLog
<1> QED BY <1>1, <1>2, Zenon

(* Durable depends on the home blocks the header does not name and the log *)
(* blocks it does.                                                         *)
LEMMA DurableSame ==
  ASSUME TypeOK, TypeOK', HeaderOK(header), header' = header,
         \A i \in 1 .. Len(header) : logdisk'[i] = logdisk[i],
         \A b \in Blocks : ~InLog(header, b) => home'[b] = home[b]
  PROVE  Durable' = Durable
<1>2. \A b \in Blocks : Durable'[b] = Durable[b]
  <2> SUFFICES ASSUME NEW b \in Blocks PROVE Durable'[b] = Durable[b]
    OBVIOUS
  <2>1. CASE InLog(header, b)
    <3>1. PICK i \in 1 .. Len(header) : header[i] = b
      BY <2>1, Zenon DEF InLog
    <3>2. Durable[b] = logdisk[i]
      BY <3>1, DurableFacts, Zenon
    <3>3. Durable'[b] = logdisk'[i]
      <4>1. (CHOOSE j \in 1 .. Len(header') : header'[j] = b) = i
        BY <3>1, Zenon DEF HeaderOK
      <4> QED BY <3>1, <4>1, Zenon DEF Durable
    <3> QED BY <3>1, <3>2, <3>3, Zenon
  <2>2. CASE ~InLog(header, b)
    <3>1. ~InLog(header, b)'
      BY <2>2, SMTT(30) DEF InLog
    <3> QED BY <2>2, <3>1, Zenon DEF Durable, InLog
  <2> QED BY <2>1, <2>2, Zenon
<1>3. Durable' = [b \in Blocks |-> Durable'[b]] /\ Durable = [b \in Blocks |-> Durable[b]]
  BY Zenon DEF Durable
<1> QED BY <1>2, <1>3, Zenon

(* With an empty header the home blocks are what a crash leaves. *)
LEMMA DurableHome ==
  ASSUME TypeOK, header = <<>>
  PROVE  Durable = home
  BY DEF Durable, TypeOK

(* A step that leaves the disk, the cache and Booting alone leaves both    *)
(* images alone.                                                           *)
LEMMA ImagesSame ==
  ASSUME UNCHANGED <<home, logdisk, header, cache>>, Booting' <=> Booting
  PROVE  Durable' = Durable /\ Latest' = Latest
  BY Zenon DEF Durable, Latest, Contents_of

(* An unpinned buffer of a running system holds what its home block does. *)
LEMMA UnpinnedClean ==
  ASSUME IInv, ~Booting, NEW b \in Blocks, pin[b] = 0
  PROVE  CleanBlock(b)
<1>1. SUFFICES ASSUME InLog(lh, b) PROVE CleanBlock(b)
  BY Zenon DEF IInv, BlockInv, TypeOK, PCs, Booting
<1>2. PICK i \in 1 .. Len(lh) : lh[i] = b
  BY <1>1, Zenon DEF InLog
<1>3. ~DirtyBlock(b)
  BY SMTT(60) DEF DirtyBlock
<1> QED BY <1>2, <1>3 DEF IInv, BlockInv, HeaderInv, TypeOK, PCs, Booting

(* begin_op and end_op are the abstract BeginOp and EndOp, or stutter. *)
LEMMA RefineCalls ==
  ASSUME IInv, IInv', NEW p \in Procs,
         EnterOp(p) \/ BeginOp(p) \/ Kill(p) \/ EndOp(p) \/ FinishCommit(p)
  PROVE  Abs!BeginOp(p) \/ Abs!EndOp(p) \/ UNCHANGED Abs!vars
<1> USE DEF disk, buffers, calls
<1>0. TypeOK /\ ControlInv /\ ControlInv'
  BY Zenon DEF IInv
<1>1. UNCHANGED <<home, logdisk, header, cache>>
  BY Zenon DEF EnterOp, BeginOp, Kill, EndOp, FinishCommit
<1>2. Booting' <=> Booting
  <2>1. CASE EnterOp(p)
    BY <2>1, Zenon DEF EnterOp, Booting
  <2>2. CASE EndOp(p)
    BY <2>2, InCall, Zenon DEF EndOp, Booting, CommitStart
  <2>3. CASE BeginOp(p) \/ Kill(p)
    BY <2>3, Zenon DEF BeginOp, Kill, Booting
  <2>4. CASE FinishCommit(p)
    BY <2>4, Zenon DEF FinishCommit, Booting
  <2> QED BY <2>1, <2>2, <2>3, <2>4, Zenon
<1>3. Durable' = Durable /\ Latest' = Latest
  BY <1>1, <1>2, ImagesSame, Zenon
<1>4. CASE EnterOp(p) \/ Kill(p)
  <2>1. Active' = Active
    BY <1>0, <1>4, Zenon DEF EnterOp, Kill, Active, TypeOK
  <2> QED BY <1>3, <2>1, Zenon DEF Abs!vars
<1>5. CASE BeginOp(p)
  <2>1. CASE MustWait
    <3>1. Active' = Active
      BY <1>0, <1>5, <2>1, Zenon DEF BeginOp, Active, TypeOK
    <3> QED BY <1>3, <3>1, Zenon DEF Abs!vars
  <2>2. CASE ~MustWait
    <3>1. Active' = Active \cup {p} /\ p \notin Active
      BY <1>0, <1>5, <2>2, Zenon DEF BeginOp, Active, TypeOK
    <3> QED BY <1>3, <3>1, Zenon DEF Abs!BeginOp
  <2> QED BY <2>1, <2>2, Zenon
<1>6. CASE EndOp(p)
  <2>1. p \in Active
    BY <1>6, Zenon DEF EndOp, Active
  <2>2. Active' = Active \ {p}
    BY <1>0, <1>6, Zenon DEF EndOp, Active, TypeOK, Wakeup
  <2> QED BY <1>3, <2>1, <2>2, Zenon DEF Abs!EndOp
<1>7. CASE FinishCommit(p)
  <2>1. Active' = Active
    BY <1>0, <1>7, Zenon DEF FinishCommit, Active, TypeOK, Wakeup
  <2> QED BY <1>3, <2>1, Zenon DEF Abs!vars
<1> QED BY <1>4, <1>5, <1>6, <1>7, Zenon

(* log_write is the abstract Write, or stutters when it panics. *)
LEMMA RefineWrite ==
  ASSUME IInv, NEW p \in Procs, NEW b \in Blocks, NEW v \in Vals,
         LogWrite(p, b, v)
  PROVE  Abs!Write(p, b, v) \/ UNCHANGED Abs!vars
<1> USE DEF disk, buffers, calls
<1>1. pc = "up" /\ TypeOK
  BY InCall, Zenon DEF LogWrite, IInv
<1>2. CASE Panic
  <2>1. UNCHANGED <<home, logdisk, header, cache, op>> /\ pc' = "panic"
    BY <1>2, Zenon DEF Panic
  <2> QED BY <1>1, <2>1, ImagesSame, Zenon DEF Booting, Abs!vars, Active
<1>3. CASE ~Panic
  <2>1. /\ UNCHANGED <<home, logdisk, header, op, pc>> /\ op[p] = "in"
        /\ cache' = [cache EXCEPT ![b] = v]
    BY <1>3, Zenon DEF LogWrite
  <2>2. Durable' = Durable /\ Active' = Active /\ p \in Active
    BY <2>1, Zenon DEF Durable, Active
  <2>3. Latest' = [Latest EXCEPT ![b] = v]
    BY <1>1, <2>1, ConstAssumption, Zenon DEF Latest, Booting, Contents_of, TypeOK
  <2> QED BY <2>2, <2>3, Zenon DEF Abs!Write
<1> QED BY <1>2, <1>3, Zenon

(* write_head after write_log is the abstract Commit; the other steps of   *)
(* commit() change neither image.                                          *)
LEMMA RefineCommit ==
  ASSUME IInv, IInv', CommitStep
  PROVE  Abs!Commit \/ UNCHANGED Abs!vars
<1> USE DEF disk, buffers, calls
<1>0. /\ TypeOK /\ TypeOK' /\ HeaderOK(lh) /\ HeaderOK(header) /\ HeaderInv
      /\ BlockInv /\ ControlInv
  BY Zenon DEF IInv
<1>1. /\ ~Booting /\ ~Booting' /\ Active' = Active
      /\ pc \in {"write_log", "install_trans"}
  BY Zenon DEF CommitStep, WriteLogBlock, WriteHead, InstallBlock, ClearLog, Booting,
         Active
<1>2. Active = {}
  BY <1>0, <1>1, Zenon DEF ControlInv
<1>3. /\ Latest = [b \in Blocks |-> Contents_of(b)]
      /\ Latest' = [b \in Blocks |-> Contents_of(b)']
  BY <1>1, Zenon DEF Latest
<1>4. CASE WriteLogBlock
  <2>1. header = <<>> /\ header' = header /\ home' = home
    BY <1>0, <1>4, Zenon DEF WriteLogBlock, HeaderInv
  <2>2. Durable' = Durable
    BY <2>1, SMTT(30) DEF Durable
  <2>3. \A b \in Blocks : Contents_of(b)' = Contents_of(b)
    BY <1>0, <1>4, Zenon DEF WriteLogBlock, Contents_of, TypeOK
  <2> QED BY <1>1, <1>3, <2>2, <2>3, Zenon DEF Abs!vars
<1>5. CASE WriteHead
  <2>1. /\ pc = "write_log" /\ tail = Len(lh) /\ header' = lh
        /\ UNCHANGED <<home, logdisk, cache, lh>>
    BY <1>5, Zenon DEF WriteHead
  <2>2. Latest' = Latest
    BY <1>3, <2>1, Zenon DEF Contents_of
  <2>3. ASSUME NEW b \in Blocks PROVE Durable'[b] = Contents_of(b)
    <3>1. CASE InLog(lh, b)
      <4>1. PICK i \in 1 .. Len(lh) : lh[i] = b
        BY <3>1, Zenon DEF InLog
      <4>2. (CHOOSE j \in 1 .. Len(header') : header'[j] = b) = i
        BY <1>0, <2>1, <4>1, Zenon DEF HeaderOK
      <4>3. Durable'[b] = logdisk[i]
        BY <2>1, <4>1, <4>2, Zenon DEF Durable
      <4>4. logdisk[i] = cache[b] /\ cache[b] \in Vals
        BY <1>0, <2>1, <4>1, Zenon DEF BlockInv, DirtyBlock
      <4> QED BY <4>3, <4>4, ConstAssumption, Zenon DEF Contents_of
    <3>2. CASE ~InLog(lh, b)
      <4>1. CleanBlock(b)
        BY <1>0, <2>1, <3>2, Zenon DEF BlockInv
      <4>2. Durable'[b] = home[b]
        BY <2>1, <3>2, Zenon DEF Durable, InLog
      <4> QED BY <4>1, <4>2, Zenon DEF CleanBlock, Contents_of
    <3> QED BY <3>1, <3>2, Zenon
  <2>4. Durable' = [b \in Blocks |-> Durable'[b]]
    BY Zenon DEF Durable
  <2>5. Durable' = Latest
    BY <1>3, <2>3, <2>4, Zenon
  <2> QED BY <1>1, <1>2, <2>2, <2>5, Zenon DEF Abs!Commit
<1>6. CASE InstallBlock
  <2>0. PICK b : b = lh[tail + 1]
    OBVIOUS
  <2>1. /\ pc = "install_trans" /\ tail < Len(lh)
        /\ UNCHANGED <<logdisk, header>>
        /\ cache' = [cache EXCEPT ![b] = logdisk[tail + 1]]
        /\ home' = [home EXCEPT ![b] = logdisk[tail + 1]]
    BY <1>6, <2>0, Zenon DEF InstallBlock, CopyHome
  <2>2. tail + 1 \in 1 .. Len(lh) /\ ~(tail + 1 <= tail) /\ header = lh /\ b \in Blocks
    BY <1>0, <2>0, <2>1, EntryType, SMTT(30) DEF TypeOK, HeaderInv
  <2>3. cache[b] = logdisk[tail + 1] /\ cache[b] \in Vals
    BY <1>0, <2>0, <2>1, <2>2, Zenon DEF BlockInv, DirtyBlock
  <2>4. cache' = cache
    BY <1>0, <2>1, <2>2, <2>3, Zenon DEF TypeOK
  <2>5. \A c \in Blocks : c # b => home'[c] = home[c]
    BY <1>0, <2>1, Zenon DEF TypeOK
  <2>6. Durable' = Durable
    <3>1. \A c \in Blocks : ~InLog(header, c) => home'[c] = home[c]
      BY <2>0, <2>2, <2>5, Zenon DEF InLog
    <3> QED BY <1>0, <2>1, <3>1, DurableSame, Zenon
  <2>7. \A c \in Blocks : Contents_of(c)' = Contents_of(c)
    BY <2>3, <2>4, <2>5, ConstAssumption, Zenon DEF Contents_of
  <2> QED BY <1>1, <1>3, <2>6, <2>7, Zenon DEF Abs!vars
<1>7. CASE ClearLog
  <2>1. /\ pc = "install_trans" /\ tail = Len(lh) /\ header' = <<>>
        /\ UNCHANGED <<home, logdisk, cache>> /\ header = lh
    BY <1>0, <1>7, Zenon DEF ClearLog, HeaderInv
  <2>2. Durable' = home
    BY <1>0, <2>1 DEF Durable, TypeOK
  <2>3. ASSUME NEW b \in Blocks PROVE Durable[b] = home[b]
    <3>1. CASE InLog(header, b)
      <4>1. PICK i \in 1 .. Len(lh) : lh[i] = b
        BY <2>1, <3>1, SMTT(30) DEF InLog
      <4>2. Durable[b] = logdisk[i]
        BY <1>0, <2>1, <4>1, DurableFacts, Zenon
      <4>3. i <= tail
        BY <2>1
      <4>4. home[b] = logdisk[i]
        BY <1>0, <2>1, <4>1, <4>3, Zenon DEF BlockInv
      <4> QED BY <4>2, <4>4, Zenon
    <3> QED BY <1>0, <3>1, DurableFacts, Zenon
  <2>4. Durable = home
    BY <1>0, <2>3, Zenon DEF Durable, TypeOK
  <2>5. Latest' = Latest
    BY <1>3, <2>1, Zenon DEF Contents_of
  <2> QED BY <1>1, <2>2, <2>4, <2>5, Zenon DEF Abs!vars
<1> QED BY <1>4, <1>5, <1>6, <1>7, Zenon DEF CommitStep

(* Recovery copies the log blocks home without changing either image: what *)
(* it installs is what the header already made durable.                    *)
LEMMA RefineRecovery ==
  ASSUME IInv, IInv', RecoveryStep
  PROVE  UNCHANGED Abs!vars
<1> USE DEF disk, buffers, calls
<1>0. /\ TypeOK /\ TypeOK' /\ HeaderOK(lh) /\ HeaderOK(header) /\ HeaderInv
      /\ RecoveryInv
  BY Zenon DEF IInv
<1>1. Booting /\ Active' = Active /\ Latest = Durable
  BY Zenon DEF RecoveryStep, ReadHead, RecoverBlock, RecoverClear, Booting, Active,
         Latest
<1>2. CASE ReadHead
  <2>1. UNCHANGED <<home, logdisk, header, cache>> /\ Booting'
    BY <1>2, Zenon DEF ReadHead, Booting
  <2> QED BY <1>1, <2>1, ImagesSame, Zenon DEF Abs!vars
<1>3. CASE RecoverBlock
  <2>0. PICK b : b = lh[tail + 1]
    OBVIOUS
  <2>1. /\ pc = "recover" /\ tail < Len(lh) /\ UNCHANGED <<logdisk, header, pc>>
        /\ home' = [home EXCEPT ![b] = logdisk[tail + 1]]
    BY <1>3, <2>0, Zenon DEF RecoverBlock, CopyHome
  <2>2. tail + 1 \in 1 .. Len(lh) /\ header = lh
    BY <1>0, <2>1 DEF TypeOK, HeaderInv
  <2>3. \A c \in Blocks : ~InLog(header, c) => home'[c] = home[c]
    BY <1>0, <2>0, <2>1, <2>2, SMTT(30) DEF InLog, TypeOK
  <2>4. Durable' = Durable
    BY <1>0, <2>1, <2>3, DurableSame, Zenon
  <2>5. Latest' = Durable'
    BY <2>1, Zenon DEF Latest, Booting
  <2> QED BY <1>1, <2>4, <2>5, Zenon DEF Abs!vars
<1>4. CASE RecoverClear
  <2>1. /\ pc = "recover" /\ tail = Len(lh) /\ header' = <<>> /\ header = lh
        /\ UNCHANGED <<home, logdisk, cache>> /\ ~Booting'
    BY <1>0, <1>4, Zenon DEF RecoverClear, HeaderInv, Booting
  <2>2. Durable' = home
    BY <1>0, <2>1 DEF Durable, TypeOK
  <2>3. ASSUME NEW b \in Blocks
        PROVE  Durable[b] = home[b] /\ cache[b] \in {None, home[b]}
    <3>1. CASE InLog(header, b)
      <4>1. PICK i \in 1 .. Len(lh) : lh[i] = b
        BY <2>1, <3>1, Zenon DEF InLog
      <4>2. Durable[b] = logdisk[i]
        BY <1>0, <2>1, <4>1, DurableFacts, Zenon
      <4>3. i <= tail
        BY <2>1
      <4>4. IF i <= tail THEN home[lh[i]] = logdisk[i] /\ cache[lh[i]] = logdisk[i]
                         ELSE cache[lh[i]] = None
        BY <1>0, <1>1, <2>1, Zenon DEF RecoveryInv
      <4>5. home[b] = logdisk[i] /\ cache[b] = logdisk[i]
        BY <4>1, <4>3, <4>4, Zenon
      <4> QED BY <4>2, <4>5, Zenon
    <3>2. CASE ~InLog(header, b)
      BY <1>0, <1>1, <3>2, DurableFacts, Zenon DEF RecoveryInv, CleanBlock
    <3> QED BY <3>1, <3>2, Zenon
  <2>4. Durable = home
    BY <1>0, <2>3, ZenonT(40) DEF Durable, TypeOK
  <2>5. Latest' = [b \in Blocks |-> home[b]]
    BY <2>1, <2>3, Zenon DEF Latest, Contents_of
  <2>6. Latest' = home
    BY <1>0, <2>5, Zenon DEF TypeOK
  <2> QED BY <1>1, <2>2, <2>4, <2>6, Zenon DEF Abs!vars
<1> QED BY <1>2, <1>3, <1>4, Zenon DEF RecoveryStep

(* Filling or recycling a clean buffer is invisible to the file system. *)
LEMMA RefineCache ==
  ASSUME IInv, NEW b \in Blocks, Bread(b) \/ Recycle(b)
  PROVE  UNCHANGED Abs!vars
<1> USE DEF disk, buffers, calls
<1>1. /\ UNCHANGED <<home, logdisk, header, op, pc>> /\ ~Booting
      /\ TypeOK
  BY SMTT(30) DEF Bread, Recycle, IInv
<1>2. ~Booting' /\ Durable' = Durable /\ Active' = Active
  BY <1>1, Zenon DEF Booting, Durable, Active
<1>3. ASSUME NEW c \in Blocks PROVE Contents_of(c)' = Contents_of(c)
  <2>1. CASE Bread(b)
    BY <1>1, <2>1, SMTT(30) DEF Bread, Contents_of, TypeOK
  <2>2. CASE Recycle(b)
    <3>1. CleanBlock(b)
      BY <1>1, <2>2, UnpinnedClean, Zenon DEF Recycle
    <3> QED BY <1>1, <2>2, <3>1, Zenon DEF Recycle, Contents_of, TypeOK, CleanBlock
  <2> QED BY <2>1, <2>2, Zenon
<1>4. Latest' = Latest
  BY <1>1, <1>2, <1>3, Zenon DEF Latest
<1> QED BY <1>2, <1>4, Zenon DEF Abs!vars

(* A power failure, torn write included, is the abstract Crash. *)
LEMMA RefineCrash ==
  ASSUME IInv, IInv', Crash
  PROVE  Abs!Crash
<1>0. /\ TypeOK /\ TypeOK' /\ HeaderOK(lh) /\ HeaderOK(header) /\ HeaderInv
  BY Zenon DEF IInv
<1>1. header' = header /\ pc' = "read_head" /\ op' = [p \in Procs |-> "idle"]
  BY Zenon DEF Crash
<1>2. Durable' = Durable
  <2>1. CASE UNCHANGED <<home, logdisk>>
    BY <1>1, <2>1, Zenon DEF Durable
  <2>2. CASE /\ pc = "write_log" /\ tail < Len(lh)
             /\ logdisk' = [logdisk EXCEPT ![tail + 1] = Torn]
             /\ UNCHANGED home
    BY <1>0, <1>1, <2>2 DEF Durable, HeaderInv
  <2>3. CASE /\ pc \in {"install_trans", "recover"} /\ tail < Len(lh)
             /\ home' = [home EXCEPT ![lh[tail + 1]] = Torn]
             /\ UNCHANGED logdisk
    <3>1. tail + 1 \in 1 .. Len(lh) /\ header = lh
      BY <1>0, <2>3 DEF TypeOK, HeaderInv
    <3>2. \A c \in Blocks : ~InLog(header, c) => home'[c] = home[c]
      BY <1>0, <2>3, <3>1, SMTT(30) DEF InLog, TypeOK
    <3> QED BY <1>0, <1>1, <2>3, <3>2, DurableSame, SMTT(30)
  <2> QED BY <2>1, <2>2, <2>3, Zenon DEF Crash
<1>3. Latest' = Durable' /\ Active' = {}
  BY <1>1, Zenon DEF Latest, Booting, Active
<1> QED BY <1>2, <1>3, Zenon DEF Abs!Crash

(* log.c implements the crash-safe disk: whatever the interleaving, whole  *)
(* groups of finished calls become durable in one step, and a crash falls  *)
(* back to the last such step.                                             *)
THEOREM Refinement == Spec => CrashSafe
<1>1. Init => Abs!Init
  <2> SUFFICES ASSUME Init PROVE Abs!Init
    OBVIOUS
  <2>1. Durable = [b \in Blocks |-> home[b]] /\ Latest = Durable /\ Active = {}
    BY DEF Init, Durable, Latest, Booting, Active
  <2>2. Durable \in [Blocks -> Vals]
    BY <2>1, Zenon DEF Init
  <2> QED BY <2>1, <2>2, Zenon DEF Abs!Init
<1>2. IInv /\ IInv' /\ [Next]_vars => [Abs!Next]_(Abs!vars)
  <2> SUFFICES ASSUME IInv, IInv', [Next]_vars PROVE Abs!Next \/ UNCHANGED Abs!vars
    OBVIOUS
  <2>1. ASSUME NEW p \in Procs,
               EnterOp(p) \/ BeginOp(p) \/ Kill(p) \/ EndOp(p) \/ FinishCommit(p)
        PROVE  Abs!Next \/ UNCHANGED Abs!vars
    BY <2>1, RefineCalls, Zenon DEF Abs!Next
  <2>2. ASSUME NEW p \in Procs, NEW b \in Blocks, NEW v \in Vals,
               LogWrite(p, b, v)
        PROVE  Abs!Next \/ UNCHANGED Abs!vars
    BY <2>2, RefineWrite, Zenon DEF Abs!Next
  <2>3. CASE CommitStep
    BY <2>3, RefineCommit, Zenon DEF Abs!Next
  <2>4. CASE RecoveryStep
    BY <2>4, RefineRecovery, Zenon
  <2>5. ASSUME NEW b \in Blocks, Bread(b) \/ Recycle(b)
        PROVE  UNCHANGED Abs!vars
    BY <2>5, RefineCache, Zenon
  <2>6. CASE Crash
    BY <2>6, RefineCrash, Zenon DEF Abs!Next
  <2>7. CASE UNCHANGED vars
    BY <2>7, ImagesSame, Zenon DEF vars, Booting, Active, Abs!vars
  <2> QED BY <2>1, <2>2, <2>3, <2>4, <2>5, <2>6, <2>7, Zenon DEF Next
<1> QED BY <1>1, <1>2, Invariance, PTL DEF Spec, CrashSafe, Abs!Spec
-----------------------------------------------------------------------------
(* The reservation of begin_op: what is logged and what is still reserved  *)
(* fit the log together, so log_write finds room.                          *)

(* The blocks that the calls in progress have logged, each with its call. *)
Written == {x \in Procs \X Blocks : op[x[1]] = "in" /\ x[2] \in wrote[x[1]]}

(* A call logs at most OpBlocks blocks, and all of them are in the log. *)
CallsRight ==
  \A p \in Procs : /\ IsFiniteSet(wrote[p]) /\ Cardinality(wrote[p]) <= OpBlocks
                   /\ op[p] = "in" => \A b \in wrote[p] : Logged(b)

(* The log has room for what is in it and for what the calls in progress   *)
(* have reserved and not used yet.                                         *)
RoomRight ==
  /\ IsFiniteSet(Written)
  /\ ~Booting => Len(lh) + outstanding * MAXOPBLOCKS <= LOGSIZE + Cardinality(Written)

SpaceInv == pc # "panic" /\ CallsRight /\ RoomRight
-----------------------------------------------------------------------------
(* A set of at most n elements fits into 1 .. n. *)
LEMMA FitsInto ==
  ASSUME NEW S, IsFiniteSet(S), NEW n \in Nat, Cardinality(S) <= n
  PROVE  \E f \in [S -> 1 .. n] : \A x, y \in S : f[x] = f[y] => x = y
<1> DEFINE m == Cardinality(S)
<1>1. m \in Nat /\ ExistsBijection(1 .. m, S)
  BY FS_CardinalityType, Zenon
<1>2. PICK g : g \in Bijection(1 .. m, S)
  BY <1>1, Zenon DEF ExistsBijection
<1> HIDE DEF m
<1> DEFINE f == [x \in S |-> CHOOSE i \in 1 .. m : g[i] = x]
<1>3. f \in [S -> 1 .. m] /\ \A x, y \in S : f[x] = f[y] => x = y
  <2>1. \A x \in S : f[x] \in 1 .. m /\ g[f[x]] = x
    <3>1. \A x \in S : \E i \in 1 .. m : g[i] = x
      BY <1>2, Zenon DEF Bijection, Surjection
    <3> QED BY <3>1, Zenon
  <2>2. f \in [S -> 1 .. m] BY <2>1, Zenon
  <2> HIDE DEF f
  <2> QED BY <2>1, <2>2, Zenon
<1> HIDE DEF f
<1>4. 1 .. m \subseteq 1 .. n
  BY <1>1 DEF m
<1>5. f \in [S -> 1 .. n]
  BY <1>3, <1>4, Zenon
<1> QED BY <1>3, <1>5, Zenon

(* All calls together have logged at most OpBlocks blocks each. *)
LEMMA WrittenBound ==
  ASSUME CallsRight, TypeOK
  PROVE  Cardinality(Written) <= Cardinality(Active) * OpBlocks
<1> DEFINE Fit(p, f) == f \in [wrote[p] -> 1 .. OpBlocks] /\ \A x, y \in wrote[p] : f[x] = f[y] => x = y
           slot == [p \in Procs |-> CHOOSE f : Fit(p, f)]
           T == Active \X (1 .. OpBlocks)
           g == [x \in Written |-> <<x[1], slot[x[1]][x[2]]>>]
<1>1. OpBlocks \in Nat
  BY ConstAssumption
<1>2. ASSUME NEW p \in Procs PROVE Fit(p, slot[p])
  <2>1. \E f : Fit(p, f)
    BY <1>1, FitsInto DEF CallsRight
  <2> HIDE DEF Fit
  <2> QED BY <2>1, Zenon
<1> HIDE DEF slot
<1>3. ASSUME NEW x \in Written
      PROVE  /\ x[1] \in Active /\ x[2] \in wrote[x[1]] /\ x = <<x[1], x[2]>>
             /\ slot[x[1]][x[2]] \in 1 .. OpBlocks
  <2>1. x[1] \in Active /\ x[1] \in Procs /\ x[2] \in wrote[x[1]] /\ x = <<x[1], x[2]>>
    BY DEF Written, Active
  <2> QED BY <1>2, <2>1
<1>4. g \in [Written -> T]
  BY <1>3, Zenon
<1>5. ASSUME NEW x \in Written, NEW y \in Written, g[x] = g[y] PROVE x = y
  <2>1. x[1] = y[1] /\ slot[x[1]][x[2]] = slot[y[1]][y[2]]
    BY <1>5, Zenon
  <2>2. x[1] \in Procs
    BY <1>3, Zenon DEF Active
  <2>3. x[2] = y[2]
    BY <1>2, <1>3, <2>1, <2>2
  <2> QED BY <1>3, <2>1, <2>3, Zenon
<1>6. g \in Injection(Written, T)
  BY <1>4, <1>5, Zenon DEF Injection, IsInjective
<1>7. IsFiniteSet(1 .. OpBlocks) /\ Cardinality(1 .. OpBlocks) = OpBlocks
  BY <1>1, ConstAssumption, FS_Interval
<1>8. IsFiniteSet(T) /\ Cardinality(T) = Cardinality(Active) * OpBlocks
  BY <1>7, ActiveFinite, FS_Product, Zenon
<1> HIDE DEF g, T
<1> QED BY <1>6, <1>8, FS_Injection

(* The product of natural numbers is one, stated for the prover. *)
LEMMA ProductNat == ASSUME NEW a \in Nat, NEW b \in Nat PROVE a * b \in Nat
BY SMT

(* What n calls have reserved exceeds what they may log by at least what   *)
(* one of them has over.                                                   *)
LEMMA Reserved ==
  ASSUME NEW n \in Nat, n >= 1, NEW m \in Nat, NEW k \in Nat, k <= m
  PROVE  n * k + (m - k) <= n * m
<1>1. (n - 1) * (m - k) >= 0
  BY SMT
<1> QED BY <1>1, SMT
-----------------------------------------------------------------------------
(* log_write finds room when calls use less than they reserve, by as much  *)
(* as the log area is smaller than begin_op takes it to be.                *)
LEMMA RoomToWrite ==
  ASSUME IInv, SpaceInv, NEW p \in Procs, op[p] = "in",
         OpBlocks < MAXOPBLOCKS, LOGSIZE - (MAXOPBLOCKS - OpBlocks) < size - 1
  PROVE  ~LogFull /\ outstanding >= 1
<1> DEFINE n == Cardinality(Written)
<1>1. outstanding = Cardinality(Active) /\ outstanding \in Nat /\ ~Booting
  BY ActiveFinite, Zenon DEF IInv, ControlInv
<1>2. outstanding >= 1
  <2>1. Active # {}
    BY Zenon DEF Active
  <2> QED BY <1>1, <2>1, ActiveFinite, FS_EmptySet
<1>3. n \in Nat /\ n <= outstanding * OpBlocks
  BY <1>1, WrittenBound, FS_CardinalityType, Zenon DEF SpaceInv, RoomRight, IInv
<1>4. Len(lh) \in Nat /\ Len(lh) + outstanding * MAXOPBLOCKS <= LOGSIZE + n
  BY <1>1 DEF SpaceInv, RoomRight, IInv, TypeOK
<1> HIDE DEF n
<1>5. outstanding * OpBlocks + (MAXOPBLOCKS - OpBlocks) <= outstanding * MAXOPBLOCKS
  BY <1>1, <1>2, Reserved, ConstAssumption
<1>6. outstanding * OpBlocks \in Nat /\ outstanding * MAXOPBLOCKS \in Nat
  BY <1>1, ProductNat, ConstAssumption
<1> DEFINE a == outstanding * OpBlocks
           b == outstanding * MAXOPBLOCKS
<1>7. a \in Nat /\ b \in Nat /\ n <= a /\ Len(lh) + b <= LOGSIZE + n /\ a + (MAXOPBLOCKS - OpBlocks) <= b
  BY <1>3, <1>4, <1>5, <1>6, Zenon
<1> HIDE DEF a, b
<1>8. Len(lh) <= LOGSIZE - (MAXOPBLOCKS - OpBlocks)
  BY <1>3, <1>4, <1>7, ConstAssumption
<1> QED BY <1>2, <1>4, <1>8, ConstAssumption DEF LogFull

(* Every step keeps the account. *)
LEMMA SpaceStep ==
  ASSUME OpBlocks < MAXOPBLOCKS, LOGSIZE - (MAXOPBLOCKS - OpBlocks) < size - 1,
         IInv, TypeOK', SpaceInv, [Next]_vars
  PROVE  SpaceInv'
<1> USE DEF disk, buffers, calls
<1>0. TypeOK /\ ControlInv
  BY Zenon DEF IInv
<1>1. ASSUME UNCHANGED <<lh, outstanding, wrote>>, \A p \in Procs : op'[p] = "in" <=> op[p] = "in",
             pc' # "panic", Booting' <=> Booting
      PROVE  SpaceInv'
  <2>1. Written' = Written
    BY <1>1, Zenon DEF Written
  <2> QED BY <1>1, <2>1, Zenon DEF SpaceInv, CallsRight, RoomRight, Logged
<1>2. ASSUME Active = {} PROVE Written = {} /\ outstanding = 0
  BY <1>0, <1>2, FS_EmptySet, Zenon DEF Written, Active, ControlInv
<1>3. ASSUME Active' = {}, UNCHANGED wrote, pc' # "panic",
             ~Booting' => Len(lh') <= LOGSIZE /\ outstanding' = 0
      PROVE  SpaceInv'
  <2>1. Written' = {} /\ \A p \in Procs : op'[p] # "in"
    BY <1>3, Zenon DEF Written, Active
  <2>2. IsFiniteSet(Written') /\ Cardinality(Written') = 0
    BY <2>1, FS_EmptySet, Zenon
  <2>3. Len(lh') \in Nat
    BY DEF TypeOK
  <2> QED BY <1>3, <2>1, <2>2, <2>3, ConstAssumption DEF SpaceInv, CallsRight, RoomRight
<1>4. ASSUME NEW p \in Procs, EnterOp(p) \/ Kill(p) PROVE SpaceInv'
  <2>1. \A q \in Procs : op'[q] = "in" <=> op[q] = "in"
    BY <1>0, <1>4, Zenon DEF EnterOp, Kill, TypeOK
  <2> QED BY <1>1, <1>4, <2>1, Zenon DEF EnterOp, Kill, SpaceInv, Booting
<1>5. ASSUME NEW p \in Procs, BeginOp(p) PROVE SpaceInv'
  <2>0. ~Booting /\ pc' = pc /\ lh' = lh /\ op[p] = "trying"
    BY <1>0, <1>5, Zenon DEF BeginOp, ControlInv
  <2>1. CASE MustWait
    <3>1. \A q \in Procs : op'[q] = "in" <=> op[q] = "in"
      BY <1>0, <1>5, <2>1, Zenon DEF BeginOp, TypeOK
    <3> QED BY <1>1, <1>5, <2>0, <2>1, <3>1, Zenon DEF BeginOp, SpaceInv, Booting
  <2>2. CASE ~MustWait
    <3>1. /\ op' = [op EXCEPT ![p] = "in"] /\ outstanding' = outstanding + 1
          /\ wrote' = [wrote EXCEPT ![p] = {}]
      BY <1>5, <2>2, Zenon DEF BeginOp
    <3>2. /\ \A q \in Procs : q # p => op'[q] = op[q] /\ wrote'[q] = wrote[q]
          /\ wrote'[p] = {}
      BY <1>0, <3>1, Zenon DEF TypeOK
    <3>3. Written' = Written
      BY <2>0, <3>2, Zenon DEF Written
    <3>4. CallsRight'
      <4>1. IsFiniteSet({}) /\ Cardinality({}) <= OpBlocks
        BY FS_EmptySet, ConstAssumption
      <4>2. \A q \in Procs : q # p => /\ IsFiniteSet(wrote[q]) /\ Cardinality(wrote[q]) <= OpBlocks
                                      /\ op[q] = "in" => \A b \in wrote[q] : Logged(b)
        BY Zenon DEF SpaceInv, CallsRight
      <4>3. \A b : Logged(b)' <=> Logged(b)
        BY <2>0, Zenon DEF Logged
      <4> QED BY <3>2, <4>1, <4>2, <4>3, Zenon DEF CallsRight
    <3>5. Cardinality(Written) \in Nat
      BY FS_CardinalityType, Zenon DEF SpaceInv, RoomRight
    <3>6. Len(lh) + outstanding' * MAXOPBLOCKS <= LOGSIZE
      BY <1>0, <2>2, <3>1, ConstAssumption DEF MustWait, TypeOK
    <3>7. outstanding' * MAXOPBLOCKS \in Nat /\ Len(lh) \in Nat
      BY <1>0, <3>1, ProductNat, ConstAssumption DEF TypeOK
    <3>8. RoomRight'
      BY <2>0, <3>3, <3>5, <3>6, <3>7, ConstAssumption DEF SpaceInv, RoomRight
    <3> QED BY <2>0, <3>4, <3>8, Zenon DEF SpaceInv
  <2> QED BY <2>1, <2>2, Zenon
<1>6. ASSUME NEW p \in Procs, EndOp(p) PROVE SpaceInv'
  <2> DEFINE mine == {p} \X wrote[p]
  <2>0. /\ op[p] = "in" /\ ~Booting /\ outstanding' = outstanding - 1
        /\ UNCHANGED <<lh, wrote>> /\ pc' \in {pc, "done", "write_log"}
    BY <1>0, <1>6, Zenon DEF EndOp, ControlInv, CommitStart
  <2>1. \A q \in Procs : op'[q] = "in" <=> q # p /\ op[q] = "in"
    BY <1>0, <1>6, Zenon DEF EndOp, TypeOK, Wakeup
  <2>2. Written' = Written \ mine /\ Written \cap mine = mine
    BY <1>0, <2>0, <2>1, Zenon DEF Written, TypeOK
  <2>3. /\ IsFiniteSet(wrote[p]) /\ Cardinality(wrote[p]) <= OpBlocks
        /\ IsFiniteSet(Written)
    BY Zenon DEF SpaceInv, CallsRight, RoomRight
  <2>4. Cardinality(mine) = Cardinality(wrote[p]) /\ Cardinality(wrote[p]) \in Nat
    <3>1. IsFiniteSet({p}) /\ Cardinality({p}) = 1
      BY FS_Singleton, Zenon
    <3>2. Cardinality(wrote[p]) \in Nat
      BY <2>3, FS_CardinalityType, Zenon
    <3>3. Cardinality(mine) = Cardinality({p}) * Cardinality(wrote[p])
      BY <2>3, <3>1, FS_Product, Zenon
    <3> QED BY <3>1, <3>2, <3>3
  <2> HIDE DEF mine
  <2>5. /\ IsFiniteSet(Written') /\ Cardinality(Written) \in Nat
        /\ Cardinality(Written') = Cardinality(Written) - Cardinality(wrote[p])
    <3>1. /\ IsFiniteSet(Written \ mine)
          /\ Cardinality(Written \ mine) = Cardinality(Written) - Cardinality(Written \cap mine)
      BY <2>3, FS_Difference, Zenon
    <3>2. Cardinality(Written) \in Nat
      BY <2>3, FS_CardinalityType, Zenon
    <3> QED BY <2>2, <2>4, <3>1, <3>2, Zenon
  <2>6. outstanding \in Nat /\ outstanding' \in Nat /\ Len(lh) \in Nat
    BY <1>0 DEF TypeOK
  <2>7. outstanding * MAXOPBLOCKS = outstanding' * MAXOPBLOCKS + MAXOPBLOCKS
    BY <2>0, <2>6, ConstAssumption
  <2>8. Len(lh) + outstanding * MAXOPBLOCKS <= LOGSIZE + Cardinality(Written)
    BY <2>0, Zenon DEF SpaceInv, RoomRight
  <2> DEFINE r == outstanding' * MAXOPBLOCKS
             w == Cardinality(Written)
             k == Cardinality(wrote[p])
  <2>9. /\ r \in Nat /\ w \in Nat /\ k \in Nat /\ k <= OpBlocks
        /\ Len(lh) + (r + MAXOPBLOCKS) <= LOGSIZE + w
    <3>1. r \in Nat
      BY <2>6, ProductNat, ConstAssumption, Zenon
    <3>2. Len(lh) + (r + MAXOPBLOCKS) <= LOGSIZE + w
      BY <2>7, <2>8, Zenon
    <3> QED BY <2>3, <2>4, <2>5, <3>1, <3>2, Zenon
  <2> HIDE DEF r, w, k
  <2>10. Len(lh) + r <= LOGSIZE + (w - k)
    BY <2>6, <2>9, ConstAssumption
  <2>11. RoomRight'
    BY <2>0, <2>5, <2>10, Zenon DEF RoomRight, r, w, k
  <2> QED BY <2>0, <2>1, <2>11, Zenon DEF SpaceInv, CallsRight, Logged
<1>7. ASSUME NEW p \in Procs, FinishCommit(p) PROVE SpaceInv'
  <2>1. \A q \in Procs : op'[q] = "in" <=> op[q] = "in"
    BY <1>0, <1>7, Zenon DEF FinishCommit, TypeOK, Wakeup
  <2> QED BY <1>1, <1>7, <2>1, Zenon DEF FinishCommit, Booting
<1>8. ASSUME NEW p \in Procs, NEW b \in Blocks, NEW v \in Vals, LogWrite(p, b, v)
      PROVE  SpaceInv'
  <2>0. op[p] = "in"
    BY <1>8, Zenon DEF LogWrite
  <2>1. ~LogFull /\ outstanding >= 1
    BY <2>0, RoomToWrite, Zenon
  <2>2. /\ wrote' = [wrote EXCEPT ![p] = @ \cup {b}] /\ UNCHANGED <<outstanding, op, pc>>
        /\ Cardinality(wrote[p] \cup {b}) <= OpBlocks
        /\ (Logged(b) /\ lh' = lh) \/ (~Logged(b) /\ lh' = Append(lh, b))
    <3>1. ~(outstanding < 1)
      BY <1>0, <2>1 DEF TypeOK
    <3> QED BY <1>8, <2>1, <3>1, Zenon DEF LogWrite
  <2>3. /\ wrote'[p] = wrote[p] \cup {b}
        /\ \A q \in Procs : q # p => wrote'[q] = wrote[q]
    BY <1>0, <2>2, Zenon DEF TypeOK
  <2>4. Written' = Written \cup {<<p, b>>}
    BY <1>0, <2>0, <2>2, <2>3 DEF Written
  <2>5. Logged(b)' /\ \A c \in Blocks : Logged(c) => Logged(c)'
    <3>1. CASE Logged(b) /\ lh' = lh
      BY <3>1, Zenon DEF Logged
    <3>2. CASE lh' = Append(lh, b)
      <4>1. /\ Len(lh) \in Nat /\ Len(lh') = Len(lh) + 1 /\ lh'[Len(lh) + 1] = b
            /\ \A i \in 1 .. Len(lh) : lh'[i] = lh[i]
        BY <1>0, <3>2, AppendFacts DEF TypeOK
      <4>2. Len(lh) + 1 \in 1 .. Len(lh')
        BY <4>1
      <4>3. Logged(b)'
        BY <4>1, <4>2, Zenon DEF Logged
      <4>4. ASSUME NEW i \in 1 .. Len(lh) PROVE i \in 1 .. Len(lh') /\ lh'[i] = lh[i]
        BY <4>1
      <4> QED BY <4>3, <4>4, Zenon DEF Logged
    <3> QED BY <2>2, <3>1, <3>2, Zenon
  <2>6. CallsRight'
    <3>1. IsFiniteSet(wrote[p] \cup {b})
      BY FS_AddElement, Zenon DEF SpaceInv, CallsRight
    <3>2. \A q \in Procs : wrote[q] \subseteq Blocks
      BY <1>0, Zenon DEF TypeOK
    <3> QED BY <2>2, <2>3, <2>5, <3>1, <3>2, Zenon DEF SpaceInv, CallsRight
  <2>7. IsFiniteSet(Written) /\ Cardinality(Written) \in Nat /\ IsFiniteSet(Written')
    BY <2>4, FS_AddElement, FS_CardinalityType, Zenon DEF SpaceInv, RoomRight
  <2>8. /\ Cardinality(Written') >= Cardinality(Written)
        /\ ~Logged(b) => Cardinality(Written') = Cardinality(Written) + 1
    <3>1. Cardinality(Written') = IF <<p, b>> \in Written THEN Cardinality(Written)
                                                          ELSE Cardinality(Written) + 1
      BY <2>4, <2>7, FS_AddElement, Zenon
    <3>2. ~Logged(b) => <<p, b>> \notin Written
      BY <2>0, Zenon DEF Written, SpaceInv, CallsRight
    <3> QED BY <2>7, <3>1, <3>2
  <2>9. Cardinality(Written') \in Nat
    BY <2>7, FS_CardinalityType, ZenonT(30)
  <2>10. /\ Len(lh) \in Nat
         /\ Len(lh') <= Len(lh) \/ (~Logged(b) /\ Len(lh') = Len(lh) + 1)
    BY <1>0, <2>2, AppendFacts DEF TypeOK
  <2>11. ~Booting /\ ~Booting'
    BY <1>0, <2>0, <2>2, Zenon DEF ControlInv, Booting
  <2> DEFINE r == outstanding * MAXOPBLOCKS
  <2>12. r \in Nat /\ Len(lh) + r <= LOGSIZE + Cardinality(Written) /\ Len(lh') \in Nat
    BY <1>0, <2>11, ProductNat, ConstAssumption DEF SpaceInv, RoomRight, TypeOK
  <2> HIDE DEF r
  <2>13. Len(lh') + r <= LOGSIZE + Cardinality(Written')
    BY <2>7, <2>8, <2>9, <2>10, <2>12, ConstAssumption
  <2>14. RoomRight'
    BY <2>2, <2>7, <2>13, Zenon DEF RoomRight, r
  <2> QED BY <2>2, <2>6, <2>14, Zenon DEF SpaceInv
<1>9. CASE CommitStep
  <2>1. /\ UNCHANGED <<op, outstanding, committing, wrote>> /\ pc' # "panic" /\ ~Booting
        /\ lh' \in {lh, <<>>} /\ pc \in {"write_log", "install_trans"}
    BY <1>9, Zenon DEF CommitStep, WriteLogBlock, WriteHead, InstallBlock, ClearLog, Booting
  <2>2. Active = {} /\ Active' = {}
    BY <1>0, <2>1, Zenon DEF ControlInv, Active
  <2>3. Written = {} /\ outstanding = 0 /\ Cardinality(Written) = 0
    BY <1>2, <2>2, FS_EmptySet, Zenon
  <2>4. Len(lh) <= LOGSIZE /\ Len(<<>>) <= LOGSIZE
    BY <1>0, <2>1, <2>3, ConstAssumption DEF SpaceInv, RoomRight, TypeOK
  <2> QED BY <1>3, <2>1, <2>2, <2>3, <2>4, Zenon
<1>10. CASE RecoveryStep
  <2>1. /\ UNCHANGED <<op, outstanding, committing, wrote>> /\ Booting /\ pc' # "panic"
        /\ Booting' \/ lh' = <<>>
    BY <1>10, Zenon DEF RecoveryStep, ReadHead, RecoverBlock, RecoverClear, Booting
  <2>2. Active = {} /\ Active' = {}
    BY <1>0, <2>1, Zenon DEF ControlInv, Active
  <2>3. outstanding = 0 /\ Len(<<>>) <= LOGSIZE
    BY <1>2, <2>2, ConstAssumption
  <2> QED BY <1>3, <2>1, <2>2, <2>3, Zenon
<1>11. ASSUME NEW b \in Blocks, Bread(b) \/ Recycle(b) PROVE SpaceInv'
  BY <1>1, <1>11, Zenon DEF Bread, Recycle, Booting
<1>12. CASE Crash
  <2>1. /\ op' = [p \in Procs |-> "idle"] /\ wrote' = [p \in Procs |-> {}] /\ pc' = "read_head"
    BY <1>12, Zenon DEF Crash
  <2>2. Written' = {}
    BY <2>1, Zenon DEF Written
  <2>3. Cardinality({}) <= OpBlocks /\ IsFiniteSet({})
    BY FS_EmptySet, ConstAssumption
  <2>4. CallsRight' /\ RoomRight'
    BY <2>1, <2>2, <2>3, Zenon DEF CallsRight, RoomRight, Booting
  <2> QED BY <2>1, <2>4, Zenon DEF SpaceInv
<1>13. CASE UNCHANGED vars
  BY <1>1, <1>13, Zenon DEF vars, SpaceInv, Booting
<1> QED
  BY <1>4, <1>5, <1>6, <1>7, <1>8, <1>9, <1>10, <1>11, <1>12, <1>13, Zenon DEF Next

(* begin_op's reservation is enough: no log_write of an admitted call      *)
(* panics, whatever calls overlap, provided that calls use less than they  *)
(* reserve.  The last assumption makes up for the header, which mkfs       *)
(* counts as one of the LOGSIZE blocks.                                    *)
THEOREM ReservationEnough ==
  ASSUME OpBlocks < MAXOPBLOCKS, LOGSIZE - (MAXOPBLOCKS - OpBlocks) < size - 1
  PROVE  Spec => []NoPanic
<1>1. Init => SpaceInv
  <2> SUFFICES ASSUME Init PROVE SpaceInv
    OBVIOUS
  <2>1. op = [p \in Procs |-> "idle"] /\ wrote = [p \in Procs |-> {}] /\ pc = "read_head"
    BY Zenon DEF Init
  <2>2. Written = {}
    BY <2>1, Zenon DEF Written
  <2>3. Cardinality({}) <= OpBlocks /\ IsFiniteSet({})
    BY FS_EmptySet, ConstAssumption
  <2>4. CallsRight /\ RoomRight
    BY <2>1, <2>2, <2>3, Zenon DEF CallsRight, RoomRight, Booting
  <2> QED BY <2>1, <2>4, Zenon DEF SpaceInv
<1>2. IInv /\ IInv' /\ SpaceInv /\ [Next]_vars => SpaceInv'
  BY SpaceStep, Zenon DEF IInv
<1>3. IInv /\ SpaceInv => NoPanic
  BY Zenon DEF IInv, ControlInv, SpaceInv, NoPanic
<1> QED BY <1>1, <1>2, <1>3, Invariance, PTL DEF Spec
============================================================================
