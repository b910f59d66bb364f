----------------------------- MODULE ProcProofs -----------------------------
(***************************************************************************)
(* Proofs about module Proc, for a process table of any size: no process   *)
(* is orphaned, no stack is freed under its process, and no parent sleeps  *)
(* on a child that has exited.                                             *)
(***************************************************************************)
EXTENDS Proc, TLAPS

(* The time that the provers get for a step that does not say otherwise. *)
USE SMTT(20), ZenonT(20)

Forking == {"fork_copy", "fork_parent", "fork_state"}
Exiting == {"reparent", "exit_wakeup", "zombie"}
Locking == Exiting \cup {"scan", "killed_p"}
Live == {"SLEEPING", "RUNNABLE"}

(* The types the argument needs; pids do not matter to it. *)
Shape ==
  /\ state \in [Procs -> {"UNUSED", "USED", "SLEEPING", "RUNNABLE", "ZOMBIE"}]
  /\ parent \in [Procs -> Procs \cup {None}]
  /\ wait_lock \in Procs \cup {None}
  /\ plock \in [Procs -> Procs \cup {None}]
  /\ pc \in [Procs -> PCs]
  /\ np \in [Procs -> Procs \cup {None}]
  /\ i \in [Procs -> 1 .. NPROC + 1]

(* p->state says where p is: one that is in the kernel or in its program   *)
(* is live, and one that has called sched for the last time is a zombie    *)
(* whose lock is held until it is off its stack.  init does not exit.      *)
StateRight ==
  /\ \A p \in Procs :
       /\ pc[p] \notin {"none", "dead"} => state[p] \in Live
       /\ pc[p] = "none" => state[p] \notin Live
       /\ pc[p] = "dead" => state[p] = "ZOMBIE" /\ plock[p] = p
       /\ state[p] = "SLEEPING" => pc[p] = "asleep"
  /\ pc[initproc] \notin Exiting \cup {"none", "dead"}

(* The child that fork makes is its caller's alone until it is runnable. *)
ForkRight ==
  \A p \in Procs : pc[p] \in Forking =>
    /\ np[p] \in Procs /\ state[np[p]] = "USED"
    /\ pc[p] = "fork_state" => parent[np[p]] = p
    /\ \A q \in Procs : pc[q] \in Forking /\ np[q] = np[p] => q = p

LockRight == \A p \in Procs : pc[p] \in Locking <=> wait_lock = p

(* Processes have live parents; the one that exits has given away the      *)
(* children it has passed in the table, and in the end all of them.        *)
TreeRight ==
  /\ \A p \in Procs \ {initproc} : state[p] \in Live \cup {"ZOMBIE"} =>
       parent[p] \in Procs /\ state[parent[p]] \in Live
  /\ \A p, q \in Procs : /\ pc[p] = "reparent" /\ q < i[p] => parent[q] # p
                         /\ pc[p] \in {"exit_wakeup", "zombie"} => parent[q] # p

(* A process that scans the table has no exited child behind it, one that  *)
(* sleeps has none, and one that is about to be a zombie has woken its     *)
(* parent, who cannot look before wait_lock is released.                   *)
ScanRight ==
  \A p, q \in Procs : parent[q] = p =>
    /\ pc[p] = "scan" /\ q < i[p] => state[q] # "ZOMBIE"
    /\ pc[p] = "killed_p" \/ state[p] = "SLEEPING" => state[q] # "ZOMBIE"
    /\ pc[q] = "zombie" => state[p] = "RUNNABLE"

ProcInv == Shape /\ StateRight /\ ForkRight /\ LockRight /\ TreeRight /\ ScanRight

(* What a process waits for has not happened: nobody sleeps in wait while  *)
(* a child of theirs, their own or inherited, is a zombie.  (the wakeups   *)
(* of exit and reparent, wait_lock across the scan and sleep)              *)
NoMissedChild ==
  \A p, q \in Procs : state[p] = "SLEEPING" /\ parent[q] = p => state[q] # "ZOMBIE"
-----------------------------------------------------------------------------
(* The invariant holds after userinit. *)
LEMMA ProcInit == Init => ProcInv
BY ConstAssumption DEF Init, ProcInv, Shape, StateRight, ForkRight, LockRight, TreeRight, ScanRight,
  Procs, initproc, PCs, Forking, Exiting, Locking, Live

(* init is an entry of the table, and None is not one. *)
LEMMA Entries == initproc \in Procs /\ None \notin Procs
BY ConstAssumption DEF initproc, Procs

(* wakeup(q) makes q runnable if it sleeps, and changes nothing else. *)
LEMMA WakeIs ==
  ASSUME Shape, NEW q \in Procs
  PROVE  /\ Wake(state, q) \in [Procs -> {"UNUSED", "USED", "SLEEPING", "RUNNABLE", "ZOMBIE"}]
         /\ \A r \in Procs : Wake(state, q)[r] =
              IF r = q /\ state[q] = "SLEEPING" THEN "RUNNABLE" ELSE state[r]
BY Zenon DEF Shape, Wake

(* The three ways an iteration of reparent goes. *)
Passed(p) == i[p] = NPROC + 1 /\ Goto(p, "exit_wakeup") /\ UNCHANGED <<state, parent, i>>
Adopts(p, q) ==
  /\ q \in Procs /\ parent[q] = p /\ i' = [i EXCEPT ![p] = q + 1]
  /\ parent' = [parent EXCEPT ![q] = initproc] /\ state' = Wake(state, initproc) /\ UNCHANGED pc
Passes(p, q) ==
  /\ q \in Procs /\ parent[q] # p /\ i' = [i EXCEPT ![p] = q + 1] /\ UNCHANGED <<state, parent, pc>>

(* No iteration goes another way. *)
LEMMA ReparentIs ==
  ASSUME Shape, NEW p \in Procs, Reparent(p)
  PROVE  /\ pc[p] = "reparent" /\ UNCHANGED <<wait_lock, plock, np>>
         /\ Passed(p) \/ Adopts(p, i[p]) \/ Passes(p, i[p])
<1>1. CASE Reparented(p)
  BY <1>1, ConstAssumption DEF Shape, Reparent, Reparented, Goto, Passed
<1>2. CASE ~Reparented(p)
  <2>1. i[p] \in Procs
    BY <1>2, ConstAssumption DEF Shape, Reparented, Procs
  <2> QED BY <1>2, <2>1, Zenon DEF Reparent, Adopt, Adopts, Passes
<1> QED BY <1>1, <1>2, Zenon

(* wait finds an exited child: it is off its stack, and freed or left. *)
LEMMA ScanZombieIs ==
  ASSUME Shape, NEW p \in Procs, ScanZombie(p)
  PROVE  /\ pc[p] = "scan" /\ i[p] \in Procs /\ parent[i[p]] = p
         /\ plock[i[p]] = None /\ state[i[p]] = "ZOMBIE"
         /\ wait_lock' = None /\ Goto(p, "user") /\ UNCHANGED <<plock, np, i>>
         /\ freeproc(i[p]) \/ UNCHANGED entry
BY ConstAssumption DEF Shape, Procs, ScanZombie, Scanned, Lockable, locals

(* The tables stay well-formed. *)
LEMMA ShapeStep == ProcInv /\ [Next]_vars => Shape'
<1> SUFFICES ASSUME ProcInv, [Next]_vars PROVE Shape'
  OBVIOUS
<1> USE Entries DEF ProcInv, Shape, StateRight, ForkRight,
      Goto, PCs, Forking, Exiting
<1>1. ASSUME NEW p \in Procs, Exit(p) PROVE Shape'
  BY <1>1, ConstAssumption DEF Exit, entry, Procs
<1>2. ASSUME NEW p \in Procs, Wait(p) PROVE Shape'
  BY <1>2, ConstAssumption DEF Wait, InUser, StartScan, entry, Procs
<1>3. ASSUME NEW p \in Procs, WaitAgain(p) PROVE Shape'
  BY <1>3, ConstAssumption DEF WaitAgain, StartScan, entry, Procs
<1>4. ASSUME NEW p \in Procs, Fault(p) PROVE Shape'
  BY <1>4, Zenon DEF Fault, InUser, locals
<1>5. ASSUME NEW p \in Procs, ForkFail(p) PROVE Shape'
  BY <1>5, Zenon DEF ForkFail, freeproc
<1>6. ASSUME NEW p \in Procs, ForkCopied(p) PROVE Shape'
  BY <1>6, Zenon DEF ForkCopied, entry, locals
<1>7. ASSUME NEW p \in Procs, ForkParent(p) PROVE Shape'
  BY <1>7, Zenon DEF ForkParent, locals
<1>8. ASSUME NEW p \in Procs, ForkState(p) PROVE Shape'
  BY <1>8, Zenon DEF ForkState
<1>9. ASSUME NEW p \in Procs, Reparent(p) PROVE Shape'
  <2>0. /\ pc[p] = "reparent" /\ UNCHANGED <<wait_lock, plock, np>>
        /\ Passed(p) \/ Adopts(p, i[p]) \/ Passes(p, i[p])
    BY <1>9, ReparentIs, Zenon
  <2>1. CASE Passed(p)
    BY <2>0, <2>1, ConstAssumption, Zenon DEF Passed, Procs
  <2>2. CASE Adopts(p, i[p])
    <3>1. \A r \in Procs : state'[r] = IF r = initproc /\ state[r] = "SLEEPING" THEN "RUNNABLE" ELSE state[r]
      BY <2>2, WakeIs DEF Adopts
    <3>2. state' \in [Procs -> {"UNUSED", "USED", "SLEEPING", "RUNNABLE", "ZOMBIE"}]
      BY <2>2, WakeIs, Zenon DEF Adopts
    <3> QED BY <2>0, <2>2, <3>1, <3>2, ConstAssumption DEF Adopts, Procs
  <2>3. CASE Passes(p, i[p])
    <3>1. i[p] + 1 \in 1 .. NPROC + 1
      BY <2>3, ConstAssumption DEF Passes, Procs
    <3> QED BY <2>0, <2>3, <3>1, SMTT(30) DEF Passes
  <2> QED BY <2>0, <2>1, <2>2, <2>3, Zenon
<1>10. ASSUME NEW p \in Procs, ExitWakeup(p) PROVE Shape'
  <2>1. parent[p] \in Procs
    BY <1>10, Zenon DEF ExitWakeup, TreeRight, Live
  <2> QED BY <1>10, <2>1, WakeIs, Zenon DEF ExitWakeup, locals
<1>11. ASSUME NEW p \in Procs, ExitZombie(p) PROVE Shape'
  BY <1>11, Zenon DEF ExitZombie, locals
<1>12. ASSUME NEW p \in Procs, ExitSched(p) PROVE Shape'
  BY <1>12, Zenon DEF ExitSched, entry, locals
<1>13. ASSUME NEW p \in Procs, ScanNext(p) PROVE Shape'
  <2>1. i[p] + 1 \in 1 .. NPROC + 1
    BY <1>13, ConstAssumption DEF ScanNext, Scanned
  <2> QED BY <1>13, <2>1, SMTT(30) DEF ScanNext, entry
<1>14. ASSUME NEW p \in Procs, ScanZombie(p) PROVE Shape'
  <2>0. PICK q \in Procs :
          /\ q = i[p] /\ pc[p] = "scan" /\ parent[q] = p /\ plock[q] = None /\ state[q] = "ZOMBIE"
          /\ wait_lock' = None /\ Goto(p, "user") /\ UNCHANGED <<plock, np, i>>
          /\ freeproc(q) \/ UNCHANGED entry
    BY <1>14, ScanZombieIs
  <2>1. CASE freeproc(q)
    BY <2>0, <2>1, Zenon DEF freeproc
  <2>2. CASE UNCHANGED entry
    BY <2>0, <2>2, Zenon DEF entry
  <2> QED BY <2>0, <2>1, <2>2, Zenon
<1>15. ASSUME NEW p \in Procs, WaitFail(p) PROVE Shape'
  BY <1>15, Zenon DEF WaitFail, Scanned, entry, locals
<1>16. ASSUME NEW p \in Procs, WaitNotKilled(p) PROVE Shape'
  BY <1>16, Zenon DEF WaitNotKilled, Scanned, entry, locals
<1>17. ASSUME NEW p \in Procs, WaitSleep(p) PROVE Shape'
  BY <1>17, Zenon DEF WaitSleep, locals
<1>18. ASSUME NEW p \in Procs, NEW q \in Procs, ForkAlloc(p, q) PROVE Shape'
  BY <1>18, Zenon DEF ForkAlloc, InUser, allocpid
<1>19. ASSUME NEW p \in Procs, NEW q \in Procs, NEW k \in KillPids, Kill(p, k, q) PROVE Shape'
  BY <1>19 DEF Kill, InUser, Wake, locals
<1>20. CASE UNCHANGED vars
  BY <1>20, Zenon DEF vars
<1> QED BY <1>1, <1>2, <1>3, <1>4, <1>5, <1>6, <1>7, <1>8, <1>9, <1>10, <1>11,
         <1>12, <1>13, <1>14, <1>15, <1>16, <1>17, <1>18, <1>19, <1>20, Zenon
      DEF Next, ForkStep, ExitStep, WaitStep

(* p->state goes on telling where p is. *)
LEMMA StateStep == ProcInv /\ [Next]_vars => StateRight'
<1> SUFFICES ASSUME ProcInv, [Next]_vars PROVE StateRight'
  OBVIOUS
<1> USE Entries DEF ProcInv, Shape, StateRight, ForkRight,
      Goto, PCs, Forking, Exiting, Live
<1>1. ASSUME NEW p \in Procs, Exit(p) PROVE StateRight'
  BY <1>1 DEF Exit, entry
<1>2. ASSUME NEW p \in Procs, Wait(p) PROVE StateRight'
  BY <1>2 DEF Wait, InUser, StartScan, entry
<1>3. ASSUME NEW p \in Procs, WaitAgain(p) PROVE StateRight'
  BY <1>3, Zenon DEF WaitAgain, StartScan, entry
<1>4. ASSUME NEW p \in Procs, Fault(p) PROVE StateRight'
  BY <1>4, Zenon DEF Fault, InUser, locals
<1>5. ASSUME NEW p \in Procs, ForkFail(p) PROVE StateRight'
  BY <1>5 DEF ForkFail, freeproc
<1>6. ASSUME NEW p \in Procs, ForkCopied(p) PROVE StateRight'
  BY <1>6, ZenonT(30) DEF ForkCopied, entry, locals
<1>7. ASSUME NEW p \in Procs, ForkParent(p) PROVE StateRight'
  BY <1>7, ZenonT(30) DEF ForkParent, locals
<1>8. ASSUME NEW p \in Procs, ForkState(p) PROVE StateRight'
  BY <1>8 DEF ForkState
<1>9. ASSUME NEW p \in Procs, Reparent(p) PROVE StateRight'
  <2>0. /\ pc[p] = "reparent" /\ UNCHANGED <<wait_lock, plock, np>>
        /\ Passed(p) \/ Adopts(p, i[p]) \/ Passes(p, i[p])
    BY <1>9, ReparentIs, Zenon
  <2>1. CASE Passed(p)
    BY <2>0, <2>1, ZenonT(30) DEF Passed
  <2>2. CASE Adopts(p, i[p])
    <3>1. \A r \in Procs : state'[r] = IF r = initproc /\ state[r] = "SLEEPING" THEN "RUNNABLE" ELSE state[r]
      BY <2>2, WakeIs DEF Adopts
    <3>2. state' \in [Procs -> {"UNUSED", "USED", "SLEEPING", "RUNNABLE", "ZOMBIE"}]
      BY <2>2, WakeIs, Zenon DEF Adopts
    <3> QED BY <2>0, <2>2, <3>1, <3>2 DEF Adopts
  <2>3. CASE Passes(p, i[p])
    BY <2>0, <2>3, Zenon DEF Passes
  <2> QED BY <2>0, <2>1, <2>2, <2>3, Zenon
<1>10. ASSUME NEW p \in Procs, ExitWakeup(p) PROVE StateRight'
  BY <1>10 DEF ExitWakeup, Wake, locals
<1>11. ASSUME NEW p \in Procs, ExitZombie(p) PROVE StateRight'
  BY <1>11 DEF ExitZombie, locals
<1>12. ASSUME NEW p \in Procs, ExitSched(p) PROVE StateRight'
  BY <1>12 DEF ExitSched, entry, locals
<1>13. ASSUME NEW p \in Procs, ScanNext(p) PROVE StateRight'
  BY <1>13, ConstAssumption, Zenon DEF ScanNext, Scanned, Lockable, entry, Procs
<1>14. ASSUME NEW p \in Procs, ScanZombie(p) PROVE StateRight'
  <2>0. PICK q \in Procs :
          /\ q = i[p] /\ pc[p] = "scan" /\ parent[q] = p /\ plock[q] = None /\ state[q] = "ZOMBIE"
          /\ wait_lock' = None /\ Goto(p, "user") /\ UNCHANGED <<plock, np, i>>
          /\ freeproc(q) \/ UNCHANGED entry
    BY <1>14, ScanZombieIs
  <2>1. CASE freeproc(q)
    BY <2>0, <2>1 DEF freeproc
  <2>2. CASE UNCHANGED entry
    BY <2>0, <2>2 DEF entry
  <2> QED BY <2>0, <2>1, <2>2, Zenon
<1>15. ASSUME NEW p \in Procs, WaitFail(p) PROVE StateRight'
  BY <1>15, Zenon DEF WaitFail, Scanned, entry, locals
<1>16. ASSUME NEW p \in Procs, WaitNotKilled(p) PROVE StateRight'
  BY <1>16, ZenonT(30) DEF WaitNotKilled, Scanned, entry, locals
<1>17. ASSUME NEW p \in Procs, WaitSleep(p) PROVE StateRight'
  BY <1>17 DEF WaitSleep, locals
<1>18. ASSUME NEW p \in Procs, NEW q \in Procs, ForkAlloc(p, q) PROVE StateRight'
  BY <1>18 DEF ForkAlloc, InUser, allocpid
<1>19. ASSUME NEW p \in Procs, NEW q \in Procs, NEW k \in KillPids, Kill(p, k, q) PROVE StateRight'
  BY <1>19, Zenon DEF Kill, InUser, Wake, locals
<1>20. CASE UNCHANGED vars
  BY <1>20, Zenon DEF vars
<1> QED BY <1>1, <1>2, <1>3, <1>4, <1>5, <1>6, <1>7, <1>8, <1>9, <1>10, <1>11,
         <1>12, <1>13, <1>14, <1>15, <1>16, <1>17, <1>18, <1>19, <1>20, Zenon
      DEF Next, ForkStep, ExitStep, WaitStep

(* A child under construction is left alone by the others. *)
LEMMA ForkingStep == ProcInv /\ [Next]_vars => ForkRight'
<1> SUFFICES ASSUME ProcInv, [Next]_vars PROVE ForkRight'
  OBVIOUS
<1> USE Entries DEF ProcInv, Shape, StateRight, ForkRight,
      Goto, PCs, Forking, Exiting, Live
<1>1. ASSUME NEW p \in Procs, Exit(p) PROVE ForkRight'
  BY <1>1 DEF Exit, entry
<1>2. ASSUME NEW p \in Procs, Wait(p) PROVE ForkRight'
  BY <1>2 DEF Wait, InUser, StartScan, entry
<1>3. ASSUME NEW p \in Procs, WaitAgain(p) PROVE ForkRight'
  BY <1>3 DEF WaitAgain, StartScan, entry
<1>4. ASSUME NEW p \in Procs, Fault(p) PROVE ForkRight'
  BY <1>4 DEF Fault, InUser, locals
<1>5. ASSUME NEW p \in Procs, ForkFail(p) PROVE ForkRight'
  BY <1>5 DEF ForkFail, freeproc
<1>6. ASSUME NEW p \in Procs, ForkCopied(p) PROVE ForkRight'
  BY <1>6 DEF ForkCopied, entry, locals
<1>7. ASSUME NEW p \in Procs, ForkParent(p) PROVE ForkRight'
  BY <1>7 DEF ForkParent, locals
<1>8. ASSUME NEW p \in Procs, ForkState(p) PROVE ForkRight'
  BY <1>8 DEF ForkState
<1>9. ASSUME NEW p \in Procs, Reparent(p) PROVE ForkRight'
  <2>0. /\ pc[p] = "reparent" /\ UNCHANGED <<wait_lock, plock, np>>
        /\ Passed(p) \/ Adopts(p, i[p]) \/ Passes(p, i[p])
    BY <1>9, ReparentIs, Zenon
  <2>1. CASE Passed(p)
    BY <2>0, <2>1 DEF Passed
  <2>2. CASE Adopts(p, i[p])
    <3>1. \A r \in Procs : state'[r] = IF r = initproc /\ state[r] = "SLEEPING" THEN "RUNNABLE" ELSE state[r]
      BY <2>2, WakeIs DEF Adopts
    <3>2. state' \in [Procs -> {"UNUSED", "USED", "SLEEPING", "RUNNABLE", "ZOMBIE"}]
      BY <2>2, WakeIs, Zenon DEF Adopts
    <3> QED BY <2>0, <2>2, <3>1, <3>2 DEF Adopts
  <2>3. CASE Passes(p, i[p])
    BY <2>0, <2>3 DEF Passes
  <2> QED BY <2>0, <2>1, <2>2, <2>3, Zenon
<1>10. ASSUME NEW p \in Procs, ExitWakeup(p) PROVE ForkRight'
  BY <1>10 DEF ExitWakeup, Wake, locals
<1>11. ASSUME NEW p \in Procs, ExitZombie(p) PROVE ForkRight'
  BY <1>11 DEF ExitZombie, locals
<1>12. ASSUME NEW p \in Procs, ExitSched(p) PROVE ForkRight'
  BY <1>12 DEF ExitSched, entry, locals
<1>13. ASSUME NEW p \in Procs, ScanNext(p) PROVE ForkRight'
  BY <1>13, ConstAssumption DEF ScanNext, Scanned, Lockable, entry, Procs
<1>14. ASSUME NEW p \in Procs, ScanZombie(p) PROVE ForkRight'
  <2>0. PICK q \in Procs :
          /\ q = i[p] /\ pc[p] = "scan" /\ parent[q] = p /\ plock[q] = None /\ state[q] = "ZOMBIE"
          /\ wait_lock' = None /\ Goto(p, "user") /\ UNCHANGED <<plock, np, i>>
          /\ freeproc(q) \/ UNCHANGED entry
    BY <1>14, ScanZombieIs
  <2>1. CASE freeproc(q)
    BY <2>0, <2>1 DEF freeproc
  <2>2. CASE UNCHANGED entry
    BY <2>0, <2>2 DEF entry
  <2> QED BY <2>0, <2>1, <2>2, Zenon
<1>15. ASSUME NEW p \in Procs, WaitFail(p) PROVE ForkRight'
  BY <1>15 DEF WaitFail, Scanned, entry, locals
<1>16. ASSUME NEW p \in Procs, WaitNotKilled(p) PROVE ForkRight'
  BY <1>16 DEF WaitNotKilled, Scanned, entry, locals
<1>17. ASSUME NEW p \in Procs, WaitSleep(p) PROVE ForkRight'
  BY <1>17 DEF WaitSleep, locals
<1>18. ASSUME NEW p \in Procs, NEW q \in Procs, ForkAlloc(p, q) PROVE ForkRight'
  BY <1>18 DEF ForkAlloc, InUser, allocpid
<1>19. ASSUME NEW p \in Procs, NEW q \in Procs, NEW k \in KillPids, Kill(p, k, q) PROVE ForkRight'
  BY <1>19 DEF Kill, InUser, Wake, locals
<1>20. CASE UNCHANGED vars
  BY <1>20 DEF vars
<1> QED BY <1>1, <1>2, <1>3, <1>4, <1>5, <1>6, <1>7, <1>8, <1>9, <1>10, <1>11,
         <1>12, <1>13, <1>14, <1>15, <1>16, <1>17, <1>18, <1>19, <1>20, Zenon
      DEF Next, ForkStep, ExitStep, WaitStep

(* wait_lock is held from acquire to release. *)
LEMMA LockStep == ProcInv /\ [Next]_vars => LockRight'
<1> SUFFICES ASSUME ProcInv, [Next]_vars PROVE LockRight'
  OBVIOUS
<1> USE Entries DEF ProcInv, Shape, StateRight, ForkRight, LockRight,
      Goto, PCs, Forking, Exiting, Locking, Live
<1>1. ASSUME NEW p \in Procs, Exit(p) PROVE LockRight'
  BY <1>1 DEF Exit, entry
<1>2. ASSUME NEW p \in Procs, Wait(p) PROVE LockRight'
  BY <1>2, ZenonT(30) DEF Wait, InUser, StartScan, entry
<1>3. ASSUME NEW p \in Procs, WaitAgain(p) PROVE LockRight'
  BY <1>3, ZenonT(30) DEF WaitAgain, StartScan, entry
<1>4. ASSUME NEW p \in Procs, Fault(p) PROVE LockRight'
  BY <1>4, Zenon DEF Fault, InUser, locals
<1>5. ASSUME NEW p \in Procs, ForkFail(p) PROVE LockRight'
  BY <1>5, ZenonT(30) DEF ForkFail, freeproc
<1>6. ASSUME NEW p \in Procs, ForkCopied(p) PROVE LockRight'
  BY <1>6, ZenonT(30) DEF ForkCopied, entry, locals
<1>7. ASSUME NEW p \in Procs, ForkParent(p) PROVE LockRight'
  BY <1>7, ZenonT(30) DEF ForkParent, locals
<1>8. ASSUME NEW p \in Procs, ForkState(p) PROVE LockRight'
  BY <1>8 DEF ForkState
<1>9. ASSUME NEW p \in Procs, Reparent(p) PROVE LockRight'
  <2>0. /\ pc[p] = "reparent" /\ UNCHANGED <<wait_lock, plock, np>>
        /\ Passed(p) \/ Adopts(p, i[p]) \/ Passes(p, i[p])
    BY <1>9, ReparentIs, Zenon
  <2>1. CASE Passed(p)
    BY <2>0, <2>1, ZenonT(30) DEF Passed
  <2>2. CASE Adopts(p, i[p])
    <3>1. \A r \in Procs : state'[r] = IF r = initproc /\ state[r] = "SLEEPING" THEN "RUNNABLE" ELSE state[r]
      BY <2>2, WakeIs DEF Adopts
    <3>2. state' \in [Procs -> {"UNUSED", "USED", "SLEEPING", "RUNNABLE", "ZOMBIE"}]
      BY <2>2, WakeIs, Zenon DEF Adopts
    <3> QED BY <2>0, <2>2, <3>1, <3>2, Zenon DEF Adopts
  <2>3. CASE Passes(p, i[p])
    BY <2>0, <2>3, Zenon DEF Passes
  <2> QED BY <2>0, <2>1, <2>2, <2>3, Zenon
<1>10. ASSUME NEW p \in Procs, ExitWakeup(p) PROVE LockRight'
  BY <1>10 DEF ExitWakeup, Wake, locals
<1>11. ASSUME NEW p \in Procs, ExitZombie(p) PROVE LockRight'
  BY <1>11 DEF ExitZombie, locals
<1>12. ASSUME NEW p \in Procs, ExitSched(p) PROVE LockRight'
  BY <1>12, ZenonT(30) DEF ExitSched, entry, locals
<1>13. ASSUME NEW p \in Procs, ScanNext(p) PROVE LockRight'
  BY <1>13, ConstAssumption, Zenon DEF ScanNext, Scanned, Lockable, entry, Procs
<1>14. ASSUME NEW p \in Procs, ScanZombie(p) PROVE LockRight'
  <2>0. PICK q \in Procs :
          /\ q = i[p] /\ pc[p] = "scan" /\ parent[q] = p /\ plock[q] = None /\ state[q] = "ZOMBIE"
          /\ wait_lock' = None /\ Goto(p, "user") /\ UNCHANGED <<plock, np, i>>
          /\ freeproc(q) \/ UNCHANGED entry
    BY <1>14, ScanZombieIs
  <2>1. CASE freeproc(q)
    BY <2>0, <2>1 DEF freeproc
  <2>2. CASE UNCHANGED entry
    BY <2>0, <2>2 DEF entry
  <2> QED BY <2>0, <2>1, <2>2, Zenon
<1>15. ASSUME NEW p \in Procs, WaitFail(p) PROVE LockRight'
  BY <1>15 DEF WaitFail, Scanned, entry, locals
<1>16. ASSUME NEW p \in Procs, WaitNotKilled(p) PROVE LockRight'
  BY <1>16 DEF WaitNotKilled, Scanned, entry, locals
<1>17. ASSUME NEW p \in Procs, WaitSleep(p) PROVE LockRight'
  BY <1>17 DEF WaitSleep, locals
<1>18. ASSUME NEW p \in Procs, NEW q \in Procs, ForkAlloc(p, q) PROVE LockRight'
  BY <1>18 DEF ForkAlloc, InUser, allocpid
<1>19. ASSUME NEW p \in Procs, NEW q \in Procs, NEW k \in KillPids, Kill(p, k, q) PROVE LockRight'
  BY <1>19, Zenon DEF Kill, InUser, Wake, locals
<1>20. CASE UNCHANGED vars
  BY <1>20, Zenon DEF vars
<1> QED BY <1>1, <1>2, <1>3, <1>4, <1>5, <1>6, <1>7, <1>8, <1>9, <1>10, <1>11,
         <1>12, <1>13, <1>14, <1>15, <1>16, <1>17, <1>18, <1>19, <1>20, Zenon
      DEF Next, ForkStep, ExitStep, WaitStep

(* No step takes a live parent from a process. *)
LEMMA TreeStep == ProcInv /\ [Next]_vars => TreeRight'
<1> SUFFICES ASSUME ProcInv, [Next]_vars PROVE TreeRight'
  OBVIOUS
<1> USE Entries DEF ProcInv, Shape, StateRight, ForkRight, LockRight, TreeRight,
      Goto, PCs, Forking, Exiting, Locking, Live
<1>1. ASSUME NEW p \in Procs, Exit(p) PROVE TreeRight'
  BY <1>1, ConstAssumption DEF Exit, entry, Procs
<1>2. ASSUME NEW p \in Procs, Wait(p) PROVE TreeRight'
  BY <1>2, ConstAssumption DEF Wait, InUser, StartScan, entry, Procs
<1>3. ASSUME NEW p \in Procs, WaitAgain(p) PROVE TreeRight'
  BY <1>3, ConstAssumption DEF WaitAgain, StartScan, entry, Procs
<1>4. ASSUME NEW p \in Procs, Fault(p) PROVE TreeRight'
  BY <1>4 DEF Fault, InUser, locals
<1>5. ASSUME NEW p \in Procs, ForkFail(p) PROVE TreeRight'
  BY <1>5 DEF ForkFail, freeproc
<1>6. ASSUME NEW p \in Procs, ForkCopied(p) PROVE TreeRight'
  BY <1>6 DEF ForkCopied, entry, locals
<1>7. ASSUME NEW p \in Procs, ForkParent(p) PROVE TreeRight'
  BY <1>7 DEF ForkParent, locals
<1>8. ASSUME NEW p \in Procs, ForkState(p) PROVE TreeRight'
  BY <1>8 DEF ForkState
<1>9. ASSUME NEW p \in Procs, Reparent(p) PROVE TreeRight'
  <2>0. /\ pc[p] = "reparent" /\ UNCHANGED <<wait_lock, plock, np>>
        /\ Passed(p) \/ Adopts(p, i[p]) \/ Passes(p, i[p])
    BY <1>9, ReparentIs, Zenon
  <2>1. CASE Passed(p)
    BY <2>0, <2>1, ConstAssumption DEF Passed, Procs
  <2>2. CASE Adopts(p, i[p])
    <3>1. \A r \in Procs : state'[r] = IF r = initproc /\ state[r] = "SLEEPING" THEN "RUNNABLE" ELSE state[r]
      BY <2>2, WakeIs DEF Adopts
    <3>2. state' \in [Procs -> {"UNUSED", "USED", "SLEEPING", "RUNNABLE", "ZOMBIE"}]
      BY <2>2, WakeIs, Zenon DEF Adopts
    <3>3. /\ p # initproc /\ state[initproc] \in Live
          /\ \A r \in Procs : state[r] \in Live => state'[r] \in Live
          /\ \A r \in Procs : state'[r] \in Live \cup {"ZOMBIE"} => state[r] \in Live \cup {"ZOMBIE"}
      BY <2>0, <3>1, ZenonT(30)
    <3>4. \A r \in Procs : parent'[r] = IF r = i[p] THEN initproc ELSE parent[r]
      BY <2>2 DEF Adopts
    <3>5. ASSUME NEW r \in Procs \ {initproc}, state'[r] \in Live \cup {"ZOMBIE"}
          PROVE  parent'[r] \in Procs /\ state'[parent'[r]] \in Live
      BY <3>3, <3>4, <3>5
    <3>6. ASSUME NEW r \in Procs, NEW q \in Procs PROVE
            /\ pc'[r] = "reparent" /\ q < i'[r] => parent'[q] # r
            /\ pc'[r] \in {"exit_wakeup", "zombie"} => parent'[q] # r
      <4>1. CASE r = p
        <5>1. q < i[p] + 1 => q < i[p] \/ q = i[p]
          BY ConstAssumption DEF Procs
        <5> QED BY <2>0, <2>2, <3>3, <3>4, <4>1, <5>1, SMTT(30) DEF Adopts
      <4>2. CASE r # p
        BY <2>0, <2>2, <3>3, <3>4, <4>2, SMTT(30) DEF Adopts
      <4> QED BY <4>1, <4>2, Zenon
    <3> QED BY <3>5, <3>6, Zenon
  <2>3. CASE Passes(p, i[p])
    <3>1. UNCHANGED <<state, parent, pc>>
      BY <2>3, Zenon DEF Passes
    <3>2. ASSUME NEW r \in Procs, NEW q \in Procs, pc[r] = "reparent", q < i'[r] PROVE parent[q] # r
      <4>1. CASE r = p
        <5>1. q < i[p] + 1 => q < i[p] \/ q = i[p]
          BY ConstAssumption DEF Procs
        <5>2. q < i[p] \/ q = i[p]
          BY <2>3, <3>2, <4>1, <5>1 DEF Passes
        <5> QED BY <2>0, <2>3, <4>1, <5>2, Zenon DEF Passes
      <4>2. CASE r # p
        <5>1. i'[r] = i[r]
          BY <2>3, <4>2 DEF Passes
        <5> QED BY <3>2, <5>1, Zenon
      <4> QED BY <4>1, <4>2, Zenon
    <3> QED BY <3>1, <3>2, SMTT(30)
  <2> QED BY <2>0, <2>1, <2>2, <2>3, Zenon
<1>10. ASSUME NEW p \in Procs, ExitWakeup(p) PROVE TreeRight'
  BY <1>10, ConstAssumption, SMTT(30) DEF ExitWakeup, Wake, locals, Procs
<1>11. ASSUME NEW p \in Procs, ExitZombie(p) PROVE TreeRight'
  BY <1>11, ConstAssumption DEF ExitZombie, locals, Procs
<1>12. ASSUME NEW p \in Procs, ExitSched(p) PROVE TreeRight'
  BY <1>12, ConstAssumption DEF ExitSched, entry, locals, Procs
<1>13. ASSUME NEW p \in Procs, ScanNext(p) PROVE TreeRight'
  BY <1>13, ConstAssumption DEF ScanNext, Scanned, Lockable, entry, Procs
<1>14. ASSUME NEW p \in Procs, ScanZombie(p) PROVE TreeRight'
  <2>0. PICK q \in Procs :
          /\ q = i[p] /\ pc[p] = "scan" /\ parent[q] = p /\ plock[q] = None /\ state[q] = "ZOMBIE"
          /\ wait_lock' = None /\ Goto(p, "user") /\ UNCHANGED <<plock, np, i>>
          /\ freeproc(q) \/ UNCHANGED entry
    BY <1>14, ScanZombieIs
  <2>1. CASE freeproc(q)
    BY <2>0, <2>1 DEF freeproc
  <2>2. CASE UNCHANGED entry
    BY <2>0, <2>2 DEF entry
  <2> QED BY <2>0, <2>1, <2>2, Zenon
<1>15. ASSUME NEW p \in Procs, WaitFail(p) PROVE TreeRight'
  BY <1>15, ConstAssumption DEF WaitFail, Scanned, entry, locals, Procs
<1>16. ASSUME NEW p \in Procs, WaitNotKilled(p) PROVE TreeRight'
  BY <1>16, ConstAssumption DEF WaitNotKilled, Scanned, entry, locals, Procs
<1>17. ASSUME NEW p \in Procs, WaitSleep(p) PROVE TreeRight'
  BY <1>17, ConstAssumption DEF WaitSleep, locals, Procs
<1>18. ASSUME NEW p \in Procs, NEW q \in Procs, ForkAlloc(p, q) PROVE TreeRight'
  BY <1>18 DEF ForkAlloc, InUser, allocpid
<1>19. ASSUME NEW p \in Procs, NEW q \in Procs, NEW k \in KillPids, Kill(p, k, q) PROVE TreeRight'
  BY <1>19 DEF Kill, InUser, Wake, locals
<1>20. CASE UNCHANGED vars
  BY <1>20, ZenonT(30) DEF vars
<1> QED BY <1>1, <1>2, <1>3, <1>4, <1>5, <1>6, <1>7, <1>8, <1>9, <1>10, <1>11,
         <1>12, <1>13, <1>14, <1>15, <1>16, <1>17, <1>18, <1>19, <1>20, Zenon
      DEF Next, ForkStep, ExitStep, WaitStep

(* No exit is missed by a parent that scans the table or sleeps. *)
LEMMA ScanStep == ProcInv /\ [Next]_vars => ScanRight'
<1> SUFFICES ASSUME ProcInv, [Next]_vars PROVE ScanRight'
  OBVIOUS
<1> USE Entries DEF ProcInv, Shape, StateRight, ForkRight, LockRight, TreeRight, ScanRight,
      Goto, PCs, Forking, Exiting, Locking, Live
<1>1. ASSUME NEW p \in Procs, Exit(p) PROVE ScanRight'
  BY <1>1, ConstAssumption DEF Exit, entry, Procs
<1>2. ASSUME NEW p \in Procs, Wait(p) PROVE ScanRight'
  BY <1>2, ConstAssumption DEF Wait, InUser, StartScan, entry, Procs
<1>3. ASSUME NEW p \in Procs, WaitAgain(p) PROVE ScanRight'
  BY <1>3, ConstAssumption DEF WaitAgain, StartScan, entry, Procs
<1>4. ASSUME NEW p \in Procs, Fault(p) PROVE ScanRight'
  BY <1>4 DEF Fault, InUser, locals
<1>5. ASSUME NEW p \in Procs, ForkFail(p) PROVE ScanRight'
  BY <1>5, SMTT(30) DEF ForkFail, freeproc
<1>6. ASSUME NEW p \in Procs, ForkCopied(p) PROVE ScanRight'
  BY <1>6 DEF ForkCopied, entry, locals
<1>7. ASSUME NEW p \in Procs, ForkParent(p) PROVE ScanRight'
  BY <1>7 DEF ForkParent, locals
<1>8. ASSUME NEW p \in Procs, ForkState(p) PROVE ScanRight'
  BY <1>8 DEF ForkState
<1>9. ASSUME NEW p \in Procs, Reparent(p) PROVE ScanRight'
  <2>0. /\ pc[p] = "reparent" /\ UNCHANGED <<wait_lock, plock, np>>
        /\ Passed(p) \/ Adopts(p, i[p]) \/ Passes(p, i[p])
    BY <1>9, ReparentIs, Zenon
  <2>1. CASE Passed(p)
    BY <2>0, <2>1, ConstAssumption, SMTT(30) DEF Passed, Procs
  <2>2. CASE Adopts(p, i[p])
    <3>1. \A r \in Procs : state'[r] = IF r = initproc /\ state[r] = "SLEEPING" THEN "RUNNABLE" ELSE state[r]
      BY <2>2, WakeIs DEF Adopts
    <3>2. state' \in [Procs -> {"UNUSED", "USED", "SLEEPING", "RUNNABLE", "ZOMBIE"}]
      BY <2>2, WakeIs, Zenon DEF Adopts
    <3> QED BY <2>0, <2>2, <3>1, <3>2, ConstAssumption DEF Adopts, Procs
  <2>3. CASE Passes(p, i[p])
    BY <2>0, <2>3, ConstAssumption DEF Passes, Procs
  <2> QED BY <2>0, <2>1, <2>2, <2>3, Zenon
<1>10. ASSUME NEW p \in Procs, ExitWakeup(p) PROVE ScanRight'
  BY <1>10, ConstAssumption DEF ExitWakeup, Wake, locals, Procs
<1>11. ASSUME NEW p \in Procs, ExitZombie(p) PROVE ScanRight'
  BY <1>11, ConstAssumption, SMTT(30) DEF ExitZombie, locals, Procs
<1>12. ASSUME NEW p \in Procs, ExitSched(p) PROVE ScanRight'
  BY <1>12, ConstAssumption DEF ExitSched, entry, locals, Procs
<1>13. ASSUME NEW p \in Procs, ScanNext(p) PROVE ScanRight'
  BY <1>13, ConstAssumption DEF ScanNext, Scanned, Lockable, entry, Procs
<1>14. ASSUME NEW p \in Procs, ScanZombie(p) PROVE ScanRight'
  <2>0. PICK q \in Procs :
          /\ q = i[p] /\ pc[p] = "scan" /\ parent[q] = p /\ plock[q] = None /\ state[q] = "ZOMBIE"
          /\ wait_lock' = None /\ Goto(p, "user") /\ UNCHANGED <<plock, np, i>>
          /\ freeproc(q) \/ UNCHANGED entry
    BY <1>14, ScanZombieIs, SMTT(30)
  <2>1. CASE freeproc(q)
    BY <2>0, <2>1 DEF freeproc
  <2>2. CASE UNCHANGED entry
    BY <2>0, <2>2 DEF entry
  <2> QED BY <2>0, <2>1, <2>2, Zenon
<1>15. ASSUME NEW p \in Procs, WaitFail(p) PROVE ScanRight'
  BY <1>15, ConstAssumption DEF WaitFail, Scanned, entry, locals, Procs
<1>16. ASSUME NEW p \in Procs, WaitNotKilled(p) PROVE ScanRight'
  BY <1>16, ConstAssumption DEF WaitNotKilled, Scanned, entry, locals, Procs
<1>17. ASSUME NEW p \in Procs, WaitSleep(p) PROVE ScanRight'
  BY <1>17, ConstAssumption DEF WaitSleep, locals, Procs
<1>18. ASSUME NEW p \in Procs, NEW q \in Procs, ForkAlloc(p, q) PROVE ScanRight'
  BY <1>18 DEF ForkAlloc, InUser, allocpid
<1>19. ASSUME NEW p \in Procs, NEW q \in Procs, NEW k \in KillPids, Kill(p, k, q) PROVE ScanRight'
  BY <1>19 DEF Kill, InUser, Wake, locals
<1>20. CASE UNCHANGED vars
  BY <1>20 DEF vars
<1> QED BY <1>1, <1>2, <1>3, <1>4, <1>5, <1>6, <1>7, <1>8, <1>9, <1>10, <1>11,
         <1>12, <1>13, <1>14, <1>15, <1>16, <1>17, <1>18, <1>19, <1>20, Zenon
      DEF Next, ForkStep, ExitStep, WaitStep

(* Every step keeps the invariant. *)
LEMMA ProcStep == ProcInv /\ [Next]_vars => ProcInv'
BY ShapeStep, StateStep, ForkingStep, LockStep, TreeStep, ScanStep, Zenon DEF ProcInv

(* The life of processes keeps the invariant: every behaviour of Proc. *)
THEOREM ProcInvariance == Spec => []ProcInv
BY ProcInit, ProcStep, PTL DEF Spec

(* Every process has a parent that can still wait for it. *)
THEOREM ParentsLive == Spec => []NoOrphans
<1>1. ProcInv => NoOrphans
  BY ConstAssumption DEF ProcInv, Shape, TreeRight, NoOrphans, Live, Procs
<1> QED BY <1>1, ProcInvariance, PTL

(* wait frees no process that is still on its kernel stack. *)
THEOREM StacksKept == Spec => []StackNotReused
<1>1. ProcInv => StackNotReused
  BY Zenon DEF ProcInv, StateRight, StackNotReused
<1> QED BY <1>1, ProcInvariance, PTL

(* No exit of a child is missed by a parent asleep in wait. *)
THEOREM ExitsSeen == Spec => []NoMissedChild
<1>1. ProcInv => NoMissedChild
  BY Zenon DEF ProcInv, ScanRight, NoMissedChild
<1> QED BY <1>1, ProcInvariance, PTL
=============================================================================
