----------------------------- MODULE SchedProofs ----------------------------
(***************************************************************************)
(* Proofs about module Sched, for any number of CPUs and processes.        *)
(***************************************************************************)
EXTENDS Sched, TLAPS

(* The time that the provers get for a step that does not say otherwise. *)
USE SMTT(20), ZenonT(20)

(* Where a process holds p->lock, where it holds vdisk_lock, where it has  *)
(* interrupts on, and where it will have them on again after pop_off.      *)
HasPlock == {"forkret", "sleep_release", "sleep_state", "sched_sleep", "slept",
             "sched_yield", "yielded"}
HasVlock == {"wait", "sleep_release"}
Open == {"user", "sys", "reacq"}
Reopens == {"sys_spin", "wait", "sleep_release", "sleep_state", "sched_sleep", "reacq_spin"}

(* Locks held by the thread a CPU runs, not counting a handler on top. *)
ProcDepth(x) == IF x \in Open \cup {"yield"} THEN 0 ELSE IF x = "sleep_release" THEN 2 ELSE 1
Depth(c) ==
  IF cur[c] = None THEN IF spc[c] \in {"spin", "back"} THEN 1 ELSE 0
  ELSE ProcDepth(pc[cur[c]])

Shape == TypeOK /\ resume \in [Procs -> Open]

(* A CPU whose scheduler has called swtch has the process to itself, until *)
(* it has released p->lock; a process that no CPU runs waits in swtch.     *)
Places ==
  /\ \A c \in Cpus :
       IF spc[c] = "back"
       THEN /\ cpu[c].proc = target[c] /\ cur[c] \in {None, target[c]}
            /\ cur[c] = None => plock[target[c]] = c
       ELSE cpu[c].proc = None /\ cur[c] = None
  /\ \A c, d \in Cpus : spc[c] = "back" /\ spc[d] = "back" /\ target[c] = target[d] => c = d
  /\ \A p \in Procs : (\A c \in Cpus : cur[c] # p) => pc[p] \in {"forkret", "slept", "yielded"}

(* p->lock is held from swtch to swtch and by nobody else across a step. *)
PlockRight ==
  /\ \A p \in Procs : plock[p] # None => spc[plock[p]] = "back" /\ target[plock[p]] = p
  /\ \A c \in Cpus : cur[c] # None =>
       /\ plock[cur[c]] = c <=> pc[cur[c]] \in HasPlock
       /\ state[cur[c]] = "RUNNING" \/ pc[cur[c]] \in {"sched_sleep", "sched_yield"}

VlockRight ==
  \A c \in Cpus :
    vlock = c <=> \/ hpc[c] \in {"body", "wakeup"}
                  \/ cur[c] # None /\ pc[cur[c]] \in HasVlock

(* noff counts the locks held; interrupts are off while it is not zero; an *)
(* interrupt handler runs on top of a thread that holds none.              *)
IntrRight ==
  /\ \A c \in Cpus :
       /\ cpu[c].noff = Depth(c) + IF hpc[c] \in {"body", "wakeup"} THEN 1 ELSE 0
       /\ hpc[c] # "none" => ~cpu[c].intr /\ Depth(c) = 0
       /\ Depth(c) > 0 => ~cpu[c].intr
       /\ cur[c] # None => /\ hpc[c] = "none" => (cpu[c].intr <=> pc[cur[c]] \in Open)
                           /\ hpc[c] # "none" => pc[cur[c]] # "yield"
                           /\ pc[cur[c]] \in Reopens => cpu[c].intena
  /\ \A p \in Procs : pc[p] = "slept" => saved[p]

HandlerRight ==
  \A c \in Cpus : /\ left[c] # {} => hpc[c] = "wakeup"
                  /\ cpu[c].proc \notin left[c]

(* Who sleeps or is about to is awaited by the device or by a wakeup. *)
SleepersRight ==
  \A p \in Procs :
    /\ state[p] = "SLEEPING" => pc[p] \in {"sched_sleep", "slept"} /\ chan[p] = p
    /\ (pc[p] \in {"sleep_release", "sleep_state"} \/ state[p] = "SLEEPING") /\ ~indisk[p] =>
         \E c \in Cpus : hpc[c] = "wakeup" /\ hchan[c] = p /\ p \in left[c]

SchedInv == Shape /\ Places /\ PlockRight /\ VlockRight /\ IntrRight /\ HandlerRight /\ SleepersRight
-----------------------------------------------------------------------------
(* struct cpu, its interrupt-enable bit included. *)
CpuType == [proc : Procs \cup {None}, noff : Nat, intena : BOOLEAN, intr : BOOLEAN]

(* struct cpu stays well-formed when a field is set, *)
LEMMA CpuSet ==
  ASSUME NEW r \in CpuType, NEW b \in BOOLEAN, NEW p \in Procs \cup {None}
  PROVE  /\ [r EXCEPT !.intr = b] \in CpuType /\ [r EXCEPT !.intena = b] \in CpuType
         /\ [r EXCEPT !.proc = p] \in CpuType /\ TrapReturn(r) \in CpuType
BY Zenon DEF CpuType, TrapReturn

(* by push_off, *)
LEMMA PushOffType == ASSUME NEW r \in CpuType PROVE PushOff(r) \in CpuType
<1> DEFINE i == IF r.noff = 0 THEN r.intr ELSE r.intena
           n == r.noff + 1
<1>1. i \in BOOLEAN
  BY Zenon DEF CpuType
<1>2. n \in Nat
  BY DEF CpuType
<1>3. PushOff(r) = [r EXCEPT !.intr = FALSE, !.intena = i, !.noff = n]
  BY Zenon DEF PushOff, CpuType
<1> HIDE DEF i, n
<1> QED BY <1>1, <1>2, <1>3, Zenon DEF CpuType

(* and by pop_off after a push_off. *)
LEMMA PopOffType == ASSUME NEW r \in CpuType, r.noff > 0 PROVE PopOff(r) \in CpuType
<1> DEFINE i == r.noff = 1 /\ r.intena
           n == r.noff - 1
<1>1. i \in BOOLEAN
  BY Zenon DEF CpuType
<1>2. n \in Nat
  BY DEF CpuType
<1>3. PopOff(r) = [r EXCEPT !.noff = n, !.intr = i]
  BY Zenon DEF PopOff, CpuType
<1> HIDE DEF i, n
<1> QED BY <1>1, <1>2, <1>3, Zenon DEF CpuType

(* noff and the interrupt flags concern only where the threads are. *)
LEMMA IntrSame ==
  ASSUME IntrRight, UNCHANGED <<cpu, hpc, cur, spc, pc, saved>>
  PROVE  IntrRight'
<1>1. \A c \in Cpus : Depth(c)' = Depth(c)
  BY Zenon DEF Depth
<1> QED BY <1>1, ZenonT(30) DEF IntrRight

(* The invariant holds when the CPUs enter scheduler(). *)
LEMMA SchedInit == Init => SchedInv
<1> SUFFICES ASSUME Init PROVE SchedInv
  OBVIOUS
<1> USE ConstAssumption DEF Init
<1>1. Shape
  BY DEF Shape, TypeOK, Open, PCs, States, Procs
<1>2. Places /\ PlockRight /\ VlockRight
  BY Zenon DEF Places, PlockRight, VlockRight
<1>3. IntrRight
  BY DEF IntrRight, Depth
<1>4. HandlerRight /\ SleepersRight
  BY Zenon DEF HandlerRight, SleepersRight
<1> QED BY <1>1, <1>2, <1>3, <1>4, Zenon DEF SchedInv

(* Every step keeps it. *)
LEMMA SchedStepKeeps == SchedInv /\ [Next]_vars => SchedInv'
<1> SUFFICES ASSUME SchedInv, [Next]_vars PROVE SchedInv'
  OBVIOUS
<1>c. None \notin Cpus /\ None \notin Procs /\ 1 \in Procs
  BY ConstAssumption DEF Procs
<1>i. Shape /\ Places /\ PlockRight /\ VlockRight /\ IntrRight /\ HandlerRight /\ SleepersRight
  BY Zenon DEF SchedInv
<1>d. \A c \in Cpus : hpc[c] = "none" =>
        /\ cur[c] = None /\ spc[c] \in {"spin", "back"} => cpu[c].noff = 1
        /\ cur[c] # None => cpu[c].noff = ProcDepth(pc[cur[c]])
  <2> SUFFICES ASSUME NEW c \in Cpus, hpc[c] = "none" PROVE
        /\ cur[c] = None /\ spc[c] \in {"spin", "back"} => cpu[c].noff = 1
        /\ cur[c] # None => cpu[c].noff = ProcDepth(pc[cur[c]])
    OBVIOUS
  <2>1. cpu[c].noff = Depth(c) + 0
    BY <1>i, Zenon DEF IntrRight
  <2>2. ProcDepth(pc[cur[c]]) \in Nat
    BY Zenon DEF ProcDepth
  <2> QED BY <2>1, <2>2 DEF Depth
<1>e. \A c, d \in Cpus : cur[c] # None /\ cur[c] = cur[d] => c = d
  BY <1>i, Zenon DEF Places
<1>f. ASSUME NEW p \in Procs, plock[p] = None
      PROVE  /\ state[p] # "RUNNING" => pc[p] \in {"forkret", "slept", "yielded"}
             /\ pc[p] \notin {"sleep_release", "sleep_state"}
  <2>1. CASE \E d \in Cpus : cur[d] = p
    <3>1. PICK d \in Cpus : cur[d] = p
      BY <2>1, Zenon
    <3>2. plock[p] # d /\ cur[d] # None
      BY <3>1, <1>f, <1>c, Zenon
    <3> QED BY <3>1, <3>2, <1>i, Zenon DEF PlockRight, HasPlock
  <2>2. CASE \A d \in Cpus : cur[d] # p
    BY <2>2, <1>i, Zenon DEF Places
  <2> QED BY <2>1, <2>2, Zenon
<1>a. \A c \in Cpus : (target[c] % NPROC) + 1 \in Procs
  BY <1>i, ConstAssumption DEF Shape, TypeOK, Procs
<1> USE DEF procs, device, handler, scheds, Shape, TypeOK, PCs, States, Open, Reopens, HasPlock,
        HasVlock, ProcDepth, InKernel, InScheduler, Runs, Goto
<1>1. ASSUME NEW c \in Cpus, SchedIntrOn(c) PROVE SchedInv'
  <2>1. Shape'
    <3>1. cpu[c] \in CpuType /\ DOMAIN cpu = Cpus
      BY <1>i, Zenon DEF CpuType
    <3>3. cpu'[c] \in CpuType
      BY <3>1, <1>1, CpuSet, Zenon DEF SchedIntrOn
    <3>4. cpu' \in [Cpus -> CpuType]
      BY <3>1, <3>3, <1>1, <1>i, Zenon DEF SchedIntrOn, CpuType
    <3> QED BY <3>4, <1>1, <1>i, <1>c, Zenon DEF SchedIntrOn, CpuType
  <2>2. (Places /\ PlockRight)'
    BY <1>1, <1>i, <1>c DEF SchedIntrOn, Places, PlockRight
  <2>4. VlockRight'
    BY <1>1, <1>i, <1>c, Zenon DEF SchedIntrOn, Places, VlockRight, IntrRight, Depth
  <2>5. IntrRight'
    BY <1>1, <1>i, <1>c DEF SchedIntrOn, Places, IntrRight, Depth
  <2>6. (HandlerRight /\ SleepersRight)'
    BY <1>1, <1>i, <1>c DEF SchedIntrOn, Places, HandlerRight, PlockRight, SleepersRight
  <2> QED BY <2>1, <2>2, <2>4, <2>5, <2>6, Zenon DEF SchedInv
<1>2. ASSUME NEW c \in Cpus, SchedSpin(c) PROVE SchedInv'
  <2>1. Shape'
    <3>1. cpu[c] \in CpuType /\ DOMAIN cpu = Cpus
      BY <1>i, Zenon DEF CpuType
    <3>3. cpu'[c] \in CpuType
      BY <3>1, <1>2, PushOffType, Zenon DEF SchedSpin
    <3>4. cpu' \in [Cpus -> CpuType]
      BY <3>1, <3>3, <1>2, <1>i, Zenon DEF SchedSpin, CpuType
    <3> QED BY <3>4, <1>2, <1>i, <1>c, Zenon DEF SchedSpin, CpuType
  <2>2. (Places /\ PlockRight)'
    BY <1>2, <1>i, <1>c DEF SchedSpin, PushOff, Places, PlockRight
  <2>4. VlockRight'
    BY <1>2, <1>i, <1>c, Zenon DEF SchedSpin, PushOff, Places, VlockRight, IntrRight, Depth
  <2>5. IntrRight'
    BY <1>2, <1>i, <1>c DEF SchedSpin, PushOff, Places, IntrRight, Depth
  <2>6. (HandlerRight /\ SleepersRight)'
    BY <1>2, <1>i, <1>c DEF SchedSpin, PushOff, Places, HandlerRight, PlockRight, SleepersRight
  <2> QED BY <2>1, <2>2, <2>4, <2>5, <2>6, Zenon DEF SchedInv
<1>3. ASSUME NEW c \in Cpus, SchedRun(c) PROVE SchedInv'
  <2>1. Shape'
    <3>1. cpu[c] \in CpuType /\ DOMAIN cpu = Cpus
      BY <1>i, Zenon DEF CpuType
    <3>0. target[c] \in Procs
      BY <1>i, Zenon
    <3>3. cpu'[c] \in CpuType
      BY <3>1, <3>0, <1>3, CpuSet, Zenon DEF SchedRun
    <3>4. cpu' \in [Cpus -> CpuType]
      BY <3>1, <3>3, <1>3, <1>i, Zenon DEF SchedRun, CpuType
    <3> QED BY <3>4, <1>3, <1>i, <1>c, Zenon DEF SchedRun, CpuType
  <2>8. /\ target[c] \in Procs /\ plock[target[c]] = None /\ state[target[c]] = "RUNNABLE"
        /\ cur[c] = None /\ spc[c] = "spin" /\ hpc[c] = "none"
        /\ cur' = [cur EXCEPT ![c] = target[c]] /\ spc' = [spc EXCEPT ![c] = "back"]
        /\ plock' = [plock EXCEPT ![target[c]] = c]
        /\ state' = [state EXCEPT ![target[c]] = "RUNNING"]
        /\ UNCHANGED <<pc, vlock, target, saved, hpc>>
    BY <1>3, <1>i, Zenon DEF SchedRun
  <2>9. pc[target[c]] \in {"forkret", "slept", "yielded"}
    BY <2>8, <1>f, Zenon
  <2>10. \A d \in Cpus : spc[d] = "back" => target[d] # target[c]
    BY <2>8, <1>i, <1>c, SMTT(30) DEF Places, PlockRight
  <2>2. Places'
    BY <1>3, <2>8, <2>10, <1>i, <1>c DEF SchedRun, Places
  <2>3. PlockRight'
    BY <2>8, <2>9, <2>10, <1>i, <1>c DEF Places, PlockRight
  <2>4. VlockRight'
    BY <2>8, <2>9, <1>i, <1>c DEF VlockRight
  <2>5. IntrRight'
    <3>1. /\ cpu'[c].noff = 1 /\ ~cpu'[c].intr /\ hpc[c] = "none"
          /\ \A d \in Cpus \ {c} : cpu'[d] = cpu[d] /\ spc'[d] = spc[d]
      BY <1>3, <1>i, <1>d DEF SchedRun, Places, IntrRight, Depth
    <3> QED BY <2>8, <2>9, <3>1, <1>3, <1>i, <1>c DEF SchedRun, Places, IntrRight, Depth
  <2>6. (HandlerRight /\ SleepersRight)'
    BY <1>3, <1>i, <1>c DEF SchedRun, Places, HandlerRight, PlockRight, SleepersRight
  <2> QED BY <2>1, <2>2, <2>3, <2>4, <2>5, <2>6, Zenon DEF SchedInv
<1>4. ASSUME NEW c \in Cpus, SchedSkip(c) PROVE SchedInv'
  <2>1. Shape'
    <3>1. cpu[c] \in CpuType /\ DOMAIN cpu = Cpus
      BY <1>i, Zenon DEF CpuType
    <3>2. cpu[c].noff > 0
      BY <1>4, <1>d, <1>c DEF SchedSkip, SchedAdvance
    <3>3. cpu'[c] \in CpuType
      BY <3>1, <3>2, <1>4, PopOffType, CpuSet, Zenon DEF SchedSkip
    <3>4. cpu' \in [Cpus -> CpuType]
      BY <3>1, <3>3, <1>4, <1>i, Zenon DEF SchedSkip, CpuType
    <3> QED BY <3>4, <1>4, <1>i, <1>c, <1>a, Zenon DEF SchedSkip, SchedAdvance, CpuType
  <2>2. (Places /\ PlockRight)'
    BY <1>4, <1>i, <1>c, <1>a DEF SchedSkip, SchedAdvance, PopOff, Places, PlockRight
  <2>4. VlockRight'
    BY <1>4, <1>i, <1>c, <1>a, Zenon DEF SchedSkip, SchedAdvance, PopOff, Places, VlockRight,
       IntrRight, Depth
  <2>5. IntrRight'
    BY <1>4, <1>i, <1>c, <1>a DEF SchedSkip, SchedAdvance, PopOff, Places, IntrRight, Depth
  <2>6. (HandlerRight /\ SleepersRight)'
    BY <1>4, <1>i, <1>c, <1>a DEF SchedSkip, SchedAdvance, PopOff, Places, HandlerRight,
       PlockRight, SleepersRight
  <2> QED BY <2>1, <2>2, <2>4, <2>5, <2>6, Zenon DEF SchedInv
<1>5. ASSUME NEW c \in Cpus, SchedBack(c) PROVE SchedInv'
  <2>1. Shape'
    <3>1. cpu[c] \in CpuType /\ DOMAIN cpu = Cpus
      BY <1>i, Zenon DEF CpuType
    <3>2. cpu[c].noff > 0
      BY <1>5, <1>d, <1>c DEF SchedBack, SchedAdvance
    <3>5. [cpu[c] EXCEPT !.proc = None] \in CpuType /\ [cpu[c] EXCEPT !.proc = None].noff > 0
      BY <3>1, <3>2, CpuSet, Zenon DEF CpuType
    <3>3. cpu'[c] \in CpuType
      BY <3>1, <3>2, <3>5, <1>5, PopOffType, CpuSet, Zenon DEF SchedBack
    <3>4. cpu' \in [Cpus -> CpuType]
      BY <3>1, <3>3, <1>5, <1>i, Zenon DEF SchedBack, CpuType
    <3> QED BY <3>4, <1>5, <1>i, <1>c, <1>a, Zenon DEF SchedBack, SchedAdvance, CpuType
  <2>2. (Places /\ PlockRight)'
    BY <1>5, <1>i, <1>c, <1>a DEF SchedBack, SchedAdvance, PopOff, Places, PlockRight
  <2>4. VlockRight'
    BY <1>5, <1>i, <1>c, <1>a, Zenon DEF SchedBack, SchedAdvance, PopOff, Places, VlockRight,
       IntrRight, Depth
  <2>5. IntrRight'
    BY <1>5, <1>i, <1>c, <1>a DEF SchedBack, SchedAdvance, PopOff, Places, IntrRight, Depth
  <2>6. (HandlerRight /\ SleepersRight)'
    BY <1>5, <1>i, <1>c, <1>a DEF SchedBack, SchedAdvance, PopOff, Places, HandlerRight,
       PlockRight, SleepersRight
  <2> QED BY <2>1, <2>2, <2>4, <2>5, <2>6, Zenon DEF SchedInv
<1>6. ASSUME NEW c \in Cpus, TimerIntr(c) PROVE SchedInv'
  <2>8. cur[c] # None /\ cpu[c].proc = cur[c] /\ cur[c] \in Procs /\ pc[cur[c]] \in Open /\ hpc[c] = "none"
    BY <1>6, <1>i, <1>c DEF TimerIntr, Places, PlockRight, IntrRight, Depth
  <2>9. /\ pc' = [pc EXCEPT ![cur[c]] = "yield"]
        /\ resume' = [resume EXCEPT ![cur[c]] = pc[cur[c]]]
        /\ UNCHANGED <<state, chan, indisk, plock, vlock, cur, spc, target, hpc>>
    BY <1>6, <2>8, Zenon DEF TimerIntr
  <2>1. Shape'
    <3>1. cpu[c] \in CpuType /\ DOMAIN cpu = Cpus
      BY <1>i, Zenon DEF CpuType
    <3>3. cpu'[c] \in CpuType
      BY <3>1, <1>6, CpuSet, Zenon DEF TimerIntr
    <3>4. cpu' \in [Cpus -> CpuType]
      BY <3>1, <3>3, <1>6, <1>i, Zenon DEF TimerIntr, CpuType
    <3> QED BY <3>4, <2>8, <2>9, <1>6, <1>i, <1>c DEF TimerIntr, CpuType
  <2>2. Places'
    BY <2>8, <2>9, <1>6, <1>i, <1>c DEF TimerIntr, Places
  <2>3. PlockRight'
    BY <2>8, <2>9, <1>i, <1>c, <1>e DEF Places, PlockRight
  <2>4. VlockRight'
    BY <2>8, <2>9, <1>i, <1>c, <1>e DEF VlockRight
  <2>5. IntrRight'
    BY <1>6, <1>i, <1>c DEF TimerIntr, Places, IntrRight, Depth
  <2>6. (HandlerRight /\ SleepersRight)'
    BY <1>6, <1>i, <1>c DEF TimerIntr, Places, HandlerRight, PlockRight, SleepersRight
  <2> QED BY <2>1, <2>2, <2>3, <2>4, <2>5, <2>6, Zenon DEF SchedInv
<1>7. ASSUME NEW c \in Cpus, DevIntr(c) PROVE SchedInv'
  <2>1. Shape'
    <3>1. cpu[c] \in CpuType /\ DOMAIN cpu = Cpus
      BY <1>i, Zenon DEF CpuType
    <3>3. cpu'[c] \in CpuType
      BY <3>1, <1>7, CpuSet, Zenon DEF DevIntr
    <3>4. cpu' \in [Cpus -> CpuType]
      BY <3>1, <3>3, <1>7, <1>i, Zenon DEF DevIntr, CpuType
    <3> QED BY <3>4, <1>7, <1>i, <1>c, Zenon DEF DevIntr, CpuType
  <2>2. (Places /\ PlockRight)'
    BY <1>7, <1>i, <1>c DEF DevIntr, Places, PlockRight
  <2>4. VlockRight'
    BY <1>7, <1>i, <1>c DEF DevIntr, Places, VlockRight, IntrRight, Depth
  <2>5. IntrRight'
    BY <1>7, <1>i, <1>c DEF DevIntr, Places, IntrRight, Depth
  <2>6. (HandlerRight /\ SleepersRight)'
    BY <1>7, <1>i, <1>c, Zenon DEF DevIntr, Places, HandlerRight, PlockRight, SleepersRight
  <2> QED BY <2>1, <2>2, <2>4, <2>5, <2>6, Zenon DEF SchedInv
<1>8. ASSUME NEW c \in Cpus, IntrAcquire(c) PROVE SchedInv'
  <2>1. Shape'
    <3>1. cpu[c] \in CpuType /\ DOMAIN cpu = Cpus
      BY <1>i, Zenon DEF CpuType
    <3>3. cpu'[c] \in CpuType
      BY <3>1, <1>8, PushOffType, Zenon DEF IntrAcquire
    <3>4. cpu' \in [Cpus -> CpuType]
      BY <3>1, <3>3, <1>8, <1>i, Zenon DEF IntrAcquire, CpuType
    <3> QED BY <3>4, <1>8, <1>i, <1>c, Zenon DEF IntrAcquire, CpuType
  <2>2. (Places /\ PlockRight)'
    BY <1>8, <1>i, <1>c DEF IntrAcquire, PushOff, Places, PlockRight
  <2>4. VlockRight'
    BY <1>8, <1>i, <1>c DEF IntrAcquire, PushOff, Places, VlockRight, IntrRight, Depth
  <2>5. IntrRight'
    BY <1>8, <1>i, <1>c DEF IntrAcquire, PushOff, Places, IntrRight, Depth
  <2>6. (HandlerRight /\ SleepersRight)'
    BY <1>8, <1>i, <1>c DEF IntrAcquire, PushOff, Places, HandlerRight, PlockRight,
       SleepersRight
  <2> QED BY <2>1, <2>2, <2>4, <2>5, <2>6, Zenon DEF SchedInv
<1>9. ASSUME NEW c \in Cpus, NEW p \in Procs, IntrBody(c, p) PROVE SchedInv'
  <2>1. Shape'
    BY <1>9, <1>i, <1>c, Zenon DEF IntrBody
  <2>2. (Places /\ PlockRight)'
    BY <1>9, <1>i, <1>c DEF IntrBody, Places, PlockRight
  <2>4. VlockRight'
    BY <1>9, <1>i, <1>c DEF IntrBody, Places, VlockRight, IntrRight, Depth
  <2>5. IntrRight'
    BY <1>9, <1>i, <1>c DEF IntrBody, Places, IntrRight, Depth
  <2>6. HandlerRight'
    BY <1>9, <1>i, <1>c DEF IntrBody, Places, HandlerRight
  <2>7. SleepersRight'
    <3>1. p # cpu[c].proc \/ ~(pc[p] \in {"sleep_release", "sleep_state"} \/ state[p] = "SLEEPING")
      <4>1. hpc[c] # "none" /\ Depth(c) = 0
        BY <1>9, <1>i, Zenon DEF IntrBody, IntrRight
      <4>2. CASE p = cpu[c].proc
        <5>1. spc[c] = "back" /\ cur[c] = p
          BY <4>1, <4>2, <1>i, <1>c DEF Places, Depth
        <5> QED BY <4>1, <5>1, <1>i, <1>c DEF Depth, PlockRight
      <4> QED BY <4>2, Zenon
    <3>2. /\ hpc'[c] = "wakeup" /\ hchan'[c] = p /\ left'[c] = Procs \ {cpu[c].proc}
          /\ hpc[c] = "body" /\ \A q \in Procs : q # p => indisk'[q] = indisk[q]
          /\ \A d \in Cpus \ {c} : hpc'[d] = hpc[d] /\ hchan'[d] = hchan[d] /\ left'[d] = left[d]
          /\ UNCHANGED <<state, chan, pc>>
      BY <1>9, <1>i DEF IntrBody
    <3>3. p # cpu[c].proc => p \in left'[c]
      BY <3>2, Zenon
    <3>4. \A q \in Procs : (state'[q] = state[q] /\ chan'[q] = chan[q] /\ pc'[q] = pc[q])
      BY <3>2, Zenon
    <3>5. ASSUME NEW q \in Procs \ {p}, \E d \in Cpus : hpc[d] = "wakeup" /\ hchan[d] = q /\ q \in left[d]
          PROVE  \E d \in Cpus : hpc'[d] = "wakeup" /\ hchan'[d] = q /\ q \in left'[d]
      BY <3>2, <3>5, Zenon
    <3> QED BY <3>1, <3>2, <3>3, <3>4, <3>5, <1>i DEF SleepersRight
  <2> QED BY <2>1, <2>2, <2>4, <2>5, <2>6, <2>7, Zenon DEF SchedInv
<1>10. ASSUME NEW c \in Cpus, WakeupDone(c) PROVE SchedInv'
  <2>1. Shape'
    BY <1>10, <1>i, <1>c, Zenon DEF WakeupDone
  <2>2. (Places /\ PlockRight)'
    BY <1>10, <1>i, <1>c DEF WakeupDone, Places, PlockRight
  <2>4. VlockRight'
    BY <1>10, <1>i, <1>c DEF WakeupDone, Places, VlockRight, IntrRight, Depth
  <2>5. IntrRight'
    BY <1>10, <1>i, <1>c DEF WakeupDone, Places, IntrRight, Depth
  <2>6. (HandlerRight /\ SleepersRight)'
    BY <1>10, <1>i, <1>c DEF WakeupDone, Places, HandlerRight, PlockRight, SleepersRight
  <2> QED BY <2>1, <2>2, <2>4, <2>5, <2>6, Zenon DEF SchedInv
<1>11. ASSUME NEW c \in Cpus, IntrReturn(c) PROVE SchedInv'
  <2>1. Shape'
    <3>1. cpu[c] \in CpuType /\ DOMAIN cpu = Cpus
      BY <1>i, Zenon DEF CpuType
    <3>2. cpu[c].noff > 0
      BY <1>11, <1>i, <1>c DEF IntrReturn, IntrRight
    <3>3. cpu'[c] \in CpuType
      BY <3>1, <3>2, <1>11, PopOffType, CpuSet, Zenon DEF IntrReturn
    <3>4. cpu' \in [Cpus -> CpuType]
      BY <3>1, <3>3, <1>11, <1>i, Zenon DEF IntrReturn, CpuType
    <3> QED BY <3>4, <1>11, <1>i, <1>c, Zenon DEF IntrReturn, CpuType
  <2>2. (Places /\ PlockRight)'
    BY <1>11, <1>i, <1>c DEF IntrReturn, PopOff, TrapReturn, Places, PlockRight
  <2>4. VlockRight'
    BY <1>11, <1>i, <1>c DEF IntrReturn, PopOff, TrapReturn, Places, VlockRight, IntrRight,
       Depth
  <2>5. IntrRight'
    BY <1>11, <1>i, <1>c DEF IntrReturn, PopOff, TrapReturn, Places, IntrRight, Depth
  <2>6. (HandlerRight /\ SleepersRight)'
    BY <1>11, <1>i, <1>c DEF IntrReturn, PopOff, TrapReturn, Places, HandlerRight,
       PlockRight, SleepersRight
  <2> QED BY <2>1, <2>2, <2>4, <2>5, <2>6, Zenon DEF SchedInv
<1>12. ASSUME NEW c \in Cpus, NEW p \in Procs, Syscall(c, p) PROVE SchedInv'
  <2>1. Shape'
    BY <1>12, <1>i, <1>c, Zenon DEF Syscall
  <2>2. (Places /\ PlockRight)'
    BY <1>12, <1>i, <1>c DEF Syscall, Places, PlockRight
  <2>4. VlockRight'
    BY <1>12, <1>i, <1>c DEF Syscall, Places, VlockRight, IntrRight, Depth
  <2>5. IntrRight'
    BY <1>12, <1>i, <1>c DEF Syscall, Places, IntrRight, Depth
  <2>6. (HandlerRight /\ SleepersRight)'
    BY <1>12, <1>i, <1>c DEF Syscall, Places, HandlerRight, PlockRight, SleepersRight
  <2> QED BY <2>1, <2>2, <2>4, <2>5, <2>6, Zenon DEF SchedInv
<1>13. ASSUME NEW c \in Cpus, NEW p \in Procs, SpinVlock(c, p) PROVE SchedInv'
  <2>1. Shape'
    <3>1. cpu[c] \in CpuType /\ DOMAIN cpu = Cpus
      BY <1>i, Zenon DEF CpuType
    <3>3. cpu'[c] \in CpuType
      BY <3>1, <1>13, PushOffType, Zenon DEF SpinVlock
    <3>4. cpu' \in [Cpus -> CpuType]
      BY <3>1, <3>3, <1>13, <1>i, Zenon DEF SpinVlock, CpuType
    <3>5. pc' \in [Procs -> PCs]
      <4>1. \A x \in PCs : [pc EXCEPT ![p] = x] \in [Procs -> PCs]
        BY <1>i, Zenon
      <4> QED BY <4>1, <1>13, Zenon DEF SpinVlock
    <3> QED BY <3>4, <3>5, <1>13, <1>i, Zenon DEF SpinVlock, CpuType
  <2>8. /\ state[p] = "RUNNING" /\ cur[c] = p /\ pc[p] \in {"sys", "reacq"}
        /\ pc' \in {[pc EXCEPT ![p] = "sys_spin"], [pc EXCEPT ![p] = "reacq_spin"]}
    BY <1>13, <1>i, <1>c DEF SpinVlock, PlockRight
  <2>9. /\ UNCHANGED <<state, chan, plock, cur, spc, target, indisk, hpc, hchan, left>>
        /\ cpu'[c].proc = cpu[c].proc /\ \A d \in Cpus \ {c} : cpu'[d] = cpu[d]
    BY <1>13, <1>i DEF SpinVlock, PushOff
  <2>10. ASSUME NEW q \in Procs
         PROVE  pc'[q] = pc[q] \/ (q = p /\ pc'[q] \in {"sys_spin", "reacq_spin"})
    BY <2>8, <1>i
  <2>2. Places'
    BY <2>8, <2>9, <2>10, <1>i DEF Places
  <2>3. PlockRight'
    BY <2>8, <2>9, <2>10, <1>i, <1>c DEF PlockRight
  <2>4. VlockRight'
    BY <1>13, <1>i, <1>c DEF SpinVlock, PushOff, Places, VlockRight, IntrRight, Depth
  <2>5. IntrRight'
    BY <1>13, <1>i, <1>c DEF SpinVlock, PushOff, Places, IntrRight, Depth
  <2>6. HandlerRight'
    BY <1>13, <1>i, <1>c DEF SpinVlock, PushOff, Places, HandlerRight
  <2>7. SleepersRight'
    BY <2>8, <2>9, <2>10, <1>i, Zenon DEF Places, PlockRight, HandlerRight, SleepersRight
  <2> QED BY <2>1, <2>2, <2>3, <2>4, <2>5, <2>6, <2>7, Zenon DEF SchedInv
<1>14. ASSUME NEW c \in Cpus, NEW p \in Procs, Forkret(c, p) PROVE SchedInv'
  <2>1. Shape'
    <3>1. cpu[c] \in CpuType /\ DOMAIN cpu = Cpus
      BY <1>i, Zenon DEF CpuType
    <3>2. cpu[c].noff > 0
      BY <1>14, <1>d, <1>c DEF Forkret
    <3>3. cpu'[c] \in CpuType
      BY <3>1, <3>2, <1>14, PopOffType, CpuSet, Zenon DEF Forkret
    <3>4. cpu' \in [Cpus -> CpuType]
      BY <3>1, <3>3, <1>14, <1>i, Zenon DEF Forkret, CpuType
    <3> QED BY <3>4, <1>14, <1>i, <1>c, Zenon DEF Forkret, CpuType
  <2>2. (Places /\ PlockRight)'
    BY <1>14, <1>i, <1>c DEF Forkret, PopOff, TrapReturn, Places, PlockRight
  <2>4. VlockRight'
    BY <1>14, <1>i, <1>c DEF Forkret, PopOff, TrapReturn, Places, VlockRight, IntrRight, Depth
  <2>5. IntrRight'
    BY <1>14, <1>i, <1>c DEF Forkret, PopOff, TrapReturn, Places, IntrRight, Depth
  <2>6. (HandlerRight /\ SleepersRight)'
    BY <1>14, <1>i, <1>c DEF Forkret, PopOff, TrapReturn, Places, HandlerRight, PlockRight,
       SleepersRight
  <2> QED BY <2>1, <2>2, <2>4, <2>5, <2>6, Zenon DEF SchedInv
<1>15. ASSUME NEW c \in Cpus, NEW p \in Procs, Submit(c, p) PROVE SchedInv'
  <2>1. Shape'
    BY <1>15, <1>i, <1>c, Zenon DEF Submit
  <2>2. (Places /\ PlockRight)'
    BY <1>15, <1>i, <1>c DEF Submit, Places, PlockRight
  <2>4. VlockRight'
    BY <1>15, <1>i, <1>c DEF Submit, Places, VlockRight, IntrRight, Depth
  <2>5. IntrRight'
    BY <1>15, <1>i, <1>c DEF Submit, Places, IntrRight, Depth
  <2>6. (HandlerRight /\ SleepersRight)'
    BY <1>15, <1>i, <1>c DEF Submit, Places, HandlerRight, PlockRight, SleepersRight
  <2> QED BY <2>1, <2>2, <2>4, <2>5, <2>6, Zenon DEF SchedInv
<1>16. ASSUME NEW c \in Cpus, NEW p \in Procs, Reacquired(c, p) PROVE SchedInv'
  <2>1. Shape'
    BY <1>16, <1>i, <1>c, Zenon DEF Reacquired
  <2>2. (Places /\ PlockRight)'
    BY <1>16, <1>i, <1>c DEF Reacquired, Places, PlockRight
  <2>4. VlockRight'
    BY <1>16, <1>i, <1>c DEF Reacquired, Places, VlockRight, IntrRight, Depth
  <2>5. IntrRight'
    BY <1>16, <1>i, <1>c DEF Reacquired, Places, IntrRight, Depth
  <2>6. (HandlerRight /\ SleepersRight)'
    BY <1>16, <1>i, <1>c DEF Reacquired, Places, HandlerRight, PlockRight, SleepersRight
  <2> QED BY <2>1, <2>2, <2>4, <2>5, <2>6, Zenon DEF SchedInv
<1>17. ASSUME NEW c \in Cpus, NEW p \in Procs, RwReturn(c, p) PROVE SchedInv'
  <2>1. Shape'
    <3>1. cpu[c] \in CpuType /\ DOMAIN cpu = Cpus
      BY <1>i, Zenon DEF CpuType
    <3>2. cpu[c].noff > 0
      BY <1>17, <1>d, <1>c DEF RwReturn
    <3>3. cpu'[c] \in CpuType
      BY <3>1, <3>2, <1>17, PopOffType, CpuSet, Zenon DEF RwReturn
    <3>4. cpu' \in [Cpus -> CpuType]
      BY <3>1, <3>3, <1>17, <1>i, Zenon DEF RwReturn, CpuType
    <3> QED BY <3>4, <1>17, <1>i, <1>c, Zenon DEF RwReturn, CpuType
  <2>2. (Places /\ PlockRight)'
    BY <1>17, <1>i, <1>c DEF RwReturn, PopOff, TrapReturn, Places, PlockRight
  <2>4. VlockRight'
    BY <1>17, <1>i, <1>c, SMTT(30) DEF RwReturn, PopOff, TrapReturn, Places, VlockRight, IntrRight, Depth
  <2>5. IntrRight'
    BY <1>17, <1>i, <1>c DEF RwReturn, PopOff, TrapReturn, Places, IntrRight, Depth
  <2>6. (HandlerRight /\ SleepersRight)'
    BY <1>17, <1>i, <1>c DEF RwReturn, PopOff, TrapReturn, Places, HandlerRight, PlockRight,
       SleepersRight
  <2> QED BY <2>1, <2>2, <2>4, <2>5, <2>6, Zenon DEF SchedInv
<1>18. ASSUME NEW c \in Cpus, NEW p \in Procs, SleepAcquire(c, p) PROVE SchedInv'
  <2>1. Shape'
    <3>1. cpu[c] \in CpuType /\ DOMAIN cpu = Cpus
      BY <1>i, Zenon DEF CpuType
    <3>3. cpu'[c] \in CpuType
      BY <3>1, <1>18, PushOffType, Zenon DEF SleepAcquire
    <3>4. cpu' \in [Cpus -> CpuType]
      BY <3>1, <3>3, <1>18, <1>i, Zenon DEF SleepAcquire, CpuType
    <3> QED BY <3>4, <1>18, <1>i, <1>c, Zenon DEF SleepAcquire, CpuType
  <2>2. (Places /\ PlockRight)'
    BY <1>18, <1>i, <1>c DEF SleepAcquire, PushOff, Places, PlockRight
  <2>4. VlockRight'
    BY <1>18, <1>i, <1>c DEF SleepAcquire, PushOff, Places, VlockRight, IntrRight, Depth
  <2>5. IntrRight'
    <3>1. /\ pc[p] = "wait" /\ cur[c] = p /\ hpc[c] = "none" /\ pc' = [pc EXCEPT ![p] = "sleep_release"]
          /\ UNCHANGED <<cur, spc, hpc, saved>>
      BY <1>18, Zenon DEF SleepAcquire
    <3>2. cpu[c].noff = 1
      BY <3>1, <1>c, <1>d, Zenon DEF Places, IntrRight, Depth
    <3>4. cpu[c].intena
      BY <3>1, <1>i, <1>c DEF Places, IntrRight, Depth
    <3>3. /\ cpu'[c].noff = 2 /\ cpu'[c].intena /\ ~cpu'[c].intr
          /\ \A d \in Cpus \ {c} : cpu'[d] = cpu[d]
      BY <3>2, <3>4, <1>18, <1>i DEF SleepAcquire, PushOff
    <3>5. \A d \in Cpus \ {c} : cur'[d] # None => pc'[cur'[d]] = pc[cur[d]]
      BY <3>1, <1>i, <1>e
    <3>6. \A q \in Procs : pc'[q] = "slept" => saved'[q]
      BY <3>1, <1>i DEF IntrRight
    <3>7. Depth(c)' = 2 /\ pc'[cur'[c]] = "sleep_release" /\ hpc'[c] = "none"
      BY <3>1, <1>i, <1>c DEF Depth
    <3>8. \A d \in Cpus \ {c} : Depth(d)' = Depth(d)
      BY <3>1, <3>5, Zenon DEF Depth
    <3>9. \A d \in Cpus \ {c} : cpu'[d] = cpu[d] /\ cur'[d] = cur[d] /\ hpc'[d] = hpc[d]
      BY <3>1, <3>3, Zenon
    <3>10. ASSUME NEW d \in Cpus
           PROVE  (/\ cpu[d].noff = Depth(d) + IF hpc[d] \in {"body", "wakeup"} THEN 1 ELSE 0
                   /\ hpc[d] # "none" => ~cpu[d].intr /\ Depth(d) = 0
                   /\ Depth(d) > 0 => ~cpu[d].intr
                   /\ cur[d] # None => /\ hpc[d] = "none" => (cpu[d].intr <=> pc[cur[d]] \in Open)
                                       /\ hpc[d] # "none" => pc[cur[d]] # "yield"
                                       /\ pc[cur[d]] \in Reopens => cpu[d].intena)'
      <4>1. CASE d = c
        BY <4>1, <3>3, <3>7
      <4>2. CASE d # c
        BY <4>2, <3>5, <3>8, <3>9, <1>i, SMTT(30) DEF IntrRight
      <4> QED BY <4>1, <4>2, Zenon
    <3> QED BY <3>6, <3>10, Zenon DEF IntrRight
  <2>6. (HandlerRight /\ SleepersRight)'
    BY <1>18, <1>i, <1>c DEF SleepAcquire, PushOff, Places, HandlerRight, PlockRight,
       SleepersRight
  <2> QED BY <2>1, <2>2, <2>4, <2>5, <2>6, Zenon DEF SchedInv
<1>19. ASSUME NEW c \in Cpus, NEW p \in Procs, SleepRelease(c, p) PROVE SchedInv'
  <2>1. Shape'
    <3>1. cpu[c] \in CpuType /\ DOMAIN cpu = Cpus
      BY <1>i, Zenon DEF CpuType
    <3>2. cpu[c].noff > 0
      BY <1>19, <1>d, <1>c DEF SleepRelease
    <3>3. cpu'[c] \in CpuType
      BY <3>1, <3>2, <1>19, PopOffType, CpuSet, Zenon DEF SleepRelease
    <3>4. cpu' \in [Cpus -> CpuType]
      BY <3>1, <3>3, <1>19, <1>i, Zenon DEF SleepRelease, CpuType
    <3> QED BY <3>4, <1>19, <1>i, <1>c, Zenon DEF SleepRelease, CpuType
  <2>2. (Places /\ PlockRight)'
    BY <1>19, <1>i, <1>c DEF SleepRelease, PopOff, Places, PlockRight
  <2>4. VlockRight'
    BY <1>19, <1>i, <1>c, SMTT(30) DEF SleepRelease, PopOff, Places, VlockRight, IntrRight, Depth
  <2>5. IntrRight'
    BY <1>19, <1>i, <1>c DEF SleepRelease, PopOff, Places, IntrRight, Depth
  <2>6. (HandlerRight /\ SleepersRight)'
    BY <1>19, <1>i, <1>c DEF SleepRelease, PopOff, Places, HandlerRight, PlockRight,
       SleepersRight
  <2> QED BY <2>1, <2>2, <2>4, <2>5, <2>6, Zenon DEF SchedInv
<1>20. ASSUME NEW c \in Cpus, NEW p \in Procs, SleepState(c, p) PROVE SchedInv'
  <2>1. Shape'
    BY <1>20, <1>i, <1>c, Zenon DEF SleepState
  <2>2. (Places /\ PlockRight)'
    BY <1>20, <1>i, <1>c, SMTT(30) DEF SleepState, Places, PlockRight
  <2>4. VlockRight'
    BY <1>20, <1>i, <1>c, SMTT(30) DEF SleepState, Places, VlockRight, IntrRight, Depth
  <2>5. IntrRight'
    <3>1. /\ cur[c] = p /\ pc[p] = "sleep_state" /\ pc' = [pc EXCEPT ![p] = "sched_sleep"]
          /\ UNCHANGED <<cpu, cur, spc, hpc, saved>>
      BY <1>20, Zenon DEF SleepState
    <3> QED BY <3>1, <1>i, <1>c, <1>e, SMTT(30) DEF IntrRight, Depth
  <2>6. (HandlerRight /\ SleepersRight)'
    BY <1>20, <1>i, <1>c, SMTT(30) DEF SleepState, Places, HandlerRight, PlockRight, SleepersRight
  <2> QED BY <2>1, <2>2, <2>4, <2>5, <2>6, Zenon DEF SchedInv
<1>21. ASSUME NEW c \in Cpus, NEW p \in Procs, SchedOut(c, p) PROVE SchedInv'
  <2>8. /\ cur[c] = p /\ cur' = [cur EXCEPT ![c] = None] /\ pc[p] \in {"sched_sleep", "sched_yield"}
        /\ pc' \in {[pc EXCEPT ![p] = "slept"], [pc EXCEPT ![p] = "yielded"]}
        /\ UNCHANGED <<state, chan, resume, plock, vlock, cpu, spc, target, indisk, used, hpc, left, hchan>>
    BY <1>21, Zenon DEF SchedOut
  <2>9. saved' \in [Procs -> BOOLEAN]
    BY <1>21, <1>i, ZenonT(30) DEF SchedOut
  <2>1. Shape'
    <3>1. pc' \in [Procs -> PCs]
      <4>1. \A x \in PCs : [pc EXCEPT ![p] = x] \in [Procs -> PCs]
        BY <1>i, Zenon
      <4> QED BY <4>1, <2>8, Zenon
    <3> QED BY <2>8, <2>9, <3>1, <1>i, Zenon
  <2>2. Places'
    <3>1. spc[c] = "back" /\ target[c] = p /\ plock[p] = c
      BY <2>8, <1>i, <1>c DEF Places, PlockRight
    <3>2. \A q \in Procs : (\A d \in Cpus : cur'[d] # q) => pc'[q] \in {"forkret", "slept", "yielded"}
      <4> SUFFICES ASSUME NEW q \in Procs, \A d \in Cpus : cur'[d] # q
                   PROVE  pc'[q] \in {"forkret", "slept", "yielded"}
        OBVIOUS
      <4>1. CASE q = p
        BY <4>1, <2>8, <1>i DEF Places, PlockRight
      <4>2. CASE q # p
        BY <4>2, <2>8, <1>i DEF Places, PlockRight
      <4> QED BY <4>1, <4>2, Zenon
    <3> QED BY <2>8, <3>1, <3>2, <1>i, <1>c DEF Places, PlockRight
  <2>3. (PlockRight /\ VlockRight)'
    BY <1>21, <1>i, <1>c, SMTT(30) DEF SchedOut, Places, PlockRight, VlockRight, IntrRight, Depth
  <2>5. IntrRight'
    BY <1>21, <1>i, <1>c, SMTT(30) DEF SchedOut, Places, IntrRight, Depth
  <2>6. HandlerRight'
    BY <2>8, <1>i, Zenon DEF HandlerRight
  <2>7. SleepersRight'
    <3>1. \A q \in Procs : q # p => pc'[q] = pc[q]
      BY <2>8, <1>i
    <3>2. state[p] = "SLEEPING" => pc'[p] = "slept"
      BY <1>21, <1>i DEF SchedOut, SleepersRight
    <3>3. pc'[p] \in {"slept", "yielded"}
      BY <2>8, <1>i
    <3> QED BY <2>8, <3>1, <3>2, <3>3, <1>i DEF SleepersRight
  <2> QED BY <2>1, <2>2, <2>3, <2>5, <2>6, <2>7, Zenon DEF SchedInv
<1>22. ASSUME NEW c \in Cpus, NEW p \in Procs, Slept(c, p) PROVE SchedInv'
  <2>1. Shape'
    <3>1. cpu[c] \in CpuType /\ DOMAIN cpu = Cpus
      BY <1>i, Zenon DEF CpuType
    <3>2. cpu[c].noff > 0
      BY <1>22, <1>d, <1>c DEF Slept
    <3>5. SwtchBack(c, p) \in CpuType /\ SwtchBack(c, p).noff > 0
      <4>1. saved[p] \in BOOLEAN
        BY <1>i, Zenon
      <4> QED BY <4>1, <3>1, <3>2, CpuSet, Zenon DEF SwtchBack, CpuType
    <3>3. cpu'[c] \in CpuType
      BY <3>1, <3>2, <3>5, <1>22, PopOffType, CpuSet, Zenon DEF Slept
    <3>4. cpu' \in [Cpus -> CpuType]
      BY <3>1, <3>3, <1>22, <1>i, Zenon DEF Slept, CpuType
    <3> QED BY <3>4, <1>22, <1>i, <1>c, Zenon DEF Slept, CpuType
  <2>2. (Places /\ PlockRight)'
    BY <1>22, <1>i, <1>c DEF Slept, PopOff, SwtchBack, Places, PlockRight
  <2>4. VlockRight'
    BY <1>22, <1>i, <1>c DEF Slept, PopOff, SwtchBack, Places, VlockRight, IntrRight, Depth
  <2>5. IntrRight'
    BY <1>22, <1>i, <1>c DEF Slept, PopOff, SwtchBack, Places, IntrRight, Depth
  <2>6. HandlerRight'
    BY <1>22, <1>i, <1>c DEF Slept, PopOff, SwtchBack, Places, HandlerRight
  <2>8. state[p] = "RUNNING" /\ pc[p] = "slept" /\ pc' = [pc EXCEPT ![p] = "reacq"]
    BY <1>22, <1>i, <1>c, SMTT(30) DEF Slept, Places, PlockRight, IntrRight, Depth
  <2>7. SleepersRight'
    BY <2>8, <1>22, <1>i, SMTT(30) DEF Slept, Places, PlockRight, HandlerRight, SleepersRight
  <2> QED BY <2>1, <2>2, <2>4, <2>5, <2>6, <2>7, Zenon DEF SchedInv
<1>23. ASSUME NEW c \in Cpus, NEW p \in Procs, Yield(c, p) PROVE SchedInv'
  <2>1. Shape'
    <3>1. cpu[c] \in CpuType /\ DOMAIN cpu = Cpus
      BY <1>i, Zenon DEF CpuType
    <3>3. cpu'[c] \in CpuType
      BY <3>1, <1>23, PushOffType, Zenon DEF Yield
    <3>4. cpu' \in [Cpus -> CpuType]
      BY <3>1, <3>3, <1>23, <1>i, Zenon DEF Yield, CpuType
    <3> QED BY <3>4, <1>23, <1>i, <1>c, Zenon DEF Yield, CpuType
  <2>2. (Places /\ PlockRight)'
    BY <1>23, <1>i, <1>c DEF Yield, PushOff, Places, PlockRight
  <2>4. VlockRight'
    BY <1>23, <1>i, <1>c DEF Yield, PushOff, Places, VlockRight, IntrRight, Depth
  <2>5. IntrRight'
    BY <1>23, <1>i, <1>c DEF Yield, PushOff, Places, IntrRight, Depth
  <2>6. (HandlerRight /\ SleepersRight)'
    BY <1>23, <1>i, <1>c DEF Yield, PushOff, Places, HandlerRight, PlockRight, SleepersRight
  <2> QED BY <2>1, <2>2, <2>4, <2>5, <2>6, Zenon DEF SchedInv
<1>24. ASSUME NEW c \in Cpus, NEW p \in Procs, Yielded(c, p) PROVE SchedInv'
  <2>1. Shape'
    <3>1. cpu[c] \in CpuType /\ DOMAIN cpu = Cpus
      BY <1>i, Zenon DEF CpuType
    <3>2. cpu[c].noff > 0
      BY <1>24, <1>d, <1>c DEF Yielded
    <3>5. SwtchBack(c, p) \in CpuType /\ SwtchBack(c, p).noff > 0
      <4>1. saved[p] \in BOOLEAN
        BY <1>i, Zenon
      <4> QED BY <4>1, <3>1, <3>2, CpuSet, Zenon DEF SwtchBack, CpuType
    <3>3. cpu'[c] \in CpuType
      BY <3>1, <3>2, <3>5, <1>24, PopOffType, CpuSet, Zenon DEF Yielded
    <3>4. cpu' \in [Cpus -> CpuType]
      BY <3>1, <3>3, <1>24, <1>i, Zenon DEF Yielded, CpuType
    <3> QED BY <3>4, <1>24, <1>i, <1>c, Zenon DEF Yielded, CpuType
  <2>8. /\ state[p] = "RUNNING" /\ pc[p] = "yielded" /\ cur[c] = p /\ hpc[c] = "none"
        /\ resume[p] \in Open /\ pc' = [pc EXCEPT ![p] = resume[p]]
        /\ plock' = [plock EXCEPT ![p] = None] /\ plock[p] = c
        /\ UNCHANGED <<state, chan, vlock, cur, spc, target, indisk, hpc, hchan, left>>
    BY <1>24, <1>i, <1>c, SMTT(30) DEF Yielded, PlockRight
  <2>9. cpu'[c].proc = cpu[c].proc /\ \A d \in Cpus \ {c} : cpu'[d] = cpu[d]
    BY <1>24, <1>i DEF Yielded, PopOff, TrapReturn, SwtchBack
  <2>10. \A q \in Procs \ {p} : pc'[q] = pc[q]
    BY <2>8, <1>i, Zenon
  <2>2. Places'
    <3>1. \A d \in Cpus : cpu'[d].proc = cpu[d].proc
      BY <2>9, Zenon
    <3>2. \A d \in Cpus : plock[target[d]] = d => d = c \/ plock'[target[d]] = d
      BY <2>8, <1>i, Zenon
    <3>3. spc[c] = "back" /\ target[c] = p
      BY <2>8, <1>i, <1>c DEF Places
    <3> QED BY <2>8, <2>10, <3>1, <3>2, <3>3, <1>i, <1>c, SMTT(30) DEF Places
  <2>3. PlockRight'
    BY <2>8, <1>i, <1>c, <1>e, SMTT(30) DEF PlockRight
  <2>4. VlockRight'
    BY <2>8, <1>i, <1>c, <1>e, SMTT(30) DEF VlockRight
  <2>5. IntrRight'
    BY <1>24, <1>i, <1>c DEF Yielded, PopOff, TrapReturn, SwtchBack, Places, IntrRight, Depth
  <2>6. HandlerRight'
    BY <2>8, <2>9, <1>i, ZenonT(30) DEF HandlerRight
  <2>7. SleepersRight'
    BY <2>8, <1>i DEF SleepersRight
  <2> QED BY <2>1, <2>2, <2>3, <2>4, <2>5, <2>6, <2>7, Zenon DEF SchedInv
<1>25. ASSUME NEW c \in Cpus, NEW p \in Procs, WakeupOne(c, p) PROVE SchedInv'
  <2>1. Shape'
    BY <1>25, <1>i, <1>c, SMTT(30) DEF WakeupOne
  <2>2. (Places /\ PlockRight)'
    BY <1>25, <1>i, <1>c, SMTT(30) DEF WakeupOne, Places, PlockRight
  <2>4. VlockRight'
    BY <1>25, <1>i, <1>c, ZenonT(30) DEF WakeupOne, Places, VlockRight, IntrRight, Depth
  <2>5. IntrRight'
    BY <1>25, <1>i, <1>c, SMTT(30) DEF WakeupOne, Places, IntrRight, Depth
  <2>6. HandlerRight'
    BY <1>25, <1>i, <1>c, SMTT(30) DEF WakeupOne, Places, HandlerRight
  <2>7. SleepersRight'
    <3>1. ~(pc[p] \in {"sleep_release", "sleep_state"})
      BY <1>25, <1>f, Zenon DEF WakeupOne, Places, PlockRight, HandlerRight, SleepersRight
    <3>2. /\ hpc[c] = "wakeup" /\ plock[p] = None /\ UNCHANGED <<chan, pc, indisk, hpc, hchan>>
          /\ left' = [left EXCEPT ![c] = @ \ {p}]
          /\ state' = [state EXCEPT ![p] = IF @ = "SLEEPING" /\ chan[p] = hchan[c] THEN "RUNNABLE" ELSE @]
      BY <1>25, Zenon DEF WakeupOne
    <3>3. ASSUME NEW q \in Procs, q # p
          PROVE  /\ state'[q] = state[q]
                 /\ \A d \in Cpus : q \in left[d] => q \in left'[d]
      BY <3>2, <3>3, <1>i, SMTT(30) DEF Places, PlockRight, HandlerRight, SleepersRight
    <3>4. ASSUME state'[p] = "SLEEPING", NEW d \in Cpus, hchan[d] = p
          PROVE  d # c /\ state[p] = "SLEEPING" /\ left'[d] = left[d]
      BY <3>2, <3>4, <1>i, SMTT(30) DEF Places, PlockRight, HandlerRight, SleepersRight
    <3>5. state'[p] = "SLEEPING" => state[p] = "SLEEPING"
      BY <3>2, <1>i, SMTT(30) DEF Places, PlockRight, HandlerRight, SleepersRight
    <3> QED BY <3>1, <3>2, <3>3, <3>4, <3>5, <1>i, SMTT(30) DEF Places, PlockRight, HandlerRight,
        SleepersRight
  <2> QED BY <2>1, <2>2, <2>4, <2>5, <2>6, <2>7, Zenon DEF SchedInv
<1>26. ASSUME NEW p \in Procs, DeviceDone(p) PROVE SchedInv'
  <2>1. Shape'
    BY <1>26, <1>i, <1>c, SMTT(30) DEF DeviceDone
  <2>2. (Places /\ PlockRight)'
    BY <1>26, <1>i, <1>c, SMTT(30) DEF DeviceDone, Places, PlockRight
  <2>4. VlockRight'
    BY <1>26, <1>i, <1>c, Zenon DEF DeviceDone, Places, VlockRight, IntrRight, Depth
  <2>5. IntrRight'
    BY <1>26, <1>i, <1>c, SMTT(30) DEF DeviceDone, Places, IntrRight, Depth
  <2>6. (HandlerRight /\ SleepersRight)'
    BY <1>26, <1>i, <1>c, Zenon DEF DeviceDone, Places, HandlerRight, PlockRight, SleepersRight
  <2> QED BY <2>1, <2>2, <2>4, <2>5, <2>6, Zenon DEF SchedInv
<1>27. ASSUME NEW p \in Procs, Kill(p) PROVE SchedInv'
  <2>1. Shape'
    BY <1>27, <1>i, <1>c, Zenon DEF Kill
  <2>2. (Places /\ PlockRight)'
    BY <1>27, <1>i, <1>c, SMTT(30) DEF Kill, Places, PlockRight
  <2>4. VlockRight'
    BY <1>27, <1>i, <1>c, Zenon DEF Kill, Places, VlockRight, IntrRight, Depth
  <2>5. IntrRight'
    BY <1>27, <1>i, IntrSame, Zenon DEF Kill, scheds, handler
  <2>6. (HandlerRight /\ SleepersRight)'
    BY <1>27, <1>i, <1>c, SMTT(30) DEF Kill, Places, HandlerRight, PlockRight, SleepersRight
  <2> QED BY <2>1, <2>2, <2>4, <2>5, <2>6, Zenon DEF SchedInv
<1>28. CASE UNCHANGED vars
  <2>1. (Shape /\ Places /\ PlockRight /\ VlockRight)'
    BY <1>28, <1>i, SMTT(30) DEF vars, Places, PlockRight, VlockRight
  <2>2. IntrRight'
    BY <1>28, <1>i, IntrSame, Zenon DEF vars, scheds, handler
  <2>3. (HandlerRight /\ SleepersRight)'
    BY <1>28, <1>i, Zenon DEF vars, scheds, handler, HandlerRight, SleepersRight
  <2> QED BY <2>1, <2>2, <2>3, Zenon DEF SchedInv
<1> QED
  BY <1>1, <1>2, <1>3, <1>4, <1>5, <1>6, <1>7, <1>8, <1>9, <1>10, <1>11, <1>12, <1>13, <1>14,
     <1>15, <1>16, <1>17, <1>18, <1>19, <1>20, <1>21, <1>22, <1>23, <1>24, <1>25, <1>26,
     <1>27, <1>28, Zenon DEF Next, SchedStep, KernelStep, IntrStep
-----------------------------------------------------------------------------
(* The invariant of locks, interrupts and places holds in every reachable  *)
(* state, for any number of CPUs and processes.                            *)
THEOREM SchedInvariance == Spec => []SchedInv
BY SchedInit, SchedStepKeeps, PTL DEF Spec

(* No two CPUs run on one kernel stack (scheduler, sched, swtch). *)
THEOREM StacksApart == Spec => []OneCpuPerStack
<1>1. SchedInv => OneCpuPerStack
  BY Zenon DEF SchedInv, Places, OneCpuPerStack
<1> QED BY <1>1, SchedInvariance, PTL

(* acquire, release and sched never panic about the locks of this path. *)
THEOREM LocksHeldRight == Spec => []HoldingRight
<1>1. SchedInv => HoldingRight
  <2> SUFFICES ASSUME SchedInv PROVE HoldingRight
    OBVIOUS
  <2>0. None \notin Cpus /\ None \notin Procs
    BY ConstAssumption DEF Procs
  <2>1. ASSUME NEW c \in Cpus
        PROVE  /\ hpc[c] = "acquire" => vlock # c
               /\ hpc[c] = "body" => vlock = c
    BY <2>0, SMTT(30) DEF SchedInv, VlockRight, IntrRight, Depth, ProcDepth, HasVlock, Open
  <2>2. ASSUME NEW c \in Cpus, NEW q \in left[c] PROVE plock[q] # c
    BY <2>0, <2>2 DEF SchedInv, Shape, TypeOK, PlockRight, HandlerRight, Places
  <2>3. ASSUME NEW c \in Cpus, InScheduler(c)
        PROVE  /\ spc[c] = "spin" => plock[target[c]] # c
               /\ spc[c] = "back" => plock[target[c]] = c
    BY <2>0, <2>3, SMTT(30) DEF SchedInv, Shape, TypeOK, PlockRight, Places, InScheduler
  <2>4. ASSUME NEW c \in Cpus, NEW p \in Procs, Runs(c, p)
        PROVE  /\ pc[p] \in {"wait", "sleep_release"} => vlock = c
               /\ pc[p] \in {"sys_spin", "reacq_spin"} => vlock # c
    BY <2>0, <2>4, Zenon DEF SchedInv, VlockRight, HasVlock, Runs, InKernel
  <2>5. ASSUME NEW c \in Cpus, NEW p \in Procs, Runs(c, p)
        PROVE  /\ pc[p] \in {"wait", "yield"} => plock[p] # c
               /\ pc[p] \in {"forkret", "slept", "yielded", "sched_sleep",
                             "sched_yield"} => plock[p] = c
    BY <2>0, <2>5, ZenonT(30) DEF SchedInv, PlockRight, HasPlock, Runs
  <2> QED BY <2>1, <2>2, <2>3, <2>4, <2>5, Zenon DEF HoldingRight
<1> QED BY <1>1, SchedInvariance, PTL

(* A process that holds no lock runs with interrupts on, on whichever CPU  *)
(* it was switched to (push_off, pop_off, sched).                          *)
THEOREM IntenaStays == Spec => []IntenaFollowsThread
<1>1. SchedInv => IntenaFollowsThread
  BY ConstAssumption DEF SchedInv, IntrRight, IntenaFollowsThread, Runs, InKernel, Open, Procs
<1> QED BY <1>1, SchedInvariance, PTL

(* No wakeup is lost between the test of b->disk and SLEEPING, nor after   *)
(* (sleep, wakeup).                                                        *)
THEOREM WakeupsArrive == Spec => []NoLostWakeup
<1>1. SchedInv => NoLostWakeup
  BY Zenon DEF SchedInv, SleepersRight, NoLostWakeup
<1> QED BY <1>1, SchedInvariance, PTL
=============================================================================
