------------------------------- MODULE Sched -------------------------------
(***************************************************************************)
(* CPUs, spin-locks and context switches: scheduler, sched, yield, sleep   *)
(* and wakeup of kernel/proc.c, acquire/release and push_off/pop_off of    *)
(* kernel/spinlock.c, and the interrupt path of kernel/trap.c.  The        *)
(* workload is the one that makes these hard: a process submits a disk     *)
(* request, sleeps until it is done (virtio_disk_rw) and is woken by an    *)
(* interrupt (virtio_disk_intr) that any CPU may take.                     *)
(*                                                                         *)
(* Grain.  Code between an acquire and the next release, swtch or acquire  *)
(* is one step.  Where interrupts are on, push_off and the spinning loop   *)
(* of acquire are two steps, as a CPU spins with interrupts off.           *)
(***************************************************************************)
EXTENDS Naturals, FiniteSets

CONSTANTS Cpus, NPROC, None

ASSUME ConstAssumption == NPROC \in Nat \ {0} /\ None \notin Nat \cup Cpus

(* proc[NPROC] *)
Procs == 1 .. NPROC

VARIABLES
  state,    \* p->state
  chan,     \* p->chan: the process whose request it awaits (b of the code)
  plock,    \* holder of each p->lock: a CPU (lk->cpu), or None
  vlock,    \* holder of disk.vdisk_lock
  cpu,      \* struct cpu (proc, noff, intena) and the CPU's sstatus.SIE
  cur,      \* whose kernel stack each CPU runs: a process, None = scheduler
  spc,      \* where each CPU's scheduler is
  target,   \* p of scheduler's loop
  pc,       \* where each process is
  resume,   \* where the process was when the timer interrupted it
  saved,    \* the local variable intena of sched()
  indisk,   \* b->disk: the device owns the process's buffer
  used,     \* requests the device has completed (the used ring)
  hpc,      \* where each CPU is in virtio_disk_intr
  left,     \* processes wakeup has still to visit
  hchan     \* the argument of that wakeup

procs == <<state, chan, pc, resume, saved>>
device == <<indisk, used>>
handler == <<hpc, left, hchan>>
scheds == <<spc, target>>
vars == <<state, chan, plock, vlock, cpu, cur, spc, target, pc, resume, saved,
          indisk, used, hpc, left, hchan>>

States == {"RUNNABLE", "RUNNING", "SLEEPING"}
PCs == {"forkret", "user", "sys", "sys_spin", "wait", "sleep_release",
        "sleep_state", "sched_sleep", "slept", "reacq", "reacq_spin", "yield",
        "sched_yield", "yielded"}

TypeOK ==
  /\ state \in [Procs -> States]
  /\ chan \in [Procs -> Procs \cup {None}]
  /\ plock \in [Procs -> Cpus \cup {None}]
  /\ vlock \in Cpus \cup {None}
  /\ cpu \in [Cpus -> [proc : Procs \cup {None}, noff : Nat,
                       intena : BOOLEAN, intr : BOOLEAN]]
  /\ cur \in [Cpus -> Procs \cup {None}]
  /\ spc \in [Cpus -> {"head", "scan", "spin", "back"}]
  /\ target \in [Cpus -> Procs]
  /\ pc \in [Procs -> PCs]
  /\ resume \in [Procs -> PCs]
  /\ saved \in [Procs -> BOOLEAN]
  /\ indisk \in [Procs -> BOOLEAN]
  /\ used \in SUBSET Procs
  /\ hpc \in [Cpus -> {"none", "acquire", "body", "wakeup"}]
  /\ left \in [Cpus -> SUBSET Procs]
  /\ hchan \in [Cpus -> Procs \cup {None}]

(* The processes are new (allocproc: the first swtch goes to forkret) and  *)
(* every CPU enters scheduler() with interrupts off.                       *)
Init ==
  /\ state = [p \in Procs |-> "RUNNABLE"]
  /\ chan = [p \in Procs |-> None]
  /\ plock = [p \in Procs |-> None]
  /\ vlock = None
  /\ cpu = [c \in Cpus |-> [proc |-> None, noff |-> 0, intena |-> FALSE,
                            intr |-> FALSE]]
  /\ cur = [c \in Cpus |-> None]
  /\ spc = [c \in Cpus |-> "head"]
  /\ target = [c \in Cpus |-> 1]
  /\ pc = [p \in Procs |-> "forkret"]
  /\ resume = [p \in Procs |-> "user"]
  /\ saved = [p \in Procs |-> FALSE]
  /\ indisk = [p \in Procs |-> FALSE]
  /\ used = {}
  /\ hpc = [c \in Cpus |-> "none"]
  /\ left = [c \in Cpus |-> {}]
  /\ hchan = [c \in Cpus |-> None]
-----------------------------------------------------------------------------
PushOff(r) == [r EXCEPT !.intr = FALSE,
                        !.intena = IF r.noff = 0 THEN r.intr ELSE @,
                        !.noff = @ + 1]

(* Mutant: pop_off turns interrupts on while locks are still held. *)
BugPopOff(r) == [r EXCEPT !.noff = @ - 1, !.intr = r.intena]

PopOff(r) == [r EXCEPT !.noff = @ - 1, !.intr = r.noff = 1 /\ r.intena]

(* Returning from a trap restores the interrupted context's SIE, which was *)
(* set (kerneltrap's w_sstatus and sret, usertrapret's SPIE).              *)
TrapReturn(r) == [r EXCEPT !.intr = TRUE]

InKernel(c) == hpc[c] = "none"
InScheduler(c) == cur[c] = None /\ InKernel(c)
Runs(c, p) == cur[c] = p /\ InKernel(c)

(* scheduler(): intr_on() at the head of every round. *)
SchedIntrOn(c) ==
  /\ InScheduler(c) /\ spc[c] = "head"
  /\ spc' = [spc EXCEPT ![c] = "scan"]
  /\ cpu' = [cpu EXCEPT ![c].intr = TRUE]
  /\ UNCHANGED <<procs, plock, vlock, cur, target, device, handler>>

(* scheduler(): acquire(&p->lock) of the next process, up to the spinning. *)
SchedSpin(c) ==
  /\ InScheduler(c) /\ spc[c] = "scan"
  /\ spc' = [spc EXCEPT ![c] = "spin"]
  /\ cpu' = [cpu EXCEPT ![c] = PushOff(@)]
  /\ UNCHANGED <<procs, plock, vlock, cur, target, device, handler>>

(* p++ of scheduler's loop. *)
SchedAdvance(c) ==
  /\ target' = [target EXCEPT ![c] = (@ % NPROC) + 1]
  /\ spc' = [spc EXCEPT ![c] = IF target[c] = NPROC THEN "head" ELSE "scan"]

(* scheduler(): p is RUNNABLE; swtch to it holding p->lock. *)
SchedRun(c) ==
  LET p == target[c] IN
    /\ InScheduler(c) /\ spc[c] = "spin"
    /\ plock[p] = None
    /\ state[p] = "RUNNABLE"
    /\ plock' = [plock EXCEPT ![p] = c]
    /\ state' = [state EXCEPT ![p] = "RUNNING"]
    /\ cpu' = [cpu EXCEPT ![c].proc = p]
    /\ cur' = [cur EXCEPT ![c] = p]
    /\ spc' = [spc EXCEPT ![c] = "back"]
    /\ UNCHANGED <<chan, pc, resume, saved, vlock, target, device, handler>>

(* scheduler(): p is not RUNNABLE; release(&p->lock). *)
SchedSkip(c) ==
  /\ InScheduler(c) /\ spc[c] = "spin"
  /\ plock[target[c]] = None
  /\ state[target[c]] # "RUNNABLE"
  /\ SchedAdvance(c)
  /\ cpu' = [cpu EXCEPT ![c] = PopOff(@)]
  /\ UNCHANGED <<procs, plock, vlock, cur, device, handler>>

(* scheduler(), back from swtch: c->proc = 0; release(&p->lock). *)
SchedBack(c) ==
  /\ InScheduler(c) /\ spc[c] = "back"
  /\ plock' = [plock EXCEPT ![target[c]] = None]
  /\ cpu' = [cpu EXCEPT ![c] = PopOff([@ EXCEPT !.proc = None])]
  /\ SchedAdvance(c)
  /\ UNCHANGED <<procs, vlock, cur, device, handler>>
-----------------------------------------------------------------------------
Goto(p, next) == pc' = [pc EXCEPT ![p] = next]

(* Mutant: sched() leaves the intena of the CPU it comes back on. *)
BugSwtchBack(c, p) == cpu[c]

(* sched() after swtch: mycpu()->intena = intena, on whatever CPU this is. *)
SwtchBack(c, p) == [cpu[c] EXCEPT !.intena = saved[p]]

(* forkret(): release(&p->lock), then usertrapret(). *)
Forkret(c, p) ==
  /\ Runs(c, p) /\ pc[p] = "forkret"
  /\ plock' = [plock EXCEPT ![p] = None]
  /\ cpu' = [cpu EXCEPT ![c] = TrapReturn(PopOff(@))]
  /\ Goto(p, "user")
  /\ UNCHANGED <<state, chan, resume, saved, vlock, cur, scheds, device, handler>>

(* usertrap(): a system call, with interrupts on again, comes to           *)
(* virtio_disk_rw.                                                         *)
Syscall(c, p) ==
  /\ Runs(c, p) /\ pc[p] = "user"
  /\ Goto(p, "sys")
  /\ UNCHANGED <<state, chan, resume, saved, plock, vlock, cpu, cur, scheds,
                 device, handler>>

(* acquire(&disk.vdisk_lock), at the head of virtio_disk_rw or at the end  *)
(* of sleep(), up to the spinning.                                         *)
SpinVlock(c, p) ==
  /\ Runs(c, p)
  /\ \/ pc[p] = "sys" /\ Goto(p, "sys_spin")
     \/ pc[p] = "reacq" /\ Goto(p, "reacq_spin")
  /\ cpu' = [cpu EXCEPT ![c] = PushOff(@)]
  /\ UNCHANGED <<state, chan, resume, saved, plock, vlock, cur, scheds, device,
                 handler>>

(* virtio_disk_rw: b->disk = 1 and the device is notified. *)
Submit(c, p) ==
  /\ Runs(c, p) /\ pc[p] = "sys_spin"
  /\ vlock = None
  /\ vlock' = c
  /\ indisk' = [indisk EXCEPT ![p] = TRUE]
  /\ Goto(p, "wait")
  /\ UNCHANGED <<state, chan, resume, saved, plock, cpu, cur, scheds, used,
                 handler>>

(* The end of sleep(): it has vdisk_lock again. *)
Reacquired(c, p) ==
  /\ Runs(c, p) /\ pc[p] = "reacq_spin"
  /\ vlock = None
  /\ vlock' = c
  /\ Goto(p, "wait")
  /\ UNCHANGED <<state, chan, resume, saved, plock, cpu, cur, scheds, device,
                 handler>>

(* while(b->disk == 1) is over: release, and back to user space. *)
RwReturn(c, p) ==
  /\ Runs(c, p) /\ pc[p] = "wait"
  /\ ~indisk[p]
  /\ vlock' = None
  /\ cpu' = [cpu EXCEPT ![c] = TrapReturn(PopOff(@))]
  /\ Goto(p, "user")
  /\ UNCHANGED <<state, chan, resume, saved, plock, cur, scheds, device, handler>>

(* sleep(b, &disk.vdisk_lock): acquire(&p->lock) ... *)
SleepAcquire(c, p) ==
  /\ Runs(c, p) /\ pc[p] = "wait"
  /\ indisk[p]
  /\ plock[p] = None
  /\ plock' = [plock EXCEPT ![p] = c]
  /\ cpu' = [cpu EXCEPT ![c] = PushOff(@)]
  /\ Goto(p, "sleep_release")
  /\ UNCHANGED <<state, chan, resume, saved, vlock, cur, scheds, device, handler>>

(* ... release(lk) ... *)
SleepRelease(c, p) ==
  /\ Runs(c, p) /\ pc[p] = "sleep_release"
  /\ vlock' = None
  /\ cpu' = [cpu EXCEPT ![c] = PopOff(@)]
  /\ Goto(p, "sleep_state")
  /\ UNCHANGED <<state, chan, resume, saved, plock, cur, scheds, device, handler>>

(* ... p->chan = chan; p->state = SLEEPING. *)
SleepState(c, p) ==
  /\ Runs(c, p) /\ pc[p] = "sleep_state"
  /\ chan' = [chan EXCEPT ![p] = p]
  /\ state' = [state EXCEPT ![p] = "SLEEPING"]
  /\ Goto(p, "sched_sleep")
  /\ UNCHANGED <<resume, saved, plock, vlock, cpu, cur, scheds, device, handler>>

(* sched(): the CPU goes on with its scheduler; p->lock stays held, by the *)
(* CPU.                                                                    *)
SchedOut(c, p) ==
  /\ Runs(c, p)
  /\ \/ pc[p] = "sched_sleep" /\ Goto(p, "slept")
     \/ pc[p] = "sched_yield" /\ Goto(p, "yielded")
  /\ saved' = [saved EXCEPT ![p] = cpu[c].intena]
  /\ cur' = [cur EXCEPT ![c] = None]
  /\ UNCHANGED <<state, chan, resume, plock, vlock, cpu, scheds, device, handler>>

(* sleep(), running again: p->chan = 0; release(&p->lock). *)
Slept(c, p) ==
  /\ Runs(c, p) /\ pc[p] = "slept"
  /\ chan' = [chan EXCEPT ![p] = None]
  /\ plock' = [plock EXCEPT ![p] = None]
  /\ cpu' = [cpu EXCEPT ![c] = PopOff(SwtchBack(c, p))]
  /\ Goto(p, "reacq")
  /\ UNCHANGED <<state, resume, saved, vlock, cur, scheds, device, handler>>

(* Mutant: yield() releases p->lock before sched(). *)
BugYield(c, p) ==
  /\ Runs(c, p) /\ pc[p] = "yield"
  /\ plock[p] = None
  /\ state' = [state EXCEPT ![p] = "RUNNABLE"]
  /\ Goto(p, "sched_yield")
  /\ UNCHANGED <<chan, resume, saved, plock, vlock, cpu, cur, scheds, device,
                 handler>>

(* yield() up to sched(). *)
Yield(c, p) ==
  /\ Runs(c, p) /\ pc[p] = "yield"
  /\ plock[p] = None
  /\ plock' = [plock EXCEPT ![p] = c]
  /\ cpu' = [cpu EXCEPT ![c] = PushOff(@)]
  /\ state' = [state EXCEPT ![p] = "RUNNABLE"]
  /\ Goto(p, "sched_yield")
  /\ UNCHANGED <<chan, resume, saved, vlock, cur, scheds, device, handler>>

(* yield() after swtch, and the return from the timer interrupt. *)
Yielded(c, p) ==
  /\ Runs(c, p) /\ pc[p] = "yielded"
  /\ plock' = [plock EXCEPT ![p] = None]
  /\ cpu' = [cpu EXCEPT ![c] = TrapReturn(PopOff(SwtchBack(c, p)))]
  /\ Goto(p, resume[p])
  /\ UNCHANGED <<state, chan, resume, saved, vlock, cur, scheds, device, handler>>
-----------------------------------------------------------------------------
(* Mutant: usertrap does not yield, only kerneltrap does. *)
BugTimerIntr(c) ==
  /\ cpu[c].intr
  /\ InKernel(c)
  /\ cpu[c].proc # None
  /\ LET p == cpu[c].proc IN
       /\ state[p] = "RUNNING" /\ pc[p] # "user"
       /\ resume' = [resume EXCEPT ![p] = pc[p]]
       /\ Goto(p, "yield")
  /\ cpu' = [cpu EXCEPT ![c].intr = FALSE]
  /\ UNCHANGED <<state, chan, saved, plock, vlock, cur, scheds, device, handler>>

(* A timer interrupt while a process runs, in user space or in the kernel: *)
(* usertrap and kerneltrap call yield().  In the scheduler it does nothing.*)
TimerIntr(c) ==
  /\ cpu[c].intr
  /\ InKernel(c)
  /\ cpu[c].proc # None
  /\ LET p == cpu[c].proc IN
       /\ state[p] = "RUNNING"
       /\ resume' = [resume EXCEPT ![p] = pc[p]]
       /\ Goto(p, "yield")
  /\ cpu' = [cpu EXCEPT ![c].intr = FALSE]
  /\ UNCHANGED <<state, chan, saved, plock, vlock, cur, scheds, device, handler>>

(* kill(), by a process the model leaves out: under p->lock it makes a     *)
(* sleeping process RUNNABLE; the wait for the disk just goes on.          *)
Kill(p) ==
  /\ plock[p] = None
  /\ state[p] = "SLEEPING"
  /\ state' = [state EXCEPT ![p] = "RUNNABLE"]
  /\ UNCHANGED <<chan, pc, resume, saved, plock, vlock, cpu, cur, scheds,
                 device, handler>>

(* The device finishes a request. *)
DeviceDone(p) ==
  /\ indisk[p] /\ p \notin used
  /\ used' = used \cup {p}
  /\ UNCHANGED <<procs, plock, vlock, cpu, cur, scheds, indisk, handler>>

(* devintr(): this CPU claims the device's interrupt from the PLIC, which  *)
(* lets no other CPU have it before plic_complete.                         *)
DevIntr(c) ==
  /\ cpu[c].intr
  /\ used # {}
  /\ \A d \in Cpus : InKernel(d)
  /\ hpc' = [hpc EXCEPT ![c] = "acquire"]
  /\ cpu' = [cpu EXCEPT ![c].intr = FALSE]
  /\ UNCHANGED <<procs, plock, vlock, cur, scheds, device, left, hchan>>

(* virtio_disk_intr: acquire(&disk.vdisk_lock). *)
IntrAcquire(c) ==
  /\ hpc[c] = "acquire"
  /\ vlock = None
  /\ vlock' = c
  /\ cpu' = [cpu EXCEPT ![c] = PushOff(@)]
  /\ hpc' = [hpc EXCEPT ![c] = "body"]
  /\ UNCHANGED <<procs, plock, cur, scheds, device, left, hchan>>

(* One entry of the used ring: b->disk = 0; wakeup(b) sets out. *)
IntrBody(c, p) ==
  /\ hpc[c] = "body"
  /\ p \in used
  /\ used' = used \ {p}
  /\ indisk' = [indisk EXCEPT ![p] = FALSE]
  /\ hchan' = [hchan EXCEPT ![c] = p]
  /\ left' = [left EXCEPT ![c] = Procs \ {cpu[c].proc}]
  /\ hpc' = [hpc EXCEPT ![c] = "wakeup"]
  /\ UNCHANGED <<procs, plock, vlock, cpu, cur, scheds>>

(* Mutant: wakeup looks at q without q->lock. *)
BugWakeupOne(c, q) ==
  /\ hpc[c] = "wakeup"
  /\ q \in left[c]
  /\ left' = [left EXCEPT ![c] = @ \ {q}]
  /\ state' = [state EXCEPT ![q] =
                 IF @ = "SLEEPING" /\ chan[q] = hchan[c] THEN "RUNNABLE" ELSE @]
  /\ UNCHANGED <<chan, pc, resume, saved, plock, vlock, cpu, cur, scheds,
                 device, hpc, hchan>>

(* wakeup(): process q, under q->lock. *)
WakeupOne(c, q) ==
  /\ hpc[c] = "wakeup"
  /\ q \in left[c]
  /\ plock[q] = None
  /\ left' = [left EXCEPT ![c] = @ \ {q}]
  /\ state' = [state EXCEPT ![q] =
                 IF @ = "SLEEPING" /\ chan[q] = hchan[c] THEN "RUNNABLE" ELSE @]
  /\ UNCHANGED <<chan, pc, resume, saved, plock, vlock, cpu, cur, scheds,
                 device, hpc, hchan>>

WakeupDone(c) ==
  /\ hpc[c] = "wakeup"
  /\ left[c] = {}
  /\ hpc' = [hpc EXCEPT ![c] = "body"]
  /\ hchan' = [hchan EXCEPT ![c] = None]
  /\ UNCHANGED <<procs, plock, vlock, cpu, cur, scheds, device, left>>

(* The used ring is empty: release, plic_complete, return from the trap. *)
IntrReturn(c) ==
  /\ hpc[c] = "body"
  /\ used = {}
  /\ vlock' = None
  /\ cpu' = [cpu EXCEPT ![c] = TrapReturn(PopOff(@))]
  /\ hpc' = [hpc EXCEPT ![c] = "none"]
  /\ UNCHANGED <<procs, plock, cur, scheds, device, left, hchan>>
-----------------------------------------------------------------------------
SchedStep(c) ==
  SchedIntrOn(c) \/ SchedSpin(c) \/ SchedRun(c) \/ SchedSkip(c) \/ SchedBack(c)

(* The steps a process takes with interrupts off. *)
KernelStep(c, p) ==
  \/ Forkret(c, p) \/ Submit(c, p) \/ Reacquired(c, p) \/ RwReturn(c, p)
  \/ SleepAcquire(c, p) \/ SleepRelease(c, p) \/ SleepState(c, p)
  \/ SchedOut(c, p) \/ Slept(c, p) \/ Yield(c, p) \/ Yielded(c, p)

IntrStep(c) ==
  \/ \E p \in Procs : IntrBody(c, p)
  \/ WakeupDone(c) \/ IntrReturn(c)

Next ==
  \/ \E c \in Cpus :
       SchedStep(c) \/ TimerIntr(c) \/ DevIntr(c) \/ IntrAcquire(c) \/ IntrStep(c)
  \/ \E c \in Cpus, p \in Procs :
       Syscall(c, p) \/ SpinVlock(c, p) \/ KernelStep(c, p) \/ WakeupOne(c, p)
  \/ \E p \in Procs : DeviceDone(p) \/ Kill(p)

Spec == Init /\ [][Next]_vars

(* A CPU keeps executing its scheduler, its process or its interrupt       *)
(* handler.  The timer keeps ticking, slowly enough for a process to get   *)
(* on between two ticks; an asserted interrupt is taken if interrupts are  *)
(* on again and again; the device answers.  Nothing is assumed of Syscall, *)
(* the user program's choice, or of Kill.                                  *)
Fairness ==
  /\ \A c \in Cpus :
       /\ WF_vars(SchedStep(c)) /\ WF_vars(TimerIntr(c))
       /\ WF_vars(IntrAcquire(c)) /\ WF_vars(IntrStep(c))
  /\ \A c \in Cpus, p \in Procs :
       WF_vars(KernelStep(c, p)) /\ WF_vars(WakeupOne(c, p))
  /\ \A p \in Procs :
       WF_vars(DeviceDone(p)) /\ SF_vars(\E c \in Cpus : SpinVlock(c, p))
  /\ SF_vars(\E c \in Cpus : DevIntr(c))

LiveSpec == Spec /\ Fairness
-----------------------------------------------------------------------------
(* No two CPUs run on one kernel stack: a process that yields or sleeps is *)
(* not picked up by another CPU before it has left its stack, since        *)
(* p->lock is handed to the scheduler across swtch.  (scheduler, sched)    *)
OneCpuPerStack ==
  \A c, d \in Cpus : cur[c] # None /\ cur[c] = cur[d] => c = d

(* acquire() never finds the lock held by its own CPU and release() always *)
(* does, also across swtch and for the interrupt handler, which may run on *)
(* top of any code that has interrupts on.  (the panics "acquire",         *)
(* "release" and "sched p->lock")                                          *)
HoldingRight ==
  \A c \in Cpus :
    /\ hpc[c] = "acquire" => vlock # c
    /\ hpc[c] = "body" => vlock = c
    /\ \A q \in left[c] : plock[q] # c
    /\ InScheduler(c) =>
         /\ spc[c] = "spin" => plock[target[c]] # c
         /\ spc[c] = "back" => plock[target[c]] = c
    /\ \A p \in Procs : Runs(c, p) =>
         /\ pc[p] \in {"wait", "sleep_release"} => vlock = c
         /\ pc[p] \in {"sys_spin", "reacq_spin"} => vlock # c
         /\ pc[p] \in {"wait", "yield"} => plock[p] # c
         /\ pc[p] \in {"forkret", "slept", "yielded", "sched_sleep",
                       "sched_yield"} => plock[p] = c

(* A process that holds no lock runs with interrupts on, whichever CPU it  *)
(* slept or was preempted on: sched() keeps intena with the thread.        *)
IntenaFollowsThread ==
  \A c \in Cpus, p \in Procs :
    Runs(c, p) /\ pc[p] \in {"user", "sys", "reacq"} => cpu[c].intr

(* No wakeup is lost: a process asleep for a request that is done is one   *)
(* that a wakeup under way has still to visit.  (sleep, wakeup)            *)
NoLostWakeup ==
  \A p \in Procs :
    state[p] = "SLEEPING" /\ ~indisk[p] =>
      \E c \in Cpus : hpc[c] = "wakeup" /\ hchan[c] = p /\ p \in left[c]

(* Every disk wait ends, although user programs may never give up the CPU, *)
(* interrupts come at any time and kill() wakes the process early.         *)
(* (sleep, wakeup, scheduler, the yield of usertrap and kerneltrap)        *)
RequestsReturn == \A p \in Procs : pc[p] = "wait" ~> pc[p] = "user"
=============================================================================
