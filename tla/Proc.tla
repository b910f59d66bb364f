-------------------------------- MODULE Proc --------------------------------
(***************************************************************************)
(* The life of a process in kernel/proc.c: fork, exit, wait, kill and the  *)
(* process table they share, with the two kinds of lock that protect it    *)
(* (wait_lock for the family tree, p->lock for a table entry).             *)
(*                                                                         *)
(* Grain.  A section under p->lock is one step, and so is one iteration of *)
(* a loop over the table that holds wait_lock meanwhile.  sleep() gives up *)
(* wait_lock and falls asleep in one step and RUNNING and RUNNABLE are not *)
(* told apart: module Sched is about both.  A wakeup takes only the lock   *)
(* of the process it is meant for; it visits the others to no effect.      *)
(***************************************************************************)
EXTENDS Naturals, FiniteSets

CONSTANTS
  NPROC,     \* size of the process table
  MaxPid,    \* bound: the last pid ever allocated
  KillPids,  \* the pids programs pass to kill
  None

ASSUME ConstAssumption ==
  NPROC \in Nat \ {0} /\ MaxPid \in Nat /\ KillPids \subseteq Nat /\ None \notin Nat

Procs == 1 .. NPROC
initproc == 1

VARIABLES
  state,     \* p->state
  pid,       \* p->pid
  parent,    \* p->parent
  killed,    \* p->killed
  nextpid,
  wait_lock, \* holder, a process or None
  plock,     \* holder of each p->lock
  pc,        \* where each process is
  np,        \* local variable of fork
  i,         \* loop variable of reparent and wait
  havekids,  \* local variable of wait
  sent       \* history: pids that a kill was meant for

vars == <<state, pid, parent, killed, nextpid, wait_lock, plock, pc, np, i,
          havekids, sent>>
entry == <<state, pid, parent, killed>>
locals == <<np, i, havekids>>

PCs == {"none", "user", "fork_copy", "fork_parent", "fork_state", "reparent",
        "exit_wakeup", "zombie", "dead", "scan", "asleep", "killed_p"}

TypeOK ==
  /\ state \in [Procs -> {"UNUSED", "USED", "SLEEPING", "RUNNABLE", "ZOMBIE"}]
  /\ pid \in [Procs -> 0 .. MaxPid]
  /\ parent \in [Procs -> Procs \cup {None}]
  /\ killed \in [Procs -> BOOLEAN]
  /\ nextpid \in 1 .. MaxPid + 1
  /\ wait_lock \in Procs \cup {None}
  /\ plock \in [Procs -> Procs \cup {None}]
  /\ pc \in [Procs -> PCs]
  /\ np \in [Procs -> Procs \cup {None}]
  /\ i \in [Procs -> 1 .. NPROC + 1]
  /\ havekids \in [Procs -> BOOLEAN]
  /\ sent \subseteq 0 .. MaxPid

(* After userinit: initproc is the only process. *)
Init ==
  /\ state = [p \in Procs |-> IF p = initproc THEN "RUNNABLE" ELSE "UNUSED"]
  /\ pid = [p \in Procs |-> IF p = initproc THEN 1 ELSE 0]
  /\ parent = [p \in Procs |-> None]
  /\ killed = [p \in Procs |-> FALSE]
  /\ nextpid = 2
  /\ wait_lock = None
  /\ plock = [p \in Procs |-> None]
  /\ pc = [p \in Procs |-> IF p = initproc THEN "user" ELSE "none"]
  /\ np = [p \in Procs |-> None]
  /\ i = [p \in Procs |-> 1]
  /\ havekids = [p \in Procs |-> FALSE]
  /\ sent = {}

Goto(p, next) == pc' = [pc EXCEPT ![p] = next]

(* usertrap: a killed process enters no system call. *)
InUser(p) == pc[p] = "user" /\ ~killed[p]

freeproc(p) ==
  /\ state' = [state EXCEPT ![p] = "UNUSED"]
  /\ pid' = [pid EXCEPT ![p] = 0]
  /\ parent' = [parent EXCEPT ![p] = None]
  /\ killed' = [killed EXCEPT ![p] = FALSE]
-----------------------------------------------------------------------------
allocpid(q) ==
  /\ pid' = [pid EXCEPT ![q] = nextpid]
  /\ nextpid' = nextpid + 1

(* fork(): allocproc() finds the UNUSED entry q and returns with q->lock   *)
(* held.                                                                   *)
ForkAlloc(p, q) ==
  /\ InUser(p)
  /\ nextpid <= MaxPid
  /\ state[q] = "UNUSED" /\ plock[q] = None
  /\ allocpid(q)
  /\ state' = [state EXCEPT ![q] = "USED"]
  /\ plock' = [plock EXCEPT ![q] = p]
  /\ np' = [np EXCEPT ![p] = q]
  /\ Goto(p, "fork_copy")
  /\ UNCHANGED <<parent, killed, wait_lock, i, havekids, sent>>

(* allocproc() or uvmcopy() runs out of memory: freeproc(np). *)
ForkFail(p) ==
  /\ pc[p] = "fork_copy"
  /\ freeproc(np[p])
  /\ plock' = [plock EXCEPT ![np[p]] = None]
  /\ np' = [np EXCEPT ![p] = None]
  /\ Goto(p, "user")
  /\ UNCHANGED <<nextpid, wait_lock, i, havekids, sent>>

(* The copies are made; release(&np->lock). *)
ForkCopied(p) ==
  /\ pc[p] = "fork_copy"
  /\ plock' = [plock EXCEPT ![np[p]] = None]
  /\ Goto(p, "fork_parent")
  /\ UNCHANGED <<entry, nextpid, wait_lock, locals, sent>>

(* np->parent = p, under wait_lock. *)
ForkParent(p) ==
  /\ pc[p] = "fork_parent"
  /\ wait_lock = None
  /\ parent' = [parent EXCEPT ![np[p]] = p]
  /\ Goto(p, "fork_state")
  /\ UNCHANGED <<state, pid, killed, nextpid, wait_lock, plock, locals, sent>>

(* np->state = RUNNABLE, under np->lock. *)
ForkState(p) ==
  /\ pc[p] = "fork_state"
  /\ plock[np[p]] = None
  /\ state' = [state EXCEPT ![np[p]] = "RUNNABLE"]
  /\ pc' = [pc EXCEPT ![p] = "user", ![np[p]] = "user"]
  /\ np' = [np EXCEPT ![p] = None]
  /\ UNCHANGED <<pid, parent, killed, nextpid, wait_lock, plock, i, havekids, sent>>
-----------------------------------------------------------------------------
(* wakeup(q), for a process that sleeps in wait. *)
Wake(f, q) == [f EXCEPT ![q] = IF @ = "SLEEPING" THEN "RUNNABLE" ELSE @]

(* exit(), called by the program or for a killed process, once its files   *)
(* are closed: acquire(&wait_lock).  An exit of init is a panic.           *)
Exit(p) ==
  /\ pc[p] = "user"
  /\ p # initproc
  /\ wait_lock = None
  /\ wait_lock' = p
  /\ i' = [i EXCEPT ![p] = 1]
  /\ Goto(p, "reparent")
  /\ UNCHANGED <<entry, nextpid, plock, np, havekids, sent>>

(* pp->parent = initproc; wakeup(initproc). *)
Adopt(q) ==
  /\ plock[initproc] = None
  /\ parent' = [parent EXCEPT ![q] = initproc]
  /\ state' = Wake(state, initproc)

(* Mutant: the last entry of the table is not looked at. *)
BugReparented(p) == i[p] >= NPROC

Reparented(p) == i[p] > NPROC

(* One iteration of reparent. *)
Reparent(p) ==
  /\ pc[p] = "reparent"
  /\ \/ /\ Reparented(p)
        /\ Goto(p, "exit_wakeup")
        /\ UNCHANGED <<state, parent, i>>
     \/ /\ ~Reparented(p)
        /\ i' = [i EXCEPT ![p] = @ + 1]
        /\ \/ parent[i[p]] = p /\ Adopt(i[p])
           \/ parent[i[p]] # p /\ UNCHANGED <<state, parent>>
        /\ UNCHANGED pc
  /\ UNCHANGED <<pid, killed, nextpid, wait_lock, plock, np, havekids, sent>>

(* wakeup(p->parent). *)
ExitWakeup(p) ==
  /\ pc[p] = "exit_wakeup"
  /\ plock[parent[p]] = None
  /\ state' = Wake(state, parent[p])
  /\ Goto(p, "zombie")
  /\ UNCHANGED <<pid, parent, killed, nextpid, wait_lock, plock, locals, sent>>

(* acquire(&p->lock); p->state = ZOMBIE; release(&wait_lock). *)
ExitZombie(p) ==
  /\ pc[p] = "zombie"
  /\ plock[p] = None
  /\ plock' = [plock EXCEPT ![p] = p]
  /\ state' = [state EXCEPT ![p] = "ZOMBIE"]
  /\ wait_lock' = None
  /\ Goto(p, "dead")
  /\ UNCHANGED <<pid, parent, killed, nextpid, locals, sent>>

(* sched(): the scheduler releases p->lock once p is off its stack. *)
ExitSched(p) ==
  /\ pc[p] = "dead"
  /\ plock' = [plock EXCEPT ![p] = None]
  /\ Goto(p, "none")
  /\ UNCHANGED <<entry, nextpid, wait_lock, locals, sent>>
-----------------------------------------------------------------------------
(* The scan of wait() starts, from the top or after sleep(). *)
StartScan(p) ==
  /\ wait_lock = None
  /\ wait_lock' = p
  /\ i' = [i EXCEPT ![p] = 1]
  /\ havekids' = [havekids EXCEPT ![p] = FALSE]
  /\ Goto(p, "scan")
  /\ UNCHANGED <<entry, nextpid, plock, np, sent>>

Wait(p) == InUser(p) /\ StartScan(p)

(* sleep() returns: woken by a child's exit or by kill. *)
WaitAgain(p) == pc[p] = "asleep" /\ state[p] = "RUNNABLE" /\ StartScan(p)

(* Mutant: wait does not take pp->lock. *)
BugLockable(q) == TRUE

(* wait() takes pp->lock to be sure that the child is off its stack. *)
Lockable(q) == plock[q] = None

(* Mutant: the last entry of the table is not looked at. *)
BugScanned(p) == i[p] >= NPROC

Scanned(p) == i[p] > NPROC

(* One entry of the table that is not an exited child. *)
ScanNext(p) ==
  /\ pc[p] = "scan" /\ ~Scanned(p)
  /\ \/ /\ parent[i[p]] # p
        /\ UNCHANGED havekids
     \/ /\ parent[i[p]] = p
        /\ Lockable(i[p])
        /\ state[i[p]] # "ZOMBIE"
        /\ havekids' = [havekids EXCEPT ![p] = TRUE]
  /\ i' = [i EXCEPT ![p] = @ + 1]
  /\ UNCHANGED <<entry, nextpid, wait_lock, plock, pc, np, sent>>

(* An exited child: free it, or fail to copy its status to user space and  *)
(* leave it.  init passes no address.                                      *)
ScanZombie(p) ==
  /\ pc[p] = "scan" /\ ~Scanned(p)
  /\ parent[i[p]] = p
  /\ Lockable(i[p])
  /\ state[i[p]] = "ZOMBIE"
  /\ \/ freeproc(i[p])
     \/ p # initproc /\ UNCHANGED entry
  /\ wait_lock' = None
  /\ Goto(p, "user")
  /\ UNCHANGED <<nextpid, plock, locals, sent>>

(* Nothing to wait for, or killed: return -1. *)
WaitFail(p) ==
  /\ pc[p] = "scan" /\ Scanned(p)
  /\ ~havekids[p] \/ killed[p]
  /\ wait_lock' = None
  /\ Goto(p, "user")
  /\ UNCHANGED <<entry, nextpid, plock, locals, sent>>

(* killed(p) said no; p->lock is released before sleep takes it again. *)
WaitNotKilled(p) ==
  /\ pc[p] = "scan" /\ Scanned(p)
  /\ havekids[p] /\ ~killed[p]
  /\ Goto(p, "killed_p")
  /\ UNCHANGED <<entry, nextpid, wait_lock, plock, locals, sent>>

(* sleep(p, &wait_lock). *)
WaitSleep(p) ==
  /\ pc[p] = "killed_p"
  /\ plock[p] = None
  /\ state' = [state EXCEPT ![p] = "SLEEPING"]
  /\ wait_lock' = None
  /\ Goto(p, "asleep")
  /\ UNCHANGED <<pid, parent, killed, nextpid, plock, locals, sent>>
-----------------------------------------------------------------------------
(* kill(k), by a process p: the first entry q with that pid. *)
Kill(p, k, q) ==
  /\ InUser(p)
  /\ pid[q] = k
  /\ \A r \in 1 .. q - 1 : pid[r] # k
  /\ plock[q] = None
  /\ killed' = [killed EXCEPT ![q] = TRUE]
  /\ state' = Wake(state, q)
  /\ sent' = sent \cup {k}
  /\ UNCHANGED <<pid, parent, nextpid, wait_lock, plock, pc, locals>>

(* usertrap: an exception in the program; setkilled(p). *)
Fault(p) ==
  /\ InUser(p)
  /\ p # initproc
  /\ killed' = [killed EXCEPT ![p] = TRUE]
  /\ sent' = sent \cup {pid[p]}
  /\ UNCHANGED <<state, pid, parent, nextpid, wait_lock, plock, pc, locals>>

ForkStep(p) == ForkFail(p) \/ ForkCopied(p) \/ ForkParent(p) \/ ForkState(p)
ExitStep(p) == Reparent(p) \/ ExitWakeup(p) \/ ExitZombie(p) \/ ExitSched(p)
WaitStep(p) ==
  ScanNext(p) \/ ScanZombie(p) \/ WaitFail(p) \/ WaitNotKilled(p) \/ WaitSleep(p)

Next ==
  \/ \E p \in Procs :
       \/ Exit(p) \/ Wait(p) \/ WaitAgain(p) \/ Fault(p)
       \/ ForkStep(p) \/ ExitStep(p) \/ WaitStep(p)
  \/ \E p, q \in Procs : ForkAlloc(p, q)
  \/ \E p, q \in Procs, k \in KillPids : Kill(p, k, q)

Spec == Init /\ [][Next]_vars

(* A process in the kernel keeps running and a killed one goes to exit;    *)
(* init's loop (user/init.c) calls wait again and again; wait_lock is won  *)
(* by a process that finds it free again and again.  Programs need not     *)
(* fork, wait or exit.                                                     *)
Fairness ==
  /\ \A p \in Procs :
       WF_vars(ForkStep(p)) /\ WF_vars(ExitStep(p)) /\ WF_vars(WaitStep(p))
  /\ SF_vars(Wait(initproc)) /\ SF_vars(WaitAgain(initproc))
  /\ SF_vars(ForkParent(initproc))

LiveSpec == Spec /\ Fairness
-----------------------------------------------------------------------------
(* The parent of every process is one that can still wait for it: exit     *)
(* gives all children away before it becomes a zombie, and fork names the  *)
(* parent before the child can exit.  (reparent, fork, wait_lock)          *)
NoOrphans ==
  \A p \in Procs \ {initproc} :
    state[p] \in {"SLEEPING", "RUNNABLE", "ZOMBIE"} =>
      parent[p] # None /\ state[parent[p]] \in {"SLEEPING", "RUNNABLE"}

(* An entry is not freed, let alone reused, while its process still runs   *)
(* exit on the kernel stack: wait takes pp->lock, which exit holds until   *)
(* the scheduler has left that stack.                                      *)
StackNotReused == \A p \in Procs : pc[p] = "dead" => state[p] = "ZOMBIE"

(* proc.c:582, "Kill the process with the given pid.": a process is killed *)
(* only if its own pid was passed to kill, or by an exception of its own;  *)
(* an entry that is reused starts unkilled.  (kill, freeproc)              *)
KillsOnlyTarget ==
  \A p \in Procs :
    state[p] # "UNUSED" /\ killed[p] => pid[p] \in sent

(* Every zombie that init has to reap is reaped, its own children and the  *)
(* ones it inherits.  (wait, reparent, init's loop)                        *)
ZombiesReaped ==
  \A p \in Procs :
    state[p] = "ZOMBIE" /\ parent[p] = initproc ~> state[p] = "UNUSED"
=============================================================================
