--------------------------- MODULE CrashSafeDisk ---------------------------
(***************************************************************************)
(* What the logging layer of kernel/log.c promises to the file system: a   *)
(* disk on which the writes of the system calls between begin_op() and     *)
(* end_op() become durable together, at a moment when no such call is in   *)
(* progress, and on which a crash loses exactly what was not durable.      *)
(***************************************************************************)

CONSTANTS Procs,   \* processes that make file system calls
          Blocks,  \* home blocks of the file system
          Vals     \* block contents

VARIABLES durable, \* what a crash would leave
          latest,  \* what bread() returns
          active   \* processes between begin_op() and end_op()

vars == <<durable, latest, active>>

Init ==
  /\ durable \in [Blocks -> Vals]
  /\ latest = durable
  /\ active = {}

BeginOp(p) ==
  /\ p \notin active
  /\ active' = active \cup {p}
  /\ UNCHANGED <<durable, latest>>

Write(p, b, v) ==
  /\ p \in active
  /\ latest' = [latest EXCEPT ![b] = v]
  /\ UNCHANGED <<durable, active>>

EndOp(p) ==
  /\ p \in active
  /\ active' = active \ {p}
  /\ UNCHANGED <<durable, latest>>

(* All updates so far become durable at once, and never inside a call. *)
Commit ==
  /\ active = {}
  /\ durable' = latest
  /\ UNCHANGED <<latest, active>>

Crash ==
  /\ latest' = durable
  /\ active' = {}
  /\ UNCHANGED durable

Next ==
  \/ \E p \in Procs : BeginOp(p) \/ EndOp(p)
  \/ \E p \in Procs, b \in Blocks, v \in Vals : Write(p, b, v)
  \/ Commit
  \/ Crash

Spec == Init /\ [][Next]_vars

(* A commit that is possible and stays possible happens. *)
FairSpec == Spec /\ WF_vars(Commit)
=============================================================================
