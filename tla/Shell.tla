-------------------------------- MODULE Shell -------------------------------
(***************************************************************************)
(* user/sh.c: the processes that run a command line, with their descriptors*)
(* over pipes that give end of file when the last write end is closed.     *)
(*                                                                         *)
(* A path is the sequence of branches from the root of the command to a    *)
(* node.  Every node that forks does so once for a branch, so the path     *)
(* where a process starts is its pid, and the path of a PIPE node names    *)
(* its pipe.                                                               *)
(*                                                                         *)
(* Grain.  The close and dup calls of a process touch its own descriptors  *)
(* only: they are one step with the fork before them.                      *)
(***************************************************************************)
EXTENDS ShellParser, FiniteSets, FiniteSetsExt

CONSTANTS
  Commands, \* the commands typed
  Lines,    \* other lines, as sequences of characters
  NOFILE,
  Failures  \* the calls that may fail: a subset of {"fork", "pipe", "open", "exec"}

VARIABLES
  meant,  \* the command that was typed
  cmd,    \* the command, None when it has a syntax error
  main,   \* the shell: "read", "wait", "prompt" (the line is done) or "gone"
  proc,   \* pid -> [at, pc, n, parent, ofile]
  failed  \* a fork has failed

vars == <<meant, cmd, main, proc, failed>>

Shell == <<"sh">>
InitProc == <<"init">>
File(kind, id) == [kind |-> kind, id |-> id]
Tty == File("tty", <<>>)
Closed == File("closed", <<>>)
Fds == 0 .. NOFILE - 1
Stdio == [fd \in Fds |-> IF fd < 3 THEN Tty ELSE Closed]

RECURSIVE Sub(_, _)
Sub(t, path) ==
  IF path = <<>> THEN t ELSE Sub(t.kids[IF Head(path) = "l" THEN 1 ELSE 2], Tail(path))
NodeAt(path) == Sub(cmd, path)
Type(p) == NodeAt(proc[p].at).type

TypeOK ==
  /\ main \in {"read", "wait", "prompt", "gone"} /\ failed \in BOOLEAN
  /\ \A p \in DOMAIN proc :
       /\ proc[p].pc \in {"run", "pipe", "wait", "exec", "zombie"}
       /\ proc[p].parent \in DOMAIN proc \cup {Shell, InitProc}

(* The ways to write n words and a sequence of redirections, in any mix. *)
RECURSIVE Mixes(_, _)
Mixes(n, redirs) ==
  IF n = 0 /\ redirs = <<>> THEN {<<>>}
  ELSE {<<"a", " ">> \o x : x \in IF n > 0 THEN Mixes(n - 1, redirs) ELSE {}} \cup
       {(IF redirs[1] = "+" THEN <<">", ">">> ELSE <<redirs[1]>>) \o <<"a", " ">> \o x :
          x \in IF redirs # <<>> THEN Mixes(n, Tail(redirs)) ELSE {}}

(* What redirections are around, and the redirections, innermost first. *)
RECURSIVE Inside(_), Redirs(_)
Inside(t) == IF t.type = "REDIR" THEN Inside(t.kids[1]) ELSE t
Redirs(t) == IF t.type = "REDIR" THEN Redirs(t.kids[1]) \o t.arg ELSE <<>>

(* The texts of a command, with no more parentheses than it needs. *)
Join(left, sep, right) == {x \o sep \o y : x \in left, y \in right}
RECURSIVE TextLine(_), TextBack(_), TextPipe(_)
TextExec(t) ==
  IF Inside(t).type = "EXEC" THEN Mixes(Len(Inside(t).arg), Redirs(t))
  ELSE Join(Join({<<"(">>}, <<>>, TextLine(Inside(t))), <<")">>, Mixes(0, Redirs(t)))
TextPipe(t) == IF t.type = "PIPE" THEN Join(TextExec(t.kids[1]), <<"|">>, TextPipe(t.kids[2])) ELSE TextExec(t)
TextBack(t) == IF t.type = "BACK" THEN Join(TextBack(t.kids[1]), <<"&">>, {<<>>}) ELSE TextPipe(t)
TextLine(t) == IF t.type = "LIST" THEN Join(TextBack(t.kids[1]), <<";">>, TextLine(t.kids[2])) ELSE TextBack(t)

(* A line that means a command, or any line, and what the parser makes of it. *)
Parsed ==
  {<<t, parsecmd(s)>> : <<t, s>> \in UNION {{t} \X TextLine(t) : t \in Commands}} \cup
  {<<None, parsecmd(s)>> : s \in Lines}

Init ==
  /\ \E x \in Parsed : meant = x[1] /\ cmd = x[2]
  /\ main = "read" /\ proc = << >> /\ failed = FALSE
-----------------------------------------------------------------------------
(* Descriptors: the kernel gives the lowest one. *)
fdalloc(of, file) == [of EXCEPT ![Min({fd \in Fds : of[fd] = Closed})] = file]
Fd(of, file) == CHOOSE fd \in Fds : of[fd] = file
Close(of, fd) == [of EXCEPT ![fd] = Closed]
Dup(of, fd) == fdalloc(of, of[fd])

PipeEnds(path) == <<File("r", path), File("w", path)>>
Piped(of, path) == fdalloc(fdalloc(of, PipeEnds(path)[1]), PipeEnds(path)[2])
CloseBoth(of, path) == Close(Close(of, Fd(of, PipeEnds(path)[1])), Fd(of, PipeEnds(path)[2]))

(* Mutant: the child leaves the pipe's own descriptors open. *)
BugPlumbed(of, path, fd) ==
  Dup(Close(of, fd), Fd(of, PipeEnds(path)[IF fd = 0 THEN 1 ELSE 2]))

(* The child on side fd of a pipe: close(fd), dup of its end, and the two  *)
(* descriptors of the pipe closed.                                         *)
Plumbed(of, path, fd) ==
  LET p0 == Fd(of, PipeEnds(path)[1])
      p1 == Fd(of, PipeEnds(path)[2])
      end == IF fd = 0 THEN p0 ELSE p1
  IN Close(Close(Dup(Close(of, fd), end), p0), p1)

Child(parent, path, of) == [at |-> path, pc |-> "run", n |-> 0, parent |-> parent, ofile |-> of]
With(f, pid, rec) == [q \in DOMAIN f \cup {pid} |-> IF q = pid THEN rec ELSE f[q]]

(* exit: descriptors are closed, children go to init, which waits for      *)
(* them at once; a process that has a parent stays until it is waited for. *)
Exited(f, p) ==
  LET rest == {q \in DOMAIN f \ {p} : ~(f[q].parent = p /\ f[q].pc = "zombie")}
      kept == IF f[p].parent = InitProc THEN rest ELSE rest \cup {p}
  IN [q \in kept |-> IF q = p THEN [f[p] EXCEPT !.pc = "zombie", !.ofile = [fd \in Fds |-> Closed]]
                     ELSE IF f[q].parent = p THEN [f[q] EXCEPT !.parent = InitProc] ELSE f[q]]

Exit(p) == proc' = Exited(proc, p)
-----------------------------------------------------------------------------
At(p, pc, type) == p \in DOMAIN proc /\ proc[p].pc = pc /\ cmd # None /\ Type(p) = type
Branch(p, b) == Append(proc[p].at, b)

(* fork1 panics when fork fails. *)
ForkFails(p) == "fork" \in Failures /\ Exit(p) /\ failed' = TRUE

(* main: read a line, fork a child for it, wait. *)
Main ==
  /\ main = "read"
  /\ \/ /\ proc' = With(proc, <<>>, Child(Shell, <<>>, Stdio))
        /\ main' = "wait" /\ UNCHANGED failed
     \/ "fork" \in Failures /\ main' = "gone" /\ failed' = TRUE /\ UNCHANGED proc
  /\ UNCHANGED <<meant, cmd>>

MainWait ==
  /\ main = "wait" /\ \E p \in DOMAIN proc :
       /\ proc[p].pc = "zombie" /\ proc[p].parent = Shell
       /\ proc' = [q \in DOMAIN proc \ {p} |-> proc[q]]
  /\ main' = "prompt"
  /\ UNCHANGED <<meant, cmd, failed>>

(* The child parses; a syntax error ends it. *)
Syntax(p) == cmd = None /\ p \in DOMAIN proc /\ proc[p].pc = "run" /\ Exit(p) /\ UNCHANGED <<meant, cmd, main, failed>>

RunExec(p) ==
  /\ At(p, "run", "EXEC")
  /\ \/ NodeAt(proc[p].at).arg # <<>> /\ proc' = [proc EXCEPT ![p].pc = "exec"]
     \/ (NodeAt(proc[p].at).arg = <<>> \/ "exec" \in Failures) /\ Exit(p)
  /\ UNCHANGED <<meant, cmd, main, failed>>

RunRedir(p) ==
  LET fd == IF NodeAt(proc[p].at).arg = <<"<">> THEN 0 ELSE 1 IN
  /\ At(p, "run", "REDIR")
  /\ \/ proc' = [proc EXCEPT ![p].ofile = fdalloc(Close(@, fd), File("file", proc[p].at)),
                             ![p].at = Branch(p, "l")]
     \/ "open" \in Failures /\ Exit(p)
  /\ UNCHANGED <<meant, cmd, main, failed>>

(* Mutant: the right side of a list does not wait for the left one. *)
BugListWaits == 0

(* The children that a list waits for. *)
ListWaits == 1

RunList(p) ==
  LET l == Branch(p, "l") IN
  /\ At(p, "run", "LIST")
  /\ \/ /\ proc' = With([proc EXCEPT ![p].pc = "wait", ![p].n = ListWaits], l, Child(p, l, proc[p].ofile))
        /\ UNCHANGED failed
     \/ ForkFails(p)
  /\ UNCHANGED <<meant, cmd, main>>

(* pipe and the first fork. *)
RunPipe(p) ==
  LET l == Branch(p, "l")
      of == Piped(proc[p].ofile, proc[p].at)
      free == Cardinality({fd \in Fds : proc[p].ofile[fd] = Closed})
  IN
  /\ At(p, "run", "PIPE")
  /\ \/ /\ free >= 2
        /\ proc' = With([proc EXCEPT ![p].pc = "pipe", ![p].ofile = of], l, Child(p, l, Plumbed(of, proc[p].at, 1)))
        /\ UNCHANGED failed
     \/ (free < 2 \/ "pipe" \in Failures) /\ Exit(p) /\ UNCHANGED failed
     \/ ForkFails(p)
  /\ UNCHANGED <<meant, cmd, main>>

(* Mutant: the parent keeps the ends of the pipe. *)
BugParentEnds(of, path) == of

(* What the parent keeps open while it waits. *)
ParentEnds(of, path) == CloseBoth(of, path)

(* The second fork. *)
RunPipeRight(p) ==
  LET r == Branch(p, "r")
      of == proc[p].ofile
  IN
  /\ At(p, "pipe", "PIPE")
  /\ \/ /\ proc' = With([proc EXCEPT ![p].pc = "wait", ![p].n = 2, ![p].ofile = ParentEnds(@, proc[p].at)],
                         r, Child(p, r, Plumbed(of, proc[p].at, 0)))
        /\ UNCHANGED failed
     \/ ForkFails(p)
  /\ UNCHANGED <<meant, cmd, main>>

RunBack(p) ==
  LET l == Branch(p, "l") IN
  /\ At(p, "run", "BACK")
  /\ \/ /\ proc' = Exited(With(proc, l, Child(p, l, proc[p].ofile)), p)
        /\ UNCHANGED failed
     \/ ForkFails(p)
  /\ UNCHANGED <<meant, cmd, main>>

(* wait(0) takes any child. *)
Wait(p) ==
  /\ p \in DOMAIN proc /\ proc[p].pc = "wait" /\ proc[p].n > 0
  /\ \E q \in DOMAIN proc :
       /\ proc[q].pc = "zombie" /\ proc[q].parent = p
       /\ proc' = [k \in DOMAIN proc \ {q} |-> IF k = p THEN [proc[p] EXCEPT !.n = @ - 1] ELSE proc[k]]
  /\ UNCHANGED <<meant, cmd, main, failed>>

AllWaited(p, type) == At(p, "wait", type) /\ proc[p].n = 0

(* After the last wait: the right side of a list, or the end of a pipe. *)
RunListRight(p) ==
  /\ AllWaited(p, "LIST")
  /\ proc' = [proc EXCEPT ![p].pc = "run", ![p].at = Branch(p, "r")]
  /\ UNCHANGED <<meant, cmd, main, failed>>

PipeEnd(p) == AllWaited(p, "PIPE") /\ Exit(p) /\ UNCHANGED <<meant, cmd, main, failed>>
-----------------------------------------------------------------------------
(* The programs: the one that reads its input to the end exits when there  *)
(* is no more; any program may exit earlier.                               *)
WriteOpen(path) == \E q \in DOMAIN proc, fd \in Fds : proc[q].ofile[fd] = File("w", path)
AtEof(file) == file.kind = "r" => ~WriteOpen(file.id)

Program(p) ==
  /\ p \in DOMAIN proc /\ proc[p].pc = "exec"
  /\ AtEof(proc[p].ofile[0])
  /\ Exit(p) /\ UNCHANGED <<meant, cmd, main, failed>>

ProgramStops(p) ==
  /\ p \in DOMAIN proc /\ proc[p].pc = "exec"
  /\ Exit(p) /\ UNCHANGED <<meant, cmd, main, failed>>

runcmd(p) ==
  \/ Syntax(p) \/ RunExec(p) \/ RunRedir(p) \/ RunList(p) \/ RunPipe(p) \/ RunPipeRight(p)
  \/ RunBack(p) \/ Wait(p) \/ RunListRight(p) \/ PipeEnd(p)

Done == main \in {"prompt", "gone"} /\ DOMAIN proc = {}
Step == Main \/ MainWait \/ \E p \in DOMAIN proc : runcmd(p) \/ Program(p)
Next == Step \/ (\E p \in DOMAIN proc : ProgramStops(p)) \/ (Done /\ UNCHANGED vars)

Spec == Init /\ [][Next]_vars

(* The kernel runs every process that can run; a program reads on.  Every  *)
(* behaviour is finite, so fairness of the whole is fairness of each.      *)
LiveSpec == Spec /\ WF_vars(Step)
-----------------------------------------------------------------------------
(* The parser reads the structure that is meant: how pipes, lists, blocks, *)
(* background and redirections nest in what is typed is how they nest in   *)
(* the command that is run, and no argument is lost, be it before, between *)
(* or after the redirections that parseexec wraps around the command while *)
(* it goes on adding arguments to the command inside.                      *)
ParsesWhatIsMeant == meant # None => cmd = meant

(* Standard input or output of the node at path: the innermost redirection *)
(* or pipe around it decides.                                              *)
RECURSIVE Expected(_, _)
Expected(path, fd) ==
  IF path = <<>> THEN Tty
  ELSE LET up == Front(path)
           node == NodeAt(up)
       IN CASE node.type = "REDIR" /\ (fd = 0) = (node.arg = <<"<">>) -> File("file", up)
            [] node.type = "PIPE" /\ fd = 0 /\ Last(path) = "r" -> File("r", up)
            [] node.type = "PIPE" /\ fd = 1 /\ Last(path) = "l" -> File("w", up)
            [] OTHER -> Expected(up, fd)

(* A program starts with the input and output its place in the command     *)
(* calls for and with nothing else open, after all the close, dup, pipe    *)
(* and open calls of the processes it comes from.                          *)
StdioRight ==
  \A p \in DOMAIN proc : proc[p].pc = "exec" =>
    proc[p].ofile = [fd \in Fds |-> IF fd < 2 THEN Expected(proc[p].at, fd) ELSE IF fd = 2 THEN Tty ELSE Closed]

(* A background node at or below base on the way to path. *)
InBackground(path, base) ==
  \E k \in Len(base) .. Len(path) - 1 : NodeAt(SubSeq(path, 1, k)).type = "BACK"
Running == {p \in DOMAIN proc : proc[p].pc # "zombie"}

(* The shell prompts, and a list goes on to its right side, only when      *)
(* everything before that is not in the background has ended, although     *)
(* wait(0) takes any child (unless fork has failed half-way).              *)
ForegroundWaited ==
  ~failed =>
    \A p \in Running :
      /\ main = "prompt" => InBackground(proc[p].at, <<>>)
      /\ \A k \in 0 .. Len(proc[p].at) - 1 :
           LET list == SubSeq(proc[p].at, 1, k) IN
           NodeAt(list).type = "LIST" /\ proc[p].at[k + 1] = "l" =>
             \A q \in Running :
               IsPrefix(Append(list, "r"), proc[q].at) => InBackground(proc[p].at, Append(list, "l"))

(* Every command line comes to an end when its programs read to the end of *)
(* their input: no process keeps open the write end of a pipe that another *)
(* one waits to see closed, whatever fails half-way.                       *)
LineEnds == <>Done
=============================================================================
