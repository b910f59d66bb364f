----------------------------- MODULE ShellParser ----------------------------
(***************************************************************************)
(* The parser of user/sh.c: from the characters of a line to a command, a  *)
(* tree of nodes [type, arg, kids]; arg is the arguments of an EXEC and the *)
(* token of a REDIR.  All words are the same.                              *)
(***************************************************************************)
EXTENDS Naturals, Sequences, SequencesExt

CONSTANTS MAXARGS, None

whitespace == {" "}
symbols == {"<", "|", ">", "&", ";", "(", ")"}
-----------------------------------------------------------------------------
RECURSIVE Word(_), Tokens(_), parseline(_), parsepipe(_), parseargs(_, _), parseredirs(_), Backs(_), AddArg(_)

(* What is left after a word. *)
Word(s) == IF s # <<>> /\ Head(s) \notin whitespace \cup symbols THEN Word(Tail(s)) ELSE s

(* The tokens gettoken finds from the start of s to its end: a symbol, "+" *)
(* for >>, "a" for a word.                                                 *)
Tokens(s) ==
  IF s = <<>> THEN s
  ELSE IF Head(s) \in whitespace THEN Tokens(Tail(s))
  ELSE IF IsPrefix(<<">", ">">>, s) THEN <<"+">> \o Tokens(Tail(Tail(s)))
  ELSE IF Head(s) \in symbols THEN <<Head(s)>> \o Tokens(Tail(s))
  ELSE <<"a">> \o Tokens(Word(s))

(* A parser's result is a command and the tokens left, or Panic. *)
Panic == [cmd |-> None, rest |-> <<>>]
Result(c, rest) == [cmd |-> c, rest |-> rest]

peek(x, toks) == x.rest # <<>> /\ Head(x.rest) \in toks

Node(type, arg, kids) == [type |-> type, arg |-> arg, kids |-> kids]
execcmd == Node("EXEC", <<>>, <<>>)
redircmd(c, tok) == Node("REDIR", <<tok>>, <<c>>)
pipecmd(l, r) == Node("PIPE", <<>>, <<l, r>>)
listcmd(l, r) == Node("LIST", <<>>, <<l, r>>)
backcmd(c) == Node("BACK", <<>>, <<c>>)

parseredirs(x) ==
  IF ~peek(x, {"<", ">", "+"}) THEN x
  ELSE IF Len(x.rest) < 2 \/ x.rest[2] # "a" THEN Panic
  ELSE parseredirs(Result(redircmd(x.cmd, Head(x.rest)), Tail(Tail(x.rest))))

(* Mutant: an argument after a redirection is lost. *)
BugAddArg(c) == IF c.type = "EXEC" THEN [c EXCEPT !.arg = Append(@, "a")] ELSE c

(* An argument goes to the EXEC node under the redirections read so far. *)
AddArg(c) == IF c.type = "EXEC" THEN [c EXCEPT !.arg = Append(@, "a")] ELSE [c EXCEPT !.kids[1] = AddArg(@)]

(* The arguments of a command, n of them read. *)
parseargs(x, n) ==
  IF x.rest = <<>> \/ peek(x, {"|", ")", "&", ";"}) THEN x
  ELSE IF ~peek(x, {"a"}) \/ n + 1 >= MAXARGS THEN Panic
  ELSE parseargs(parseredirs(Result(AddArg(x.cmd), Tail(x.rest))), n + 1)

(* The end of a block, whose inside has been parsed. *)
BlockEnd(x) == IF peek(x, {")"}) THEN parseredirs(Result(x.cmd, Tail(x.rest))) ELSE Panic
parseblock(s) == BlockEnd(parseline(Tail(s)))

parseexec(s) ==
  IF peek(Result(None, s), {"("}) THEN parseblock(s) ELSE parseargs(parseredirs(Result(execcmd, s)), 0)

(* A pipeline or a list of what is parsed already and of y. *)
PipeWith(c, y) == IF y = Panic THEN Panic ELSE Result(pipecmd(c, y.cmd), y.rest)
ListWith(c, y) == IF y = Panic THEN Panic ELSE Result(listcmd(c, y.cmd), y.rest)

PipeRest(x) == IF peek(x, {"|"}) THEN PipeWith(x.cmd, parsepipe(Tail(x.rest))) ELSE x
parsepipe(s) == PipeRest(parseexec(s))

Backs(x) == IF peek(x, {"&"}) THEN Backs(Result(backcmd(x.cmd), Tail(x.rest))) ELSE x

ListRest(x) == IF peek(x, {";"}) THEN ListWith(x.cmd, parseline(Tail(x.rest))) ELSE x
parseline(s) == ListRest(Backs(parsepipe(s)))

(* The command, or None when the child that parses it panics. *)
Whole(x) == IF x.rest = <<>> THEN x.cmd ELSE None
parsecmd(s) == Whole(parseline(Tokens(s)))
=============================================================================
