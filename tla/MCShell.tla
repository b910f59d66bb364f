------------------------------ MODULE MCShell -------------------------------
(* Instances of Shell for model checking: all commands of two levels and   *)
(* some deeper ones; all lines of up to four characters, and some that are *)
(* wrong further on.                                                       *)
EXTENDS Shell

Simple == {execcmd, [execcmd EXCEPT !.arg = <<"a">>]}
Level(trees) ==
  {redircmd(t, tok) : t \in trees, tok \in {"<", ">", "+"}} \cup {backcmd(t) : t \in trees} \cup
  {pipecmd(t, u) : t, u \in trees} \cup {listcmd(t, u) : t, u \in trees}

a == [execcmd EXCEPT !.arg = <<"a", "a">>]
MCCommands ==
  Level(Simple \cup Level(Simple)) \cup
  { pipecmd(a, pipecmd(a, pipecmd(a, a))),
    pipecmd(pipecmd(redircmd(redircmd(a, "+"), "<"), a), pipecmd(redircmd(a, ">"), a)),
    listcmd(pipecmd(listcmd(backcmd(a), a), a), a),
    listcmd(backcmd(pipecmd(a, backcmd(a))), pipecmd(a, a)) }

MCLines ==
  SeqOf(symbols \cup {" ", "a"}, 4) \cup
  { <<"a", " ", "a", " ", "a">>,
    <<"(", "a", "|", "a", ")", ">", "a", " ", "a">>,
    <<"a", "&", "a", ";", "a">> }
=============================================================================
