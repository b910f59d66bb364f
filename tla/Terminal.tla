------------------------------ MODULE Terminal ------------------------------
(***************************************************************************)
(* What the console promises to those who read it: input that can be       *)
(* edited until the line is ended, and is then delivered once, in order.   *)
(***************************************************************************)
EXTENDS Naturals, Sequences

CONSTANTS
  Chars, Enders,  \* characters, and those that end a line
  Eof,            \* the one of them that means end of file
  Size            \* capacity

VARIABLES
  line,  \* typed, can still be erased
  ready  \* to be read

vars == <<line, ready>>

Init == line = <<>> /\ ready = <<>>

(* A character; when there is no room it is dropped.  The line is over at  *)
(* an end of line or when it fills the rest of the room.                   *)
Key(c) ==
  LET full == Len(ready) + Len(line) + 1 = Size IN
  /\ Len(ready) + Len(line) < Size
  /\ \/ /\ c \in Enders \/ full
        /\ ready' = ready \o Append(line, c) /\ line' = <<>>
     \/ /\ c \notin Enders /\ ~full
        /\ line' = Append(line, c) /\ UNCHANGED ready

Erase == line # <<>> /\ line' = SubSeq(line, 1, Len(line) - 1) /\ UNCHANGED ready
KillLine == line' = <<>> /\ UNCHANGED ready

(* A read takes a prefix, never more than the rest of one line; an end of  *)
(* file is taken alone, by the read that returns nothing.                  *)
Take ==
  \E k \in 1 .. Len(ready) :
    /\ \A j \in 1 .. k - 1 : ready[j] \notin Enders
    /\ ready[k] = Eof => k = 1
    /\ ready' = SubSeq(ready, k + 1, Len(ready)) /\ UNCHANGED line

Next == (\E c \in Chars : Key(c)) \/ Erase \/ KillLine \/ Take
Spec == Init /\ [][Next]_vars
=============================================================================
