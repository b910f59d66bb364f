------------------------------- MODULE Console ------------------------------
(***************************************************************************)
(* kernel/console.c and kernel/uart.c: line editing by the interrupt       *)
(* handler, readers that sleep for a line, writers that sleep for room in  *)
(* the transmit buffer, and the device that both sides drive.              *)
(*                                                                         *)
(* Grain.  consoleread holds cons.lock from one sleep to the next, and is  *)
(* one step each time.  The test of LSR and the write of THR are two, in   *)
(* uartstart, which has uart_tx_lock, and in the echo of consoleintr,      *)
(* which has not.  The transmit buffer is the number of characters in it   *)
(* (its indices are 64 bits wide); cons.r, w and e wrap.  A slot of        *)
(* cons.buf that has been read is dead until it is written again: it is    *)
(* reset.                                                                  *)
(***************************************************************************)
EXTENDS Naturals, Sequences

CONSTANTS
  Readers, Writers,
  INPUT_BUF_SIZE, UINT,  \* ring, and number of values of r, w and e
  UART_TX_BUF_SIZE,
  MaxRead,               \* bound: longest read
  None

ASSUME ConstAssumption ==
  /\ INPUT_BUF_SIZE \in Nat \ {0} /\ UINT \in Nat /\ UINT > INPUT_BUF_SIZE /\ UINT % INPUT_BUF_SIZE = 0
  /\ UART_TX_BUF_SIZE \in Nat \ {0} /\ MaxRead \in Nat \ {0}

VARIABLES
  buf, r, w, e,  \* cons
  rd,            \* readers: where, what is left to read, whether some was read, killed
  wr,            \* writers: where; "uartstart" (at its loop) and "thr" (about to write THR)
  tx,            \* characters in uart_tx_buf
  busy,          \* device: the transmit holding register is full
  rx,            \* device: a character has been received (which, is chosen when it is read)
  irq,           \* device: an interrupt is pending
  handler        \* uartintr: "idle", "rx" (its loop), "echo" (about to write THR), "tx" (about
                 \* to lock the transmit buffer), "uartstart" and "thr" as for writers

cons == <<buf, r, w, e>>
uart == <<tx, busy, rx, irq, handler>>
vars == <<cons, rd, wr, uart>>

Ender == {"nl", "eof"}
Char == {"x"} \cup Ender
Keys == Char \cup {"erase", "kill", "list"}
Slot == 0 .. INPUT_BUF_SIZE - 1
User == [pc |-> "user", n |-> 0, some |-> FALSE, killed |-> FALSE]

TypeOK ==
  /\ buf \in [Slot -> Char \cup {None}] /\ {r, w, e} \subseteq 0 .. UINT - 1
  /\ rx \in BOOLEAN /\ tx \in 0 .. UART_TX_BUF_SIZE
  /\ rd \in [Readers -> [pc : {"user", "sleep", "woken"}, n : 0 .. MaxRead, some : BOOLEAN, killed : BOOLEAN]]
  /\ wr \in [Writers -> {"user", "woken", "sleep", "uartstart", "thr"}]

(* consoleinit and uartinit. *)
Init ==
  /\ buf = [s \in Slot |-> None] /\ r = 0 /\ w = 0 /\ e = 0
  /\ rd = [p \in Readers |-> User] /\ wr = [p \in Writers |-> "user"]
  /\ tx = 0 /\ busy = FALSE /\ rx = FALSE /\ irq = FALSE /\ handler = "idle"

Plus(i, k) == (i + k) % UINT
Minus(i, k) == (i + UINT - k) % UINT
-----------------------------------------------------------------------------
Contents(from, to) == [k \in 1 .. Minus(to, from) |-> buf[Plus(from, k - 1) % INPUT_BUF_SIZE]]

Consume(k) ==
  /\ r' = Plus(r, k)
  /\ buf' = [s \in Slot |-> IF \E j \in 0 .. k - 1 : Plus(r, j) % INPUT_BUF_SIZE = s THEN None ELSE buf[s]]

(* Mutant: an end of file is taken even after other characters. *)
BugTaken(c, k, some) == k

(* The characters that go when the k-th, c, is the last one looked at: an  *)
(* end of file that follows others is left for the next read.              *)
Taken(c, k, some) == IF c = "eof" /\ (some \/ k > 1) THEN k - 1 ELSE k

(* consoleread from where it takes cons.lock, n characters still wanted    *)
(* and some read before: it returns at the end of a line or of the file,   *)
(* with all it asked for, or when a character cannot be copied out; it     *)
(* goes to sleep when it has read all there is, unless it has been killed. *)
consoleread(p, n, some, killed) ==
  LET ready == Contents(r, w)
      max == IF n < Len(ready) THEN n ELSE Len(ready)
      plain(k) == \A j \in 1 .. k : ready[j] = "x"
  IN
  /\ \/ \E k \in 1 .. max :
          /\ plain(k - 1)
          /\ Consume(Taken(ready[k], k, some))
          /\ rd' = [rd EXCEPT ![p] = User]
     \/ /\ Len(ready) < n /\ plain(Len(ready))
        /\ Consume(Len(ready))
        /\ \/ rd' = [rd EXCEPT ![p] = User]
           \/ /\ ~killed
              /\ rd' = [rd EXCEPT ![p] = [pc |-> "sleep", n |-> n - Len(ready),
                                          some |-> some \/ ready # <<>>, killed |-> FALSE]]
  /\ UNCHANGED <<w, e, wr, uart>>

(* cons.lock is free. *)
Unlocked == handler # "echo"

Read(p) == rd[p].pc = "user" /\ Unlocked /\ \E n \in 1 .. MaxRead : consoleread(p, n, FALSE, FALSE)
Woken(p) == rd[p].pc = "woken" /\ Unlocked /\ consoleread(p, rd[p].n, rd[p].some, rd[p].killed)

(* kill wakes a sleeper. *)
Kill(p) ==
  /\ rd[p].pc = "sleep"
  /\ rd' = [rd EXCEPT ![p].killed = TRUE, ![p].pc = "woken"]
  /\ UNCHANGED <<cons, wr, uart>>
-----------------------------------------------------------------------------
(* uartputc_sync has seen the device idle; others may have used it since. *)
uartputc_sync == busy' = TRUE

(* Echo: one character stands for the three that rub one out. *)
consputc == handler = "echo" /\ uartputc_sync

(* What ends a line: e1 is the edit index after c. *)
Ends(c, e1) == c \in Ender \/ Minus(e1, r) = INPUT_BUF_SIZE

(* Mutant: one reader is woken for one line. *)
BugWakeReaders ==
  LET asleep == {p \in Readers : rd[p].pc = "sleep"} IN
  rd' = IF asleep = {} THEN rd ELSE [rd EXCEPT ![CHOOSE p \in asleep : TRUE].pc = "woken"]

WakeReaders == rd' = [p \in Readers |-> IF rd[p].pc = "sleep" THEN [rd[p] EXCEPT !.pc = "woken"] ELSE rd[p]]

Room == Minus(e, r) < INPUT_BUF_SIZE

(* consoleintr(c): an ordinary character, or the end of a line. *)
Insert(c) ==
  LET e1 == Plus(e, 1) IN
  /\ Room /\ consputc
  /\ buf' = [buf EXCEPT ![e % INPUT_BUF_SIZE] = c]
  /\ e' = e1
  /\ IF Ends(c, e1) THEN w' = e1 /\ WakeReaders ELSE UNCHANGED <<w, rd>>
  /\ UNCHANGED r

(* consoleintr of backspace: the last character, unless it is committed. *)
Erase ==
  /\ e # w /\ consputc
  /\ e' = Minus(e, 1)
  /\ buf' = [buf EXCEPT ![e' % INPUT_BUF_SIZE] = None]
  /\ UNCHANGED <<r, w, rd>>

(* consoleintr of ^U: back to the last newline or to what is committed. *)
KillLine ==
  \E k \in 1 .. Minus(e, w) :
    /\ \A j \in 1 .. k : buf[Minus(e, j) % INPUT_BUF_SIZE] # "nl"
    /\ k = Minus(e, w) \/ buf[Minus(e, k + 1) % INPUT_BUF_SIZE] = "nl"
    /\ consputc
    /\ e' = Minus(e, k)
    /\ buf' = [s \in Slot |-> IF \E j \in 1 .. k : Minus(e, j) % INPUT_BUF_SIZE = s THEN None ELSE buf[s]]
    /\ UNCHANGED <<r, w, rd>>

(* The other keys: ^P, and those that find nothing to do. *)
Ignored(c) ==
  /\ \/ c = "list"
     \/ c \in Char /\ ~Room
     \/ c \in {"erase", "kill"} /\ e = w
  /\ handler = "rx"
  /\ UNCHANGED <<cons, rd, busy>>

consoleintr(c) ==
  \/ c \in Char /\ Insert(c)
  \/ c = "erase" /\ Erase
  \/ c = "kill" /\ KillLine
  \/ Ignored(c)
-----------------------------------------------------------------------------
(* uart_tx_lock is held, by who is in uartstart. *)
InUartstart == {"uartstart", "thr"}
TxLocked == handler \in InUartstart \/ \E p \in Writers : wr[p] \in InUartstart

(* uartstart's tests; it goes on after each character. *)
Starts == tx > 0 /\ ~busy

WakeWriters(f) == [p \in Writers |-> IF f[p] = "sleep" THEN "woken" ELSE f[p]]

uartputc(p) ==
  /\ ~TxLocked
  /\ \/ /\ tx = UART_TX_BUF_SIZE
        /\ wr' = [wr EXCEPT ![p] = "sleep"]
        /\ UNCHANGED tx
     \/ /\ tx < UART_TX_BUF_SIZE
        /\ tx' = tx + 1
        /\ wr' = [wr EXCEPT ![p] = "uartstart"]
  /\ UNCHANGED <<cons, rd, busy, rx, irq, handler>>

(* uartstart in uartputc: a character is taken, with sleepers woken for    *)
(* its room, and then written.                                             *)
WriterStart(p) ==
  /\ wr[p] = "uartstart"
  /\ \/ /\ Starts
        /\ tx' = tx - 1
        /\ wr' = [WakeWriters(wr) EXCEPT ![p] = "thr"]
     \/ /\ ~Starts
        /\ wr' = [wr EXCEPT ![p] = "user"]
        /\ UNCHANGED tx
  /\ UNCHANGED <<cons, rd, busy, rx, irq, handler>>

WriterTHR(p) ==
  /\ wr[p] = "thr"
  /\ busy' = TRUE
  /\ wr' = [wr EXCEPT ![p] = "uartstart"]
  /\ UNCHANGED <<cons, rd, tx, rx, irq, handler>>

(* consolewrite calls uartputc for each character; or sleep returns in it. *)
consolewrite(p) == wr[p] = "user" /\ uartputc(p)
WriterWoken(p) == wr[p] = "woken" /\ uartputc(p)
-----------------------------------------------------------------------------
(* The device: a key arrives, or the register is sent. *)
Receive == ~rx /\ rx' = TRUE /\ irq' = TRUE /\ UNCHANGED <<cons, rd, wr, tx, busy, handler>>
TxDone == busy /\ busy' = FALSE /\ irq' = TRUE /\ UNCHANGED <<cons, rd, wr, tx, rx, handler>>

(* uartintr, on one CPU at a time (the PLIC's claim). *)
Interrupt ==
  /\ irq /\ handler = "idle"
  /\ irq' = FALSE /\ handler' = "rx"
  /\ UNCHANGED <<cons, rd, wr, tx, busy, rx>>

(* uartputc_sync spins until the device is idle, for a key that is echoed. *)
EchoWait ==
  /\ handler = "rx" /\ rx /\ ~busy
  /\ Room \/ e # w
  /\ handler' = "echo"
  /\ UNCHANGED <<cons, rd, wr, tx, busy, rx, irq>>

(* uartgetc and consoleintr. *)
HandleKey ==
  /\ handler \in {"rx", "echo"} /\ rx
  /\ \E c \in Keys : consoleintr(c)
  /\ rx' = FALSE /\ handler' = "rx"
  /\ UNCHANGED <<wr, tx, irq>>

NoMoreKeys ==
  /\ handler = "rx" /\ ~rx
  /\ handler' = "tx"
  /\ UNCHANGED <<cons, rd, wr, tx, busy, rx, irq>>

(* Mutant: uartintr does not look at the output. *)
BugIntrSends == FALSE

IntrSends == Starts

(* uartstart in uartintr. *)
HandlerStart ==
  /\ handler = "uartstart" \/ (handler = "tx" /\ ~TxLocked)
  /\ \/ /\ IntrSends
        /\ tx' = tx - 1 /\ wr' = WakeWriters(wr) /\ handler' = "thr"
     \/ /\ ~IntrSends
        /\ handler' = "idle" /\ UNCHANGED <<tx, wr>>
  /\ UNCHANGED <<cons, rd, busy, rx, irq>>

HandlerTHR ==
  /\ handler = "thr"
  /\ busy' = TRUE /\ handler' = "uartstart"
  /\ UNCHANGED <<cons, rd, wr, tx, rx, irq>>

Intr == Interrupt \/ EchoWait \/ HandleKey \/ NoMoreKeys \/ HandlerStart \/ HandlerTHR

Next ==
  \/ \E p \in Readers : Read(p) \/ Woken(p) \/ Kill(p)
  \/ \E p \in Writers : consolewrite(p) \/ WriterWoken(p) \/ WriterStart(p) \/ WriterTHR(p)
  \/ Receive \/ TxDone \/ Intr

Spec == Init /\ [][Next]_vars
-----------------------------------------------------------------------------
Abstract == INSTANCE Terminal WITH
  Chars <- Char, Enders <- Ender, Eof <- "eof", Size <- INPUT_BUF_SIZE,
  line <- Contents(w, e), ready <- Contents(r, w)

(* The console is a terminal: what has been typed can be erased until the  *)
(* line ends and then reaches the readers once and in order, through a     *)
(* ring whose indices wrap and are moved by the handler and by readers.    *)
IsTerminal == Abstract!Spec

(* Nobody sleeps for what is there: a reader while there is a line, or     *)
(* what another one has left of it (the rest of a short read, an end of    *)
(* file that was put back), a writer while the transmit buffer has room.   *)
NoLostWakeup ==
  /\ \A p \in Readers : rd[p].pc = "sleep" => r = w
  /\ \A p \in Writers : wr[p] = "sleep" => tx = UART_TX_BUF_SIZE

(* Output never stalls: while characters wait in the transmit buffer, the  *)
(* device is sending one, an interrupt is on its way to uartstart, or a    *)
(* writer is in it, even when echo, which does not take uart_tx_lock,      *)
(* takes the device between the test of LSR and the write of THR.          *)
OutputMoves == tx > 0 => busy \/ irq \/ handler # "idle" \/ \E p \in Writers : wr[p] \in InUartstart
=============================================================================
