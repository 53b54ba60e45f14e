------------------------------ MODULE Console ------------------------------
(***************************************************************************)
(* The console (kernel/console.c) and the serial port (kernel/uart.c):     *)
(* line editing in the input interrupt, read() of a line, write() through  *)
(* the transmit interrupt, and the echo, which waits for the port without  *)
(* it.  Composed with processes and pipes (modules Proc and Pipe).         *)
(***************************************************************************)
EXTENDS Pipe

CONSTANTS
  INPUT_BUF_SIZE,
  IndexMod,   \* range of cons.r, cons.w and cons.e, 2^32 in the code
  MaxChars,   \* characters that a read() or a write() asks for
  MaxTyped    \* bound: characters typed, for each menu of calls

ASSUME ConsoleAssumption ==
  /\ INPUT_BUF_SIZE \in Nat /\ INPUT_BUF_SIZE > 0 /\ MaxChars \in Nat \ {0} /\ MaxTyped \in [Menu -> Nat]
  /\ IndexMod \in Nat /\ IndexMod > INPUT_BUF_SIZE /\ IndexMod % INPUT_BUF_SIZE = 0

Char == {"x", "newline", "eof"}

VARIABLES
  cons,      \* buf and the indices r, w and e
  line,      \* what the last read() of each process has copied out
  uart,      \* tx_busy; of the device: characters to send, interrupt raised
  typed      \* for the bound

consVars == <<cons, line>>
ttyVars == <<cons, line, uart, typed>>
allVars == <<vars, ttyVars>>

\* After input that readers have consumed: the indices are about to wrap.
ConsoleInit ==
  /\ Init
  /\ cons = [buf |-> [i \in 0 .. INPUT_BUF_SIZE - 1 |-> "x"],
             r |-> IndexMod - 1, w |-> IndexMod - 1, e |-> IndexMod - 1]
  /\ line = [p \in Slot |-> <<>>]
  /\ uart = [busy |-> FALSE, fifo |-> 0, irq |-> FALSE]
  /\ typed = 0

\* The difference of two indices.
Minus(a, b) == (a + IndexMod - b) % IndexMod

Chars(from, to) ==
  [i \in 1 .. Minus(to, from) |-> cons.buf[((from + i - 1) % IndexMod) % INPUT_BUF_SIZE]]

-----------------------------------------------------------------------------
(* consoleread(). *)

ConsoleRead(p, n) ==
  /\ Enter(p, "cread")
  /\ Acquire(p, "cons")
  /\ loc' = [loc EXCEPT ![p] = [@ EXCEPT !.i = 0, !.n = n]]
  /\ line' = [line EXCEPT ![p] = <<>>]
  /\ Go(p, "cread")
  /\ UNCHANGED <<tableVars, plock, on, sub, deviceVars, panicked, pipeVars,
                 cons, uart, typed>>

ConsoleWait(p) ==
  /\ At(p, "cread") /\ cons.r = cons.w
  /\ IF killed[p]
     THEN Release("cons") /\ Done(p) /\ UNCHANGED sub
     ELSE Sleep(p, Chan("cons.r"), "cons", "cread") /\ UNCHANGED <<lock, loc>>
  /\ UNCHANGED <<tableVars, plock, on, deviceVars, panicked, bounds, pipeVars, ttyVars>>

\* One character.  An end of file stays for the next read() when this one has
\* something to return.
ConsoleChar(p) ==
  LET c == cons.buf[cons.r % INPUT_BUF_SIZE]
      eof == c = "eof"
      ends == eof \/ c = "newline" \/ loc[p].i + 1 = loc[p].n
  IN  /\ At(p, "cread") /\ cons.r # cons.w
      /\ cons' = IF eof /\ loc[p].i > 0 THEN cons
                 ELSE [cons EXCEPT !.r = (@ + 1) % IndexMod]
      /\ line' = IF eof THEN line ELSE [line EXCEPT ![p] = Append(@, c)]
      /\ IF ends THEN Release("cons") /\ Done(p)
         ELSE loc' = [loc EXCEPT ![p].i = @ + 1] /\ UNCHANGED <<lock, pc>>
      /\ UNCHANGED <<tableVars, plock, on, sub, deviceVars, panicked, bounds,
                     pipeVars, uart, typed>>

\* copyout() fails: the character is lost and read() returns what it has.
ConsoleCopyFails(p) ==
  /\ At(p, "cread") /\ cons.r # cons.w /\ cons.buf[cons.r % INPUT_BUF_SIZE] # "eof"
  /\ cons' = [cons EXCEPT !.r = (@ + 1) % IndexMod]
  /\ Release("cons") /\ Done(p)
  /\ UNCHANGED <<tableVars, plock, on, sub, deviceVars, panicked, bounds, pipeVars,
                 line, uart, typed>>

-----------------------------------------------------------------------------
(* consolewrite() of n characters: uartwrite(). *)

UartWrite(p, n) ==
  /\ Enter(p, "cwrite")
  /\ Acquire(p, "uart")
  /\ loc' = [loc EXCEPT ![p] = [@ EXCEPT !.i = 0, !.n = n]]
  /\ Go(p, "cwrite")
  /\ UNCHANGED <<tableVars, plock, on, sub, deviceVars, panicked, pipeVars, ttyVars>>

UartWait(p) ==
  /\ At(p, "cwrite") /\ loc[p].i < loc[p].n /\ uart.busy
  /\ Sleep(p, Chan("tx_chan"), "uart", "cwrite")
  /\ UNCHANGED <<tableVars, plock, lock, on, loc, deviceVars, panicked, bounds,
                 pipeVars, ttyVars>>

UartSend(p) ==
  /\ At(p, "cwrite") /\ loc[p].i < loc[p].n /\ ~uart.busy
  /\ uart' = [uart EXCEPT !.busy = TRUE, !.fifo = @ + 1]
  /\ loc' = [loc EXCEPT ![p].i = @ + 1]
  /\ UNCHANGED <<tableVars, plock, lock, on, pc, sub, deviceVars, panicked, bounds,
                 pipeVars, consVars, typed>>

UartDone(p) ==
  /\ At(p, "cwrite") /\ loc[p].i = loc[p].n
  /\ Release("uart")
  /\ Done(p)
  /\ UNCHANGED <<tableVars, plock, on, sub, deviceVars, panicked, bounds, pipeVars,
                 ttyVars>>

-----------------------------------------------------------------------------
(* The device and its interrupts, on any CPU that accepts them. *)

\* The port has sent what it was given, and raises an interrupt (external).
TxEmpty ==
  /\ uart.fifo > 0
  /\ uart' = [uart EXCEPT !.fifo = 0, !.irq = TRUE]
  /\ UNCHANGED <<vars, consVars, typed>>

Interrupted(l) ==
  /\ panicked = "" /\ lock[l] = NoCpu
  /\ \E c \in Cpu : noff(c) = 0

WakeAll(ch) ==
  /\ \A q \in Woken(ch) : plock[q] = NoCpu
  /\ state' = [q \in Slot |-> IF q \in Woken(ch) THEN "RUNNABLE" ELSE state[q]]
  /\ UNCHANGED <<chan, killed, parent, plock, lock, on, threadVars, deviceVars,
                 panicked, bounds, pipeVars>>

\* uartintr(), the transmit part: the port may be busy again with an echo.
UartIntr ==
  /\ Interrupted("uart") /\ uart.irq
  /\ IF uart.fifo = 0
     THEN uart' = [uart EXCEPT !.irq = FALSE, !.busy = FALSE] /\ WakeAll(Chan("tx_chan"))
     ELSE uart' = [uart EXCEPT !.irq = FALSE] /\ UNCHANGED vars
  /\ UNCHANGED <<consVars, typed>>

\* uartputc_sync(): waits until the port is empty, without tx_lock.
Echo == uart.fifo = 0 /\ uart' = [uart EXCEPT !.fifo = 1]

Typed == typed < MaxTyped[menu] /\ typed' = typed + 1

\* consoleintr() of a character.  Mutant: a full buffer is not a line.
ConsoleIntr_NotFull(c) ==
  LET e == (cons.e + 1) % IndexMod
      stored == [cons EXCEPT !.buf[cons.e % INPUT_BUF_SIZE] = c, !.e = e]
      whole == c \in {"newline", "eof"}
  IN  /\ Interrupted("cons") /\ Typed
      /\ Minus(cons.e, cons.r) < INPUT_BUF_SIZE /\ Echo
      /\ cons' = IF whole THEN [stored EXCEPT !.w = e] ELSE stored
      /\ IF whole THEN WakeAll(Chan("cons.r")) ELSE UNCHANGED vars
      /\ UNCHANGED line

ConsoleIntr(c) ==
  LET e == (cons.e + 1) % IndexMod
      stored == [cons EXCEPT !.buf[cons.e % INPUT_BUF_SIZE] = c, !.e = e]
      whole == c \in {"newline", "eof"} \/ Minus(e, cons.r) = INPUT_BUF_SIZE
  IN  /\ Interrupted("cons") /\ Typed
      /\ Minus(cons.e, cons.r) < INPUT_BUF_SIZE /\ Echo
      /\ cons' = IF whole THEN [stored EXCEPT !.w = e] ELSE stored
      /\ IF whole THEN WakeAll(Chan("cons.r")) ELSE UNCHANGED vars
      /\ UNCHANGED line

\* ^U and ^H.
ConsoleErase ==
  /\ Interrupted("cons") /\ Typed
  /\ cons.e # cons.w /\ Echo
  /\ \E e \in {cons.w, Minus(cons.e, 1)} : cons' = [cons EXCEPT !.e = e]
  /\ UNCHANGED <<vars, line>>

TtyNext ==
  \/ \E p \in Slot :
       \/ ConsoleRead(p, MaxChars) \/ UartWrite(p, MaxChars)
       \/ ConsoleWait(p) \/ ConsoleChar(p) \/ ConsoleCopyFails(p) \/ UartWait(p) \/ UartSend(p) \/ UartDone(p)
  \/ TxEmpty \/ UartIntr \/ ConsoleErase \/ \E c \in Char : ConsoleIntr(c)

SystemNext == (Next /\ UNCHANGED ttyVars) \/ TtyNext

\* Buffers of system calls are in memory.
SystemSpec == ConsoleInit /\ [][SystemNext]_allVars

\* They need not be: CopyFault of module Pipe.
LazySystemSpec ==
  ConsoleInit /\ [][SystemNext \/ (UNCHANGED ttyVars /\ \E p \in Slot : CopyFault(p))]_allVars

-----------------------------------------------------------------------------
(* Properties. *)

\* Nobody sleeps through what they wait for (sleep, wakeup; NoLostWakeup of
\* module Pipe): also, with the locks free, a process that sleeps in
\* consoleread() has no input and one that sleeps in uartwrite() faces a busy
\* port; and a busy port has characters to send or an interrupt to raise,
\* also when the echo used the port in between.
SleepersWake ==
  /\ NoLostWakeup
  /\ \A p \in Slot : state[p] = "SLEEPING" =>
       /\ lock["cons"] = NoCpu /\ chan[p] = Chan("cons.r") => cons.r = cons.w
       /\ lock["uart"] = NoCpu /\ chan[p] = Chan("tx_chan") => uart.busy
  /\ uart.busy => uart.fifo > 0 \/ uart.irq

L == INSTANCE LineInput WITH
       Reader <- Slot, Size <- INPUT_BUF_SIZE,
       complete <- Chars(cons.r, cons.w), edit <- Chars(cons.w, cons.e), got <- line

\* The three indices, which wrap around, implement an edited line and a queue
\* of complete input.
ImplementsLineInput == L!LSpec
=============================================================================
