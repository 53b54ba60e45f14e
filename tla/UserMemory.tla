----------------------------- MODULE UserMemory -----------------------------
(***************************************************************************)
(* What demand paging promises a program: every live process has a memory  *)
(* of its own, one value per page below its break, which changes only when *)
(* the process stores into it or asks for a change (sbrk, exec).  fork     *)
(* gives the child a copy.  Frames, page tables, faults, evictions and     *)
(* swap slots do not appear.                                               *)
(***************************************************************************)
EXTENDS Integers

CONSTANTS
  Proc, Page, Image, Value,
  Zero,               \* what a fresh anonymous page holds
  InitialMemory(_),   \* the memory exec gives a process, per executable
  InitialBrk(_),
  Backing(_, _),      \* what a page of an executable holds before any store
  ReadOnly(_)         \* the text of an executable

VARIABLES
  live,      \* processes that can still touch their memory
  program,   \* the executable of each live process
  brk,       \* pages below the break
  memory     \* contents; Zero for pages a process does not have

vars == <<live, program, brk, memory>>

NoMemory == [a \in Page |-> Zero]

Init ==
  /\ live \subseteq Proc
  /\ program \in [Proc -> Image]
  /\ brk = [p \in Proc |-> IF p \in live THEN InitialBrk(program[p]) ELSE 0]
  /\ memory = [p \in Proc |-> IF p \in live THEN InitialMemory(program[p])
                                            ELSE NoMemory]

Write(p) ==
  /\ p \in live
  /\ \E a \in Page, v \in Value :
       /\ a < brk[p] /\ a \notin ReadOnly(program[p])
       /\ memory' = [memory EXCEPT ![p][a] = v]
  /\ UNCHANGED <<live, program, brk>>

Grow(p) ==
  /\ p \in live /\ brk[p] \in Page
  /\ brk' = [brk EXCEPT ![p] = @ + 1]
  /\ \E v \in {Zero, Backing(program[p], brk[p])} :
       memory' = [memory EXCEPT ![p][brk[p]] = v]
  /\ UNCHANGED <<live, program>>

Shrink(p) ==
  /\ p \in live
  /\ \E n \in 0 .. brk[p] - 1 :
       /\ brk' = [brk EXCEPT ![p] = n]
       /\ memory' = [memory EXCEPT ![p] =
                       [a \in Page |-> IF a < n THEN @[a] ELSE Zero]]
  /\ UNCHANGED <<live, program>>

Fork(p) ==
  /\ p \in live
  /\ \E c \in Proc \ live :
       /\ live' = live \cup {c}
       /\ program' = [program EXCEPT ![c] = program[p]]
       /\ brk' = [brk EXCEPT ![c] = brk[p]]
       /\ memory' = [memory EXCEPT ![c] = memory[p]]

Exec(p) ==
  /\ p \in live
  /\ \E i \in Image :
       /\ program' = [program EXCEPT ![p] = i]
       /\ brk' = [brk EXCEPT ![p] = InitialBrk(i)]
       /\ memory' = [memory EXCEPT ![p] = InitialMemory(i)]
  /\ UNCHANGED live

Exit(p) ==
  /\ p \in live
  /\ live' = live \ {p}
  /\ brk' = [brk EXCEPT ![p] = 0]
  /\ memory' = [memory EXCEPT ![p] = NoMemory]
  /\ UNCHANGED program

Next ==
  \E p \in Proc :
    Write(p) \/ Grow(p) \/ Shrink(p) \/ Fork(p) \/ Exec(p) \/ Exit(p)

Spec == Init /\ [][Next]_vars
=============================================================================
