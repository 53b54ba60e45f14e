-------------------------- MODULE PagingRefinement --------------------------
(***************************************************************************)
(* What a program sees of Paging, and how the kernel implements the        *)
(* private memories of UserMemory with it.                                 *)
(***************************************************************************)
EXTENDS Paging

Backing(i, a) == IF a \in Text[i] \cup Data[i] THEN FromFile(i, a) ELSE Zero
InitialMemory(i) ==
  [a \in Page |-> IF a = StackPage[i] THEN Args ELSE Backing(i, a)]
InitialBrk(i) == StackPage[i] + 1
ReadOnly(i) == Text[i]

\* What a load from the page returns, after the fault it may cause: the
\* frame, else the swap slot, else the executable, else zeros.
Sees(p, a) ==
  LET s == swapin_slot(vm[p], a)
  IN  IF ismapped(p, a) THEN mem[pt[p][a]]
      ELSE IF was_swapped(vm[p].pages, a) /\ s \in Slot THEN swap[p][s]
      ELSE Backing(image[p], a)

\* The processes that will run in user mode again.
CanRun == {p \in Proc : pstate[p] = "LIVE" /\ fault[p].at # "exit"}

View ==
  [p \in Proc |-> [a \in Page |->
     IF p \in CanRun /\ a < sz[p] THEN Sees(p, a) ELSE Zero]]

UM == INSTANCE UserMemory WITH
        Value <- {Stored(v) : v \in Val},
        live <- CanRun,
        program <- image,
        brk <- [p \in Proc |-> IF p \in CanRun THEN sz[p] ELSE 0],
        memory <- View

\* Demand paging is invisible: the kernel implements private memories.
ImplementsUserMemory == UM!Spec
=============================================================================
