------------------------------ MODULE MCPaging ------------------------------
(***************************************************************************)
(* Small instances of Paging.  Executable "sh": text page 0, data page 1,  *)
(* guard page 2, stack page 3, heap from page 4.  Executable "ls" is one   *)
(* page shorter, so that its stack lies where sh has its guard page and    *)
(* its heap where sh has its stack.                                        *)
(***************************************************************************)
EXTENDS PagingRefinement, TLC

CONSTANT Menus          \* sets of calls: the programs of a behaviour make
                        \* the calls of one; "touch" and "store_once" are
                        \* accesses to memory, "stores_first" limits them

VARIABLE menu           \* the calls that are made in this behaviour

mcVars == <<menu, vars>>

MCText == [i \in Image |-> {0}]
MCData == [i \in Image |-> IF i = "sh" THEN {1} ELSE {}]
MCStackPage == [i \in Image |-> IF i = "sh" THEN 3 ELSE 2]
NoRagged == [i \in Image |-> {}]
RaggedData == MCData

FrameSymmetry == Permutations(Frame)
-----------------------------------------------------------------------------

Makes(c) == c \in menu

\* Programs whose stores, not loads, bring anonymous and swapped pages in,
\* and that pass only pages with a frame to system calls.
StoresFirst ==
  \A p \in Proc :
    fault'[p].at = "alloc" =>
      /\ fault'[p].ctx = "trap"
      /\ fault'[p].kind = "exec" \/ fault'[p].write

Touches(p) ==
  /\ Makes("touch") \/ Makes("store_once")
  /\ Store(p) \/ PageFault(p)
  /\ Makes("store_once") /\ fault'[p].at = "alloc"
       => fault'[p].write /\ vm[p].next_fifo_seq = 0

MenuNext ==
  /\ UNCHANGED menu
  /\ \E p \in Proc :
       \/ Touches(p) \/ Handler(p)
       \/ Makes("copyout") /\ CopyOut(p)
       \/ (Makes("copyin") \/ Makes("copyout")) /\ CopyMissing(p)
       \/ Makes("sbrk_lazy") /\ SbrkLazy(p)
       \/ Makes("sbrk_eager") /\ SbrkEager(p)
       \/ Makes("sbrk_shrink") /\ SbrkShrink(p)
       \/ Makes("fork") /\ Fork(p)
       \/ Makes("exec") /\ Exec(p)
       \/ (Makes("exit") \/ killed[p] \/ fault[p].at = "exit") /\ Exit(p)
       \/ (Makes("wait") \/ parent[p] = initproc) /\ Wait(p)
       \/ Makes("kill") /\ Kill(p)
  /\ Makes("stores_first") => StoresFirst

MenuInit == Init /\ menu \in Menus
MenuSpec == MenuInit /\ [][MenuNext]_mcVars

\* Frames are interchangeable, but TLC cannot use symmetry for liveness:
\* with numbered processes and frames one initial state, and the lowest free
\* frame in each allocation, stand for all.
Numbered ==
  \A p \in Started :
    LET guard == pt[p][StackPage[Boot] - 1]
        stack == pt[p][StackPage[Boot]]
    IN  /\ guard < stack /\ \A f \in free : stack < f
        /\ \A q \in Started : p < q => stack < pt[q][StackPage[Boot] - 1]

LowestFirst == \A f \in free \ free', g \in free \cap free' : f < g

NumberedInit == MenuInit /\ Numbered
NumberedFairSpec == NumberedInit /\ [][MenuNext /\ LowestFirst]_mcVars /\ Fairness

\* The kernel implements private memories for programs whose anonymous and
\* swapped pages are brought in by stores: evictions, discarded clean pages,
\* the swap file and its reads do not show (vm.c, swap.c, trap.c).
StoredMemoryKept ==
  UM!Init /\ [][Makes("stores_first") => UM!Next]_<<UM!vars>>
=============================================================================
