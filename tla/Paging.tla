------------------------------- MODULE Paging -------------------------------
(***************************************************************************)
(* Demand paging and swapping as the kernel runs it: processes touch their *)
(* memory, usertrap() and vmfault() bring pages in, try_kalloc_or_replace()*)
(* evicts pages of the faulting process when the shared free list is       *)
(* empty, and fork, exec, sbrk, exit and wait create, replace, resize and  *)
(* free address spaces (kernel/trap.c, vm.c, swap.c, proc.c, exec.c,       *)
(* sysproc.c, kalloc.c).                                                   *)
(*                                                                         *)
(* A page holds one value.  Between two calls of kalloc/kfree, or while it *)
(* sleeps for the disk, a handler touches only its own process; so a       *)
(* handler is cut into steps at its calls of kalloc, and other processes   *)
(* run between the steps.                                                  *)
(***************************************************************************)
EXTENDS ProcVM, Functions

CONSTANTS
  Proc,       \* slots of the process table
  Started,    \* the processes of the initial state, fresh out of exec
  Frame,      \* physical pages for user memory
  NoFrame,    \* a page-table entry without PTE_V
  initproc,   \* the reaper of orphans; its own memory is not modelled
  Image,      \* executables
  Boot,       \* the executable of the processes in Started
  Text, Data, \* pages of each executable's text and data segment
  Ragged,     \* last pages of segments that end inside the page
  StackPage,  \* the one stack page; the guard page is the page below
  Val,        \* values a program can store
  Calls,      \* the system calls that the programs of an instance make
  Accesses,   \* the kinds of access that they make
  MAX_SEQ     \* bound: faults that load a page, per process

ASSUME LayoutAssumption ==
  /\ Started \subseteq Proc /\ initproc \notin Proc
  /\ Boot \in Image /\ NoFrame \notin Frame
  /\ Text \in [Image -> SUBSET Page] /\ Data \in [Image -> SUBSET Page]
  /\ Ragged \in [Image -> SUBSET Page]
  /\ StackPage \in [Image -> Page \ {0}]
  /\ \A i \in Image :
       /\ Text[i] \cap Data[i] = {}
       /\ \A a \in Text[i] \cup Data[i] : a < StackPage[i] - 1
  /\ MAX_SEQ \in Nat

VARIABLES
  pstate,   \* "UNUSED", "LIVE" (USED to RUNNING) or "ZOMBIE"
  parent,
  killed,
  sz,       \* p->sz in pages
  image,    \* what p->exec_ip and the recorded segment ranges describe
  low_sp,   \* p->stack_top is exactly the bottom of the stack page
  pt,       \* page table: frame of each page, or NoFrame
  perm,     \* page table: which of PTE_U, PTE_W, PTE_X are set
  vm,       \* the bookkeeping of ProcVM
  swap,     \* contents of the swap file, by slot
  fault,    \* the page-fault handler in progress, if any
  free,     \* kmem.freelist
  mem,      \* contents of the frames
  panicked  \* the kernel has stopped in panic()

procVars == <<pstate, parent, killed>>
spaceVars == <<sz, image, low_sp>>
tableVars == <<pt, perm>>
vars == <<pstate, parent, killed, sz, image, low_sp, pt, perm, vm, swap,
          fault, free, mem, panicked>>

-----------------------------------------------------------------------------
(* Contents of a page. *)

Zero == <<"zero">>
Junk == <<"junk">>
Args == <<"args">>
FromFile(i, a) == <<"file", i, a>>
Stored(v) == <<"stored", v>>

Content == {Zero, Junk, Args}
             \cup {FromFile(i, a) : i \in Image, a \in Page}
             \cup {Stored(v) : v \in Val}

(* The fault handler in progress.  ctx says who faulted: the program       *)
(* ("trap"), or copyin/copyout on its behalf.  kind is how the page will   *)
(* be filled; write that a store faulted; frame what kalloc returned.      *)
Fault ==
  [at : {"user", "alloc", "evict", "retry", "load", "exit"},
   ctx : {"trap", "copyin", "copyout"},
   va : Page,
   kind : {"swap", "exec", "anon"},
   write : BOOLEAN,
   frame : Frame \cup {NoFrame}]

Idle == [at |-> "user", ctx |-> "trap", va |-> 0, kind |-> "anon",
         write |-> FALSE, frame |-> NoFrame]

StartFault(ctx, a, kind, write) ==
  [at |-> "alloc", ctx |-> ctx, va |-> a, kind |-> kind, write |-> write,
   frame |-> NoFrame]

-----------------------------------------------------------------------------
(* Address classification (usertrap and vmfault). *)

InSegment(p, a) == a \in Text[image[p]] \cup Data[image[p]]

stack_base(p) == StackPage[image[p]] - (IF low_sp[p] THEN 1 ELSE 0)
in_guard(p, a) == a = stack_base(p) - 1

\* in_text || in_data of usertrap(), which tests the address itself: the
\* part of a segment's last page beyond the segment is in neither.
in_exec(p, a, tail) ==
  a < sz[p] /\ InSegment(p, a) /\ ~(tail /\ a \in Ragged[image[p]])

cause(p, a, tail, acc) ==
  CASE in_guard(p, a) -> "guard"
    [] ~in_guard(p, a) /\ was_swapped(vm[p].pages, a) -> "swap"
    [] ~in_guard(p, a) /\ ~was_swapped(vm[p].pages, a)
         /\ in_exec(p, a, tail) -> "exec"
    [] ~in_guard(p, a) /\ ~was_swapped(vm[p].pages, a)
         /\ ~in_exec(p, a, tail) /\ a < sz[p] /\ acc # "exec" -> "anon"
    [] OTHER -> "invalid"

\* What the hardware lets the program do.
Permitted(p, a, acc) ==
  /\ pt[p][a] # NoFrame /\ "U" \in perm[p][a]
  /\ acc = "write" => "W" \in perm[p][a]
  /\ acc = "exec" => "X" \in perm[p][a]

Running(p) == ~panicked /\ pstate[p] = "LIVE" /\ fault[p].at = "user"
\* usertrap() lets no killed process start a system call.
InCall(p, c) == Running(p) /\ ~killed[p] /\ c \in Calls

\* walkaddr() finds the page; ismapped() also sees pages without PTE_U.
walkaddr(p, a) == pt[p][a] # NoFrame /\ "U" \in perm[p][a]
ismapped(p, a) == pt[p][a] # NoFrame

\* The end of usertrap(): a killed process exits, any other resumes.
Resume(p, k) ==
  fault' = [fault EXCEPT ![p] = IF k THEN [Idle EXCEPT !.at = "exit"] ELSE Idle]

Resumed(p) == Resume(p, killed[p]) /\ UNCHANGED killed
KillSelf(p) == Resume(p, TRUE) /\ killed' = [killed EXCEPT ![p] = TRUE]

\* setkilled() in the trap path, a failed copy otherwise.
FaultFails(p) == IF fault[p].ctx = "trap" THEN KillSelf(p) ELSE Resumed(p)

\* kfree() fills the page with junk and puts it on the free list.
kfree(fs) ==
  /\ free' = free \cup fs
  /\ mem' = [f \in Frame |-> IF f \in fs THEN Junk ELSE mem[f]]

\* Mutant: the loop over the pages starts at the second page.
FramesOf_FromSecond(p) == {pt[p][a] : a \in Page \ {0}} \ {NoFrame}

FramesOf(p) == {pt[p][a] : a \in Page} \ {NoFrame}

\* freewalk() panics when uvmunmap(0 .. sz) left a valid leaf.
LeafBeyondSz(p) == \E a \in Page : a >= sz[p] /\ pt[p][a] # NoFrame

Halt == panicked' = TRUE
          /\ UNCHANGED <<pstate, parent, killed, sz, image, low_sp, pt, perm,
                         vm, swap, fault, free, mem>>

-----------------------------------------------------------------------------
(* The program touches its memory. *)

\* A store that the page table permits.
Store(p) ==
  /\ Running(p) /\ "write" \in Accesses
  /\ \E a \in Page, v \in Val :
       /\ Permitted(p, a, "write")
       /\ mem' = [mem EXCEPT ![pt[p][a]] = Stored(v)]
  /\ UNCHANGED <<procVars, spaceVars, tableVars, vm, swap, fault, free,
                 panicked>>

\* usertrap() kills the process: guard page, address outside every region,
\* instruction fetch from anonymous memory, store to text.
TrapInvalid(p, a, acc, c) ==
  /\ \/ c \in {"guard", "invalid"}
     \/ c \in {"swap", "anon"} /\ acc = "exec"
     \/ c = "exec" /\ acc = "write" /\ a \in Text[image[p]]
  /\ KillSelf(p)
  /\ UNCHANGED <<tableVars, vm>>

\* usertrap() finds the page mapped: it records a store, or adjusts the
\* permissions of a text or data page.
TrapMapped(p, a, acc, c) ==
  /\ \/ /\ c \in {"swap", "anon"} /\ ismapped(p, a) /\ acc = "write"
        /\ vm' = [vm EXCEPT ![p] = mark_dirty_resident(@, a)]
        /\ UNCHANGED tableVars
     \/ /\ c = "exec" /\ walkaddr(p, a)
        /\ acc = "write" /\ a \notin Text[image[p]]
        /\ perm' = [perm EXCEPT ![p][a] = @ \cup {"W"}]
        /\ vm' = [vm EXCEPT ![p] = mark_dirty_first(@, a)]
        /\ UNCHANGED pt
     \/ /\ c = "exec" /\ walkaddr(p, a) /\ acc # "write"
        /\ perm' = [perm EXCEPT ![p][a] =
                      IF a \in Text[image[p]] THEN (@ \ {"W"}) \cup {"X"}
                                             ELSE @ \ {"W", "X"}]
        /\ UNCHANGED <<pt, vm>>
  /\ Resumed(p)

\* usertrap() needs a frame.
TrapMissing(p, a, acc, c) ==
  /\ \/ c \in {"swap", "anon"} /\ acc # "exec" /\ ~ismapped(p, a)
     \/ /\ c = "exec" /\ ~walkaddr(p, a)
        /\ ~(acc = "write" /\ a \in Text[image[p]])
  /\ vm[p].next_fifo_seq < MAX_SEQ
  /\ fault' = [fault EXCEPT ![p] = StartFault("trap", a, c, acc = "write")]
  /\ UNCHANGED <<tableVars, vm, killed>>

PageFault(p) ==
  /\ Running(p)
  /\ \E a \in Page, acc \in Accesses, tail \in BOOLEAN :
       /\ ~Permitted(p, a, acc)
       /\ tail => a \in Ragged[image[p]]
       /\ LET c == cause(p, a, tail, acc)
          IN  \/ TrapInvalid(p, a, acc, c)
              \/ TrapMapped(p, a, acc, c)
              \/ TrapMissing(p, a, acc, c)
  /\ UNCHANGED <<pstate, parent, spaceVars, swap, free, mem, panicked>>

-----------------------------------------------------------------------------
(* copyin, copyinstr and copyout on a page of the caller's memory.  A call *)
(* that returns -1 without a fault changes nothing and is not a step.      *)

\* copyout() to a page it finds mapped and writable.
CopyOut(p) ==
  /\ InCall(p, "copyout")
  /\ \E a \in Page, v \in Val :
       /\ walkaddr(p, a) /\ "W" \in perm[p][a]
       /\ mem' = [mem EXCEPT ![pt[p][a]] = Stored(v)]
  /\ UNCHANGED <<procVars, spaceVars, tableVars, vm, swap, fault, free,
                 panicked>>

\* Mutant: vmfault() without its ismapped() test.
CopyMissing_NoIsmapped(p) ==
  /\ \E c \in {"copyin", "copyout"}, a \in Page :
       /\ InCall(p, c)
       /\ ~in_guard(p, a) /\ a < sz[p]
       /\ fault' = [fault EXCEPT ![p] =
                      StartFault(c, a, IF InSegment(p, a) THEN "exec"
                                                          ELSE "anon", FALSE)]
  /\ UNCHANGED <<procVars, spaceVars, tableVars, vm, swap, free, mem,
                 panicked>>

\* vmfault() accepts the address and needs a frame.
CopyMissing(p) ==
  /\ \E c \in {"copyin", "copyout"}, a \in Page :
       /\ InCall(p, c)
       /\ ~in_guard(p, a) /\ a < sz[p] /\ ~ismapped(p, a)
       /\ fault' = [fault EXCEPT ![p] =
                      StartFault(c, a, IF InSegment(p, a) THEN "exec"
                                                          ELSE "anon", FALSE)]
  /\ UNCHANGED <<procVars, spaceVars, tableVars, vm, swap, free, mem,
                 panicked>>

-----------------------------------------------------------------------------
(* try_kalloc_or_replace(), one step per call of the frame allocator. *)

AtStep(p, at) == ~panicked /\ pstate[p] = "LIVE" /\ fault[p].at = at

Goto(p, at) == fault' = [fault EXCEPT ![p].at = at]

\* kalloc() returns a frame, at the first attempt or after an eviction.
Kalloc(p) ==
  /\ AtStep(p, "alloc") \/ AtStep(p, "retry")
  /\ \E f \in free :
       /\ free' = free \ {f}
       /\ fault' = [fault EXCEPT ![p].at = "load", ![p].frame = f]
  /\ UNCHANGED <<procVars, spaceVars, tableVars, vm, swap, mem, panicked>>

\* The first kalloc() fails.
MemFull(p) ==
  /\ AtStep(p, "alloc") /\ free = {}
  /\ Goto(p, "evict")
  /\ UNCHANGED <<procVars, spaceVars, tableVars, vm, swap, free, mem,
                 panicked>>

\* Nothing to evict: setkilled() whoever faulted.
NoVictim(p) ==
  /\ AtStep(p, "evict") /\ Resident(vm[p].pages) = {}
  /\ KillSelf(p)
  /\ UNCHANGED <<pstate, parent, spaceVars, tableVars, vm, swap, free, mem,
                 panicked>>

\* The victim's page-table entry is gone: only its memstat entry goes.
EvictStale(p, va) ==
  /\ ~ismapped(p, va)
  /\ vm' = [vm EXCEPT ![p] = memstat_mark_unmapped(@, va)]
  /\ Goto(p, "retry")
  /\ UNCHANGED <<killed, tableVars, swap, free, mem>>

\* Mutant: the page-table entry stays.
UnmapVictim_KeepsPte(p, va) == kfree({pt[p][va]}) /\ UNCHANGED tableVars

UnmapVictim(p, va) ==
  /\ pt' = [pt EXCEPT ![p][va] = NoFrame]
  /\ perm' = [perm EXCEPT ![p][va] = {}]
  /\ kfree({pt[p][va]})

EvictClean(p, va) ==
  /\ ismapped(p, va)
  /\ vm' = [vm EXCEPT ![p] = evict_clean(@, va)]
  /\ UnmapVictim(p, va)
  /\ Goto(p, "retry")
  /\ UNCHANGED <<killed, swap>>

\* proc_swapout_page() creates the swap file if exec could not, and writes
\* the frame to the first free slot.
EvictDirty(p, va) ==
  LET m == swapfile_create(vm[p])
      s == free_slot(m)
  IN  /\ ismapped(p, va)
      /\ s \in Slot /\ s < SWAPFILE_PAGES
      /\ swap' = [swap EXCEPT ![p][s] = mem[pt[p][va]]]
      /\ vm' = [vm EXCEPT ![p] = evict_dirty(m, va, s)]
      /\ UnmapVictim(p, va)
      /\ Goto(p, "retry")
      /\ UNCHANGED killed

\* No slot, a slot beyond the largest file, a full disk, or no swap file.
SwapFull(p, va) ==
  /\ ismapped(p, va)
  /\ KillSelf(p)
  /\ vm' \in {vm, [vm EXCEPT ![p] = swapfile_create(@)]}
  /\ UNCHANGED <<tableVars, swap, free, mem>>

Evict(p) ==
  /\ AtStep(p, "evict")
  /\ \E i \in select_victim(vm[p].pages) :
       LET va == vm[p].pages[i].va
       IN  \/ EvictStale(p, va)
           \/ ~vm[p].pages[i].is_dirty /\ EvictClean(p, va)
           \/ vm[p].pages[i].is_dirty /\ EvictDirty(p, va)
           \/ vm[p].pages[i].is_dirty /\ SwapFull(p, va)
  /\ UNCHANGED <<pstate, parent, spaceVars, panicked>>

\* Mutant: the handler waits until somebody frees a frame.
RetryFails_Waits(p) == AtStep(p, "retry") /\ free = {} /\ UNCHANGED vars

\* The second kalloc() fails: other processes took what was freed, or
\* nothing was.
RetryFails(p) ==
  /\ AtStep(p, "retry") /\ free = {}
  /\ FaultFails(p)
  /\ UNCHANGED <<pstate, parent, spaceVars, tableVars, vm, swap, free, mem,
                 panicked>>

-----------------------------------------------------------------------------
(* The frame is filled and mapped. *)

Fill(p, content) == mem' = [mem EXCEPT ![fault[p].frame] = content]

Map(p, a, f, flags) ==
  /\ pt' = [pt EXCEPT ![p][a] = f]
  /\ perm' = [perm EXCEPT ![p][a] = flags]

\* Mutant: no memset().
LoadAnon_NoMemset(p, a) ==
  /\ fault[p].kind = "anon"
  /\ Map(p, a, fault[p].frame, {"U", "W"})
  /\ vm' = [vm EXCEPT ![p] = became_resident(@, a, fault[p].write)]
  /\ UNCHANGED mem

\* usertrap(): anonymous page, zero-filled.
LoadAnon(p, a) ==
  /\ fault[p].kind = "anon"
  /\ Fill(p, Zero)
  /\ Map(p, a, fault[p].frame, {"U", "W"})
  /\ vm' = [vm EXCEPT ![p] = became_resident(@, a, fault[p].write)]

\* usertrap(): the page comes back from its swap slot.
LoadSwap(p, a) ==
  LET s == swapin_slot(vm[p], a)
  IN  /\ fault[p].kind = "swap" /\ vm[p].swapfile /\ s \in Slot
      /\ Fill(p, swap[p][s])
      /\ Map(p, a, fault[p].frame, {"U", "W"})
      /\ vm' = [vm EXCEPT ![p] =
                  became_resident(swapin_page(@, a, s), a, fault[p].write)]

\* usertrap(): text or data from the executable; data read-only until the
\* first store faults again.
LoadExec(p, a) ==
  /\ fault[p].kind = "exec"
  /\ Fill(p, FromFile(image[p], a))
  /\ Map(p, a, fault[p].frame,
         IF a \in Text[image[p]] THEN {"U", "X"} ELSE {"U"})
  /\ vm' = [vm EXCEPT ![p] = became_resident(@, a, FALSE)]

LoadTrap(p) ==
  /\ AtStep(p, "load") /\ fault[p].ctx = "trap"
  /\ \/ LoadAnon(p, fault[p].va)
     \/ LoadSwap(p, fault[p].va)
     \/ LoadExec(p, fault[p].va)
  /\ Resumed(p)
  /\ UNCHANGED <<pstate, parent, spaceVars, swap, free, panicked>>

\* vmfault() maps the page without a memstat entry; copyout() then stores
\* into it unless it is text.
LoadCopy(p) ==
  LET a == fault[p].va
      text == a \in Text[image[p]]
      loaded == IF fault[p].kind = "exec" THEN FromFile(image[p], a) ELSE Zero
  IN  /\ AtStep(p, "load") /\ fault[p].ctx # "trap"
      /\ \/ (fault[p].ctx = "copyin" \/ text) /\ Fill(p, loaded)
         \/ /\ fault[p].ctx = "copyout" /\ ~text
            /\ \E v \in Val : Fill(p, Stored(v))
      /\ Map(p, a, fault[p].frame, IF text THEN {"U", "X"} ELSE {"U", "W"})
      /\ Resumed(p)
      /\ UNCHANGED <<pstate, parent, spaceVars, vm, swap, free, panicked>>

\* Mutant: the error path forgets kfree().
LoadFails_Leaks(p) ==
  /\ AtStep(p, "load") /\ fault[p].kind = "exec"
  /\ FaultFails(p)
  /\ UNCHANGED <<pstate, parent, spaceVars, tableVars, vm, swap, free, mem,
                 panicked>>

\* The page cannot be filled or mapped: no swap slot, a short read of the
\* executable, or no page for a page table.  When mappages() fails the page
\* has already left its swap slot.
LoadFails(p) ==
  LET a == fault[p].va
      s == swapin_slot(vm[p], a)
      noslot == ~vm[p].swapfile \/ s \notin Slot
  IN  /\ AtStep(p, "load")
      /\ \/ /\ fault[p].kind = "swap" /\ noslot
            /\ UNCHANGED vm
         \/ /\ fault[p].kind = "exec"
            /\ UNCHANGED vm
         \/ /\ free = {} /\ fault[p].kind = "swap" /\ ~noslot
            /\ vm' = [vm EXCEPT ![p] = swapin_page(@, a, s)]
         \/ /\ free = {} /\ fault[p].kind = "anon"
            /\ UNCHANGED vm
      /\ FaultFails(p)
      /\ kfree({fault[p].frame})
      /\ UNCHANGED <<pstate, parent, spaceVars, tableVars, swap, panicked>>

-----------------------------------------------------------------------------
(* sbrk, fork, exec, exit, wait, kill. *)

\* sys_sbrk() with SBRK_LAZY: the break moves, nothing is mapped.
SbrkLazy(p) ==
  /\ InCall(p, "sbrk_lazy") /\ sz[p] < NPAGES
  /\ sz' = [sz EXCEPT ![p] = @ + 1]
  /\ UNCHANGED <<procVars, image, low_sp, tableVars, vm, swap, fault, free,
                 mem, panicked>>

\* growproc() of one page: uvmalloc() maps a zeroed frame, without
\* evicting.  Without a frame for the page or its page table it gives back
\* what it took and returns 0: no state but the junk in free frames differs,
\* and the failing call is not a step.
SbrkEager(p) ==
  /\ InCall(p, "sbrk_eager") /\ sz[p] < NPAGES
  /\ \E f \in free :
       \/ /\ ~ismapped(p, sz[p])
          /\ free' = free \ {f}
          /\ mem' = [mem EXCEPT ![f] = Zero]
          /\ Map(p, sz[p], f, {"U", "W"})
          /\ sz' = [sz EXCEPT ![p] = @ + 1]
          /\ UNCHANGED <<procVars, image, low_sp, vm, swap, fault, panicked>>
       \/ ismapped(p, sz[p]) /\ Halt

\* Mutant: uvmdealloc() starts one page too high.
SbrkShrink_OneShort(p) ==
  /\ InCall(p, "sbrk_shrink")
  /\ \E n \in 1 .. sz[p] :
       LET gone == {a \in Page : sz[p] - n < a /\ a < sz[p]}
       IN  /\ sz' = [sz EXCEPT ![p] = @ - n]
           /\ pt' = [pt EXCEPT ![p] =
                       [a \in Page |-> IF a \in gone THEN NoFrame ELSE @[a]]]
           /\ perm' = [perm EXCEPT ![p] =
                         [a \in Page |-> IF a \in gone THEN {} ELSE @[a]]]
           /\ kfree({pt[p][a] : a \in gone} \ {NoFrame})
  /\ UNCHANGED <<procVars, image, low_sp, vm, swap, fault, panicked>>

\* growproc() with a negative size: uvmdealloc() frees the pages above.
SbrkShrink(p) ==
  /\ InCall(p, "sbrk_shrink")
  /\ \E n \in 1 .. sz[p] :
       LET gone == {a \in Page : sz[p] - n <= a /\ a < sz[p]}
       IN  /\ sz' = [sz EXCEPT ![p] = @ - n]
           /\ pt' = [pt EXCEPT ![p] =
                       [a \in Page |-> IF a \in gone THEN NoFrame ELSE @[a]]]
           /\ perm' = [perm EXCEPT ![p] =
                         [a \in Page |-> IF a \in gone THEN {} ELSE @[a]]]
           /\ kfree({pt[p][a] : a \in gone} \ {NoFrame})
  /\ UNCHANGED <<procVars, image, low_sp, vm, swap, fault, panicked>>

\* kfork(): allocproc() resets the bookkeeping, uvmcopy() copies the pages
\* that have a frame, without evicting.  A fork that runs out of frames
\* unmaps and frees its copies in uvmcopy() and returns -1; it is not a step,
\* so that other processes never see the frames it held for a while.
Fork(p) ==
  /\ InCall(p, "fork")
  /\ \E c \in {q \in Proc : pstate[q] = "UNUSED"} :
       LET copied == {a \in Page : a < sz[p] /\ ismapped(p, a)}
       IN  \E g \in Injection(copied, free) :
             /\ free' = free \ {g[a] : a \in copied}
             /\ pt' = [pt EXCEPT ![c] =
                   [a \in Page |-> IF a \in copied THEN g[a] ELSE NoFrame]]
             /\ perm' = [perm EXCEPT ![c] =
                   [a \in Page |-> IF a \in copied THEN perm[p][a] ELSE {}]]
             /\ mem' = [f \in Frame |->
                   IF \E a \in copied : g[a] = f
                   THEN mem[pt[p][CHOOSE a \in copied : g[a] = f]]
                   ELSE mem[f]]
             /\ pstate' = [pstate EXCEPT ![c] = "LIVE"]
             /\ parent' = [parent EXCEPT ![c] = p]
             /\ sz' = [sz EXCEPT ![c] = sz[p]]
             /\ image' = [image EXCEPT ![c] = image[p]]
             /\ low_sp' = [low_sp EXCEPT ![c] = low_sp[p]]
             /\ vm' = [vm EXCEPT ![c] = FreshVM]
  /\ UNCHANGED <<killed, swap, fault, panicked>>

\* The page table that kexec() builds: a guard page without PTE_U and the
\* stack page, frames g and s.
ExecTable(i, g, s) ==
  [a \in Page |-> IF a = StackPage[i] - 1 THEN g
                  ELSE IF a = StackPage[i] THEN s ELSE NoFrame]

ExecPerm(i) ==
  [a \in Page |-> IF a = StackPage[i] - 1 THEN {"W"}
                  ELSE IF a = StackPage[i] THEN {"U", "W"} ELSE {}]

\* kexec(): two frames for the new image, then the old one is freed.  The
\* bookkeeping stays; the swap file is created if it is missing.  A call
\* that ends at "bad" frees the new page table, keeps the old image and is
\* not a step.
Exec(p) ==
  /\ InCall(p, "exec")
  /\ \E i \in Image, low \in BOOLEAN, g, s \in free :
       \/ /\ g # s /\ ~LeafBeyondSz(p)
          /\ pt' = [pt EXCEPT ![p] = ExecTable(i, g, s)]
          /\ perm' = [perm EXCEPT ![p] = ExecPerm(i)]
          /\ free' = (free \ {g, s}) \cup FramesOf(p)
          /\ mem' = [f \in Frame |-> IF f = g THEN Zero
                                     ELSE IF f = s THEN Args
                                     ELSE IF f \in FramesOf(p) THEN Junk
                                     ELSE mem[f]]
          /\ sz' = [sz EXCEPT ![p] = StackPage[i] + 1]
          /\ image' = [image EXCEPT ![p] = i]
          /\ low_sp' = [low_sp EXCEPT ![p] = low]
          /\ vm' \in {vm, [vm EXCEPT ![p] = swapfile_create(@)]}
          /\ UNCHANGED <<procVars, swap, fault, panicked>>
       \/ g # s /\ LeafBeyondSz(p) /\ Halt

\* Mutant: the children keep their parent.
Exit_NoReparent(p) ==
  /\ ~panicked /\ pstate[p] = "LIVE"
  /\ \/ fault[p].at = "exit"
     \/ fault[p].at = "user" /\ (killed[p] \/ "exit" \in Calls)
  /\ pstate' = [pstate EXCEPT ![p] = "ZOMBIE"]
  /\ vm' = [vm EXCEPT ![p] = IF @.swapfile THEN swapfile_cleanup(@) ELSE @]
  /\ fault' = [fault EXCEPT ![p] = Idle]
  /\ UNCHANGED <<parent, killed, spaceVars, tableVars, swap, free, mem, panicked>>

\* kexit(): by sys_exit(), or in usertrap() once the process is killed.
Exit(p) ==
  /\ ~panicked /\ pstate[p] = "LIVE"
  /\ \/ fault[p].at = "exit"
     \/ fault[p].at = "user" /\ (killed[p] \/ "exit" \in Calls)
  /\ pstate' = [pstate EXCEPT ![p] = "ZOMBIE"]
  /\ parent' = [q \in Proc |-> IF parent[q] = p THEN initproc ELSE parent[q]]
  /\ vm' = [vm EXCEPT ![p] = IF @.swapfile THEN swapfile_cleanup(@) ELSE @]
  /\ fault' = [fault EXCEPT ![p] = Idle]
  /\ UNCHANGED <<killed, spaceVars, tableVars, swap, free, mem, panicked>>

\* kwait() finds the zombie q: freeproc().
Wait(q) ==
  /\ ~panicked /\ pstate[q] = "ZOMBIE"
  /\ parent[q] # initproc => InCall(parent[q], "wait")
  /\ \/ /\ ~LeafBeyondSz(q)
        /\ pstate' = [pstate EXCEPT ![q] = "UNUSED"]
        /\ parent' = [parent EXCEPT ![q] = initproc]
        /\ killed' = [killed EXCEPT ![q] = FALSE]
        /\ sz' = [sz EXCEPT ![q] = 0]
        /\ pt' = [pt EXCEPT ![q] = [a \in Page |-> NoFrame]]
        /\ perm' = [perm EXCEPT ![q] = [a \in Page |-> {}]]
        /\ kfree(FramesOf(q))
        /\ UNCHANGED <<image, low_sp, vm, swap, fault, panicked>>
     \/ LeafBeyondSz(q) /\ Halt

\* kkill(): another process sets p->killed.
Kill(p) ==
  /\ ~panicked /\ "kill" \in Calls /\ pstate[p] = "LIVE" /\ ~killed[p]
  /\ killed' = [killed EXCEPT ![p] = TRUE]
  /\ UNCHANGED <<pstate, parent, spaceVars, tableVars, vm, swap, fault, free,
                 mem, panicked>>

-----------------------------------------------------------------------------
Init ==
  /\ pstate = [p \in Proc |-> IF p \in Started THEN "LIVE" ELSE "UNUSED"]
  /\ parent = [p \in Proc |-> initproc]
  /\ killed = [p \in Proc |-> FALSE]
  /\ sz = [p \in Proc |-> IF p \in Started THEN StackPage[Boot] + 1 ELSE 0]
  /\ image = [p \in Proc |-> Boot]
  /\ low_sp = [p \in Proc |-> FALSE]
  /\ \E g \in Injection(Started, Frame), s \in Injection(Started, Frame) :
       /\ \A p, q \in Started : g[p] # s[q]
       /\ pt = [p \in Proc |-> IF p \in Started
                               THEN ExecTable(Boot, g[p], s[p])
                               ELSE [a \in Page |-> NoFrame]]
       /\ free = {f \in Frame : \A p \in Started : f # g[p] /\ f # s[p]}
       /\ mem = [f \in Frame |-> IF \E p \in Started : f = g[p] THEN Zero
                                 ELSE IF \E p \in Started : f = s[p] THEN Args
                                 ELSE Junk]
  /\ perm = [p \in Proc |-> IF p \in Started THEN ExecPerm(Boot)
                            ELSE [a \in Page |-> {}]]
  /\ vm = [p \in Proc |-> IF p \in Started THEN swapfile_create(FreshVM)
                          ELSE FreshVM]
  /\ swap = [p \in Proc |-> [s \in Slot |-> Junk]]
  /\ fault = [p \in Proc |-> Idle]
  /\ panicked = FALSE

\* The steps of a page-fault handler in progress.
Handler(p) ==
  \/ Kalloc(p) \/ MemFull(p) \/ NoVictim(p) \/ Evict(p) \/ RetryFails(p)
  \/ LoadTrap(p) \/ LoadCopy(p) \/ LoadFails(p)

Next ==
  \E p \in Proc :
    \/ Store(p) \/ PageFault(p) \/ CopyOut(p) \/ CopyMissing(p)
    \/ Handler(p)
    \/ SbrkLazy(p) \/ SbrkEager(p) \/ SbrkShrink(p)
    \/ Fork(p) \/ Exec(p) \/ Exit(p) \/ Wait(p) \/ Kill(p)

Spec == Init /\ [][Next]_vars

(* Fairness.  A handler runs in the kernel and is scheduled again whenever  *)
(* it is preempted or its disk request completes.  A killed process enters *)
(* usertrap() at the next timer interrupt at the latest.  init calls wait()*)
(* in an endless loop.  Programs owe nothing.                               *)
KilledExit(p) == (fault[p].at = "exit" \/ killed[p]) /\ Exit(p)
InitWaits(q) == parent[q] = initproc /\ Wait(q)

Fairness ==
  \A p \in Proc : /\ WF_vars(Handler(p))
                  /\ WF_vars(KilledExit(p))
                  /\ WF_vars(InitWaits(p))

FairSpec == Spec /\ Fairness

-----------------------------------------------------------------------------
TypeOK ==
  /\ pstate \in [Proc -> {"UNUSED", "LIVE", "ZOMBIE"}]
  /\ parent \in [Proc -> Proc \cup {initproc}]
  /\ killed \in [Proc -> BOOLEAN]
  /\ sz \in [Proc -> 0 .. NPAGES]
  /\ image \in [Proc -> Image]
  /\ low_sp \in [Proc -> BOOLEAN]
  /\ pt \in [Proc -> [Page -> Frame \cup {NoFrame}]]
  /\ perm \in [Proc -> [Page -> SUBSET {"U", "W", "X"}]]
  /\ vm \in [Proc -> VMState]
  /\ swap \in [Proc -> [Slot -> Content]]
  /\ fault \in [Proc -> Fault]
  /\ free \subseteq Frame
  /\ mem \in [Frame -> Content]
  /\ panicked \in BOOLEAN

(* Frames. *)

\* Two page-table entries never share a frame, no frame in use is on the
\* free list, and the frame a fault handler has taken but not yet mapped is
\* its own: what try_kalloc_or_replace(), uvmcopy() and kexec() take is
\* theirs alone, and what eviction, sbrk, exec, wait and a failed fault give
\* back was theirs.
FramesExclusive ==
  /\ \A p, q \in Proc, a, b \in Page :
       pt[p][a] = pt[q][b] /\ pt[p][a] # NoFrame => p = q /\ a = b
  /\ \A p \in Proc, a \in Page : pt[p][a] \notin free
  /\ \A p \in Proc : fault[p].at = "load" =>
       /\ fault[p].frame \in Frame \ free
       /\ \A q \in Proc, a \in Page : pt[q][a] # fault[p].frame
       /\ \A q \in Proc : fault[q].at = "load"
                             /\ fault[q].frame = fault[p].frame => p = q

\* No frame is lost: one that is not free is mapped or held by a handler,
\* through every error path of the fault handler and whatever order
\* processes fork, replace their image, exit and are reaped in.
FramesNotLost ==
  \A f \in Frame :
    \/ f \in free
    \/ \E p \in Proc, a \in Page : pt[p][a] = f
    \/ \E p \in Proc : fault[p].at = "load" /\ fault[p].frame = f

\* The page for which a handler allocates stays unmapped until the handler
\* maps it, although it sleeps and evicts in between: mappages() does not
\* panic with "remap" in a fault handler.
FaultPageStaysUnmapped ==
  \A p \in Proc :
    fault[p].at \in {"alloc", "evict", "retry", "load"}
      => ~ismapped(p, fault[p].va)

\* No page a program can read holds what kalloc() or kfree() left in the
\* frame: each path (zero fill, executable, swap slot, copy) fills all of it.
NoJunkVisible ==
  \A p \in Proc, a \in Page : walkaddr(p, a) => mem[pt[p][a]] # Junk

\* A leaf at or above the break has a RESIDENT memstat entry.  uvmdealloc(),
\* kexec() and uvmcopy() leave no leaf there; the swap-in of a page that was
\* swapped out before the break fell does, and it stays in the reach of
\* try_kalloc_or_replace().  Such a leaf is what freewalk() and mappages()
\* panic on: nothing else leads there.
StrayLeavesResident ==
  \A p \in Proc, a \in Page : a >= sz[p] /\ ismapped(p, a) =>
    \E i \in Resident(vm[p].pages) : vm[p].pages[i].va = uint(a)

-----------------------------------------------------------------------------
(* Bookkeeping of live processes (see ProcVM). *)

\* The lookups of trap.c, swap.c and vm.c agree on the memstat entry of a
\* page in every reachable state.
MemstatLookupsAgree ==
  \A p \in Proc : pstate[p] = "LIVE" => LiveFirst(vm[p])

\* swap_table and memstat name the same swapped pages and the same slots:
\* no slot is leaked and no swapped page is without its slot, across
\* swap-outs, swap-ins, changes of the break, successful execs and failed
\* faults.
SwapTableMatches ==
  \A p \in Proc : pstate[p] = "LIVE" => SlotsMatch(vm[p])

\* FIFO order is total and below the counter.
ResidenceOrdered ==
  \A p \in Proc : pstate[p] = "LIVE" => SeqsOrdered(vm[p])

\* Of the pages that memstat holds as RESIDENT, an eviction takes the one
\* with the smallest sequence number (FIFO); the bonus kernel takes a dirty
\* page only when every one of them is dirty.  Pages without an entry (the
\* stack, eager sbrk, vmfault) are never victims.
VictimIsOldest ==
  [][\A p \in Proc : \A i, j \in Resident(vm[p].pages) :
       /\ fault[p].at = "evict" /\ fault'[p].at = "retry"
       /\ vm'[p].pages[i].state # "RESIDENT"
       /\ vm'[p].pages[j].state = "RESIDENT"
       => LET x == vm[p].pages[i]
              y == vm[p].pages[j]
          IN  IF Policy = "FIFO" \/ x.is_dirty = y.is_dirty
              THEN x.seq < y.seq ELSE ~x.is_dirty]_vars

-----------------------------------------------------------------------------
(* Progress. *)

\* Every page fault ends: the program resumes or the process exits, also
\* when memory or swap space is exhausted and other processes take the
\* frames that the handler frees.
FaultsFinish ==
  \A p \in Proc :
    fault[p].at \notin {"user", "exit"} ~> fault[p].at \in {"user", "exit"}

\* A killed process leaves user mode for good, also when the kill arrives in
\* the middle of a page fault; and one whose parent is gone is reaped and its
\* frames return, whichever of the two died first.
KilledDies ==
  \A p \in Proc :
    /\ killed[p] ~> pstate[p] # "LIVE"
    /\ killed[p] /\ (parent[p] = initproc \/ pstate[parent[p]] # "LIVE")
         ~> pstate[p] = "UNUSED" /\ FramesOf(p) = {}

=============================================================================
