------------------------- MODULE BookkeepingProofs --------------------------
(***************************************************************************)
(* Proofs that the page tables, memstat and the swap table of a live       *)
(* process stay consistent with one another through every interleaving of  *)
(* fault handlers and system calls, and the theorems about Paging.         *)
(***************************************************************************)
EXTENDS TypeProofs, FrameProofs, HandlerProofs, TLAPS

-----------------------------------------------------------------------------
(* memstat and the swap table. *)

\* The break of no process passes what the uint address fields can name
\* (4 GiB).  Nothing in the kernel enforces it: memory and the swap file are
\* smaller, but a lazy sbrk may move the break up to TRAPFRAME.
BreaksFit == \A p \in Proc : sz[p] <= UINT_PAGES

\* A handler of usertrap() that fills the page from zeros or the executable.
Fresh(r) == Handling(r) /\ r.ctx = "trap" /\ r.kind # "swap"

\* Such a handler is about an address that memstat can hold and that no
\* SWAPPED entry describes.
LoadsAreFresh ==
  \A p \in Proc :
    Fresh(fault[p]) => /\ fault[p].va \in UVa
                       /\ ~was_swapped(vm[p].pages, fault[p].va)

TablesConsistent ==
  \A p \in Proc : pstate[p] = "LIVE" => Consistent(vm[p])

TablesInv == TablesConsistent /\ LoadsAreFresh

\* The one entry that an eviction takes out of residence is the victim, and
\* the victim is the oldest candidate.
LEMMA VictimStep ==
  ASSUME TypeOK, TablesInv, [Next]_vars, NEW p \in Proc,
         NEW i \in Resident(vm[p].pages), NEW j \in Resident(vm[p].pages),
         fault[p].at = "evict", fault'[p].at = "retry",
         vm'[p].pages[i].state # "RESIDENT", vm'[p].pages[j].state = "RESIDENT"
  PROVE  LET x == vm[p].pages[i]
             y == vm[p].pages[j]
         IN  IF Policy = "FIFO" \/ x.is_dirty = y.is_dirty
             THEN x.seq < y.seq ELSE ~x.is_dirty
<1>1. Evict(p)
  BY Zenon, OnlyEvictRetries
<1>2. PICK v \in select_victim(vm[p].pages) :
        \/ EvictStale(p, vm[p].pages[v].va)
        \/ EvictClean(p, vm[p].pages[v].va)
        \/ EvictDirty(p, vm[p].pages[v].va)
        \/ SwapFull(p, vm[p].pages[v].va)
  BY Zenon, <1>1 DEF Evict
<1>3. /\ Consistent(vm[p]) /\ v \in Resident(vm[p].pages)
      /\ i \in Index /\ j \in Index
  BY Zenon, <1>1, VictimResident
  DEF Evict, AtStep, TablesInv, TablesConsistent, Resident
<1> DEFINE va == vm[p].pages[v].va
<1>4. \A k \in Index : k # v => vm'[p].pages[k] = vm[p].pages[k]
  <2>1. CASE EvictStale(p, va)
    <3>1. vm'[p] = memstat_mark_unmapped(vm[p], va)
      BY Zenon, <2>1 DEF EvictStale, TypeOK
    <3> QED BY <1>3, <3>1, MarkUnmapped
  <2>2. CASE EvictClean(p, va)
    <3>1. vm'[p] = evict_clean(vm[p], va)
      BY Zenon, <2>2 DEF EvictClean, TypeOK
    <3> QED BY <1>3, <3>1, EvictedClean, Zenon
  <2>3. CASE EvictDirty(p, va)
    <3> DEFINE b == swapfile_create(vm[p])
    <3>1. Consistent(b) /\ b.pages = vm[p].pages
      BY Zenon, <1>3, SwapfileFlag DEF Consistent, VMState, swapfile_create
    <3>2. free_slot(b) \in Slot /\ vm'[p] = evict_dirty(b, va, free_slot(b))
      BY Zenon, <2>3 DEF EvictDirty, TypeOK
    <3> HIDE DEF b
    <3> QED BY <1>3, <3>1, <3>2, EvictedDirty
  <2>4. CASE SwapFull(p, va)
    BY Zenon, <2>4 DEF SwapFull, KillSelf, Resume, Idle, TypeOK
  <2> QED BY Zenon, <1>2, <2>1, <2>2, <2>3, <2>4
<1>5. i = v /\ j # i
  BY Zenon, <1>3, <1>4 DEF Resident
<1> QED BY Zenon, <1>3, <1>5, VictimOldest

\* A step that leaves the tables of the live processes alone.
LEMMA TablesSame ==
  ASSUME TablesInv, NoNewFault, vm' = vm,
         \A q \in Proc : pstate'[q] = "LIVE" => pstate[q] = "LIVE"
  PROVE  TablesInv'
<1>1. TablesConsistent'
  BY Zenon DEF TablesInv, TablesConsistent
<1>2. LoadsAreFresh'
  BY Zenon DEF TablesInv, LoadsAreFresh, Fresh, NoNewFault
<1> QED BY Zenon, <1>1, <1>2 DEF TablesInv

\* A step that replaces the tables of one process, without swapping out the
\* page of the handler it is in.
LEMMA TablesReplaced ==
  ASSUME TypeOK, TablesInv, NoNewFault, NEW p \in Proc, NEW m, Consistent(m),
         vm' = [vm EXCEPT ![p] = m], pstate' = pstate,
         Handling(fault'[p]) /\ Fresh(fault[p])
           => (was_swapped(m.pages, fault[p].va)
                 => was_swapped(vm[p].pages, fault[p].va))
  PROVE  TablesInv'
<1>1. \A q \in Proc : vm'[q] = IF q = p THEN m ELSE vm[q]
  BY Zenon DEF TypeOK
<1>2. TablesConsistent'
  BY <1>1, SMTT(30) DEF TablesInv, TablesConsistent
<1>3. LoadsAreFresh'
  <2> SUFFICES ASSUME NEW q \in Proc, Fresh(fault'[q])
               PROVE  /\ fault'[q].va \in UVa
                      /\ ~was_swapped(vm'[q].pages, fault'[q].va)
    BY Zenon DEF LoadsAreFresh
  <2>1. /\ Handling(fault'[q]) /\ Fresh(fault[q]) /\ fault'[q].va = fault[q].va
        /\ fault[q].va \in UVa /\ ~was_swapped(vm[q].pages, fault[q].va)
    BY Zenon DEF NoNewFault, Fresh, TablesInv, LoadsAreFresh
  <2>2. CASE q = p
    <3>1. vm'[q] = m
      BY Zenon, <1>1, <2>2
    <3> QED BY Zenon, <2>1, <2>2, <3>1
  <2>3. CASE q # p
    <3>1. vm'[q] = vm[q]
      BY Zenon, <1>1, <2>3
    <3> QED BY Zenon, <2>1, <3>1
  <2> QED BY Zenon, <2>2, <2>3
<1> QED BY Zenon, <1>2, <1>3 DEF TablesInv

\* Every step from a state whose breaks fit keeps the tables consistent.  An
\* eviction swaps out a mapped page, so never the page of the handler that
\* evicts; were the handler's address cut off in memstat, it could swap out
\* the page that has the same low bits.
LEMMA TablesStep ==
  TypeOK /\ UnmappedInv /\ BreaksFit /\ TablesInv /\ [Next]_vars => TablesInv'
<1> SUFFICES ASSUME TypeOK, UnmappedInv, BreaksFit, TablesInv, [Next]_vars
             PROVE  TablesInv'
  BY Zenon
<1> USE DEF procVars, spaceVars, tableVars
<1>0. ASSUME UNCHANGED <<pstate, vm, fault>> PROVE TablesInv'
  BY <1>0, TablesSame, SMTT(30) DEF NoNewFault
<1>1. ASSUME NEW p \in Proc,
             \/ Store(p) \/ CopyOut(p) \/ SbrkLazy(p) \/ SbrkEager(p)
             \/ SbrkShrink(p) \/ Kill(p) \/ Halt
      PROVE  TablesInv'
  BY <1>0, <1>1, Zenon
  DEF Store, CopyOut, SbrkLazy, SbrkEager, SbrkShrink, Kill, Halt
<1>2. ASSUME NEW p \in Proc, PageFault(p) PROVE TablesInv'
  <2>1. PICK a \in Page, acc \in Accesses, tail \in BOOLEAN :
          \/ TrapInvalid(p, a, acc, cause(p, a, tail, acc))
          \/ TrapMapped(p, a, acc, cause(p, a, tail, acc))
          \/ TrapMissing(p, a, acc, cause(p, a, tail, acc))
    BY Zenon, <1>2 DEF PageFault
  <2> DEFINE c == cause(p, a, tail, acc)
  <2>2. c \in {"exec", "anon"} => ~was_swapped(vm[p].pages, a) /\ a \in UVa
    <3>1. c \in {"exec", "anon"} => ~was_swapped(vm[p].pages, a) /\ a < sz[p]
      BY SMTT(30) DEF cause, in_exec
    <3>2. a < sz[p] => a \in UVa
      BY SizesAssumption, SMTT(30) DEF BreaksFit, UVa, Page, TypeOK
    <3> QED BY Zenon, <3>1, <3>2
  <2> HIDE DEF c
  <2>3. pstate[p] = "LIVE" /\ pstate' = pstate /\ Consistent(vm[p])
    BY <1>2, ZenonT(60) DEF PageFault, Running, TablesInv, TablesConsistent
  <2>4. CASE TrapInvalid(p, a, acc, c)
    <3>1. NoNewFault
      BY <2>4, FaultGoesOn, SMTT(30) DEF TrapInvalid
    <3> QED BY <2>3, <2>4, <3>1, TablesSame, SMTT(30) DEF TrapInvalid
  <2>5. CASE TrapMapped(p, a, acc, c)
    <3>1. NoNewFault /\ ~Handling(fault'[p])
      BY Zenon, <2>5, FaultGoesOn DEF TrapMapped
    <3>2. \/ vm' = vm
          \/ vm' = [vm EXCEPT ![p] = mark_dirty_resident(vm[p], a)]
          \/ vm' = [vm EXCEPT ![p] = mark_dirty_first(vm[p], a)]
      BY Zenon, <2>5 DEF TrapMapped
    <3>3. /\ Consistent(mark_dirty_resident(vm[p], a))
          /\ Consistent(mark_dirty_first(vm[p], a))
      BY Zenon, <2>3, MarkDirty
    <3> QED BY <2>3, <3>1, <3>2, <3>3, TablesSame, TablesReplaced, SMTT(30)
  <2>6. CASE TrapMissing(p, a, acc, c)
    <3>1. /\ fault' = [fault EXCEPT ![p] = StartFault("trap", a, c, acc = "write")]
          /\ vm' = vm /\ c \in {"swap", "anon", "exec"}
      BY Zenon, <2>6 DEF TrapMissing
    <3> DEFINE r == StartFault("trap", a, c, acc = "write")
    <3>2. r.va = a /\ r.kind = c
      BY Zenon DEF StartFault
    <3> HIDE DEF r
    <3>3. \A q \in Proc : fault'[q] = IF q = p THEN r ELSE fault[q]
      BY <3>1, SMTT(30) DEF TypeOK, r
    <3>4. TablesConsistent'
      BY <2>3, <3>1, SMTT(30) DEF TablesInv, TablesConsistent
    <3>5. LoadsAreFresh'
      BY Zenon, <2>2, <3>1, <3>2, <3>3 DEF TablesInv, LoadsAreFresh, Fresh
    <3> QED BY <3>4, <3>5, SMTT(30) DEF TablesInv
  <2> QED BY <2>1, <2>4, <2>5, <2>6, SMTT(30) DEF c
<1>3. ASSUME NEW p \in Proc, CopyMissing(p) PROVE TablesInv'
  <2>1. PICK c \in {"copyin", "copyout"}, a \in Page, k \in {"exec", "anon"} :
          fault' = [fault EXCEPT ![p] = StartFault(c, a, k, FALSE)]
    BY <1>3, ZenonT(60) DEF CopyMissing
  <2> DEFINE r == StartFault(c, a, k, FALSE)
  <2>2. r.ctx # "trap"
    BY Zenon DEF StartFault
  <2> HIDE DEF r
  <2>3. \A q \in Proc : fault'[q] = IF q = p THEN r ELSE fault[q]
    BY Zenon, <2>1 DEF TypeOK, r
  <2>4. vm' = vm /\ pstate' = pstate
    BY Zenon, <1>3 DEF CopyMissing
  <2>5. TablesConsistent'
    BY Zenon, <2>4 DEF TablesInv, TablesConsistent
  <2>6. LoadsAreFresh'
    BY Zenon, <2>2, <2>3, <2>4 DEF TablesInv, LoadsAreFresh, Fresh
  <2> QED BY Zenon, <2>5, <2>6 DEF TablesInv
<1>4. ASSUME NEW p \in Proc, Kalloc(p) PROVE TablesInv'
  BY <1>4, KallocGoesOn, TablesSame, ZenonT(60) DEF Kalloc
<1>5. ASSUME NEW p \in Proc, MemFull(p) PROVE TablesInv'
  <2>1. NoNewFault
    BY <1>5, FaultGoesOn, Zenon DEF MemFull, AtStep, Handling
  <2> QED BY Zenon, <1>5, <2>1, TablesSame DEF MemFull
<1>6. ASSUME NEW p \in Proc, NoVictim(p) \/ RetryFails(p) \/ LoadCopy(p)
      PROVE  TablesInv'
  <2>1. NoNewFault
    BY <1>6, FaultGoesOn, ZenonT(60) DEF NoVictim, RetryFails, LoadCopy
  <2> QED BY <1>6, <2>1, TablesSame, ZenonT(60) DEF NoVictim, RetryFails,
             LoadCopy
<1>7. ASSUME NEW p \in Proc, Evict(p) PROVE TablesInv'
  <2>1. PICK i \in select_victim(vm[p].pages) :
          \/ EvictStale(p, vm[p].pages[i].va)
          \/ EvictClean(p, vm[p].pages[i].va)
          \/ EvictDirty(p, vm[p].pages[i].va)
          \/ SwapFull(p, vm[p].pages[i].va)
    BY <1>7, SMTT(30) DEF Evict
  <2> DEFINE va == vm[p].pages[i].va
             a == fault[p].va
  <2>2. /\ pstate[p] = "LIVE" /\ pstate' = pstate /\ Consistent(vm[p])
        /\ i \in Resident(vm[p].pages) /\ Handling(fault[p])
    BY Zenon, <1>7, VictimResident
    DEF Evict, AtStep, Handling, TablesInv, TablesConsistent
  <2>3. Fresh(fault[p]) => uint(a) = a
    BY Zenon, UintOfUVa DEF TablesInv, LoadsAreFresh
  <2>4. ~ismapped(p, a)
    BY <2>2, SMTT(30) DEF UnmappedInv, FaultPageStaysUnmapped, Handling
  <2>5. NoNewFault
    BY <2>1, <2>2, FaultGoesOn, ZenonT(60)
    DEF EvictStale, EvictClean, EvictDirty, SwapFull
  <2>6. CASE EvictStale(p, va)
    <3> DEFINE m == memstat_mark_unmapped(vm[p], va)
    <3>1. Consistent(m) /\ (was_swapped(m.pages, a) => was_swapped(vm[p].pages, a))
      BY <2>2, MarkUnmapped, Zenon DEF was_swapped
    <3>2. vm' = [vm EXCEPT ![p] = m]
      BY <2>6, SMTT(30) DEF EvictStale
    <3> HIDE DEF m
    <3> QED BY <2>2, <2>5, <3>1, <3>2, TablesReplaced, Zenon
  <2>7. CASE EvictClean(p, va)
    <3> DEFINE m == evict_clean(vm[p], va)
    <3>1. Consistent(m) /\ (was_swapped(m.pages, a) => was_swapped(vm[p].pages, a))
      BY Zenon, <2>2, EvictedClean
    <3>2. vm' = [vm EXCEPT ![p] = m]
      BY <2>7, SMTT(30) DEF EvictClean
    <3> HIDE DEF m
    <3> QED BY <2>2, <2>5, <3>1, <3>2, TablesReplaced, Zenon
  <2>8. CASE EvictDirty(p, va)
    <3> DEFINE b == swapfile_create(vm[p])
               s == free_slot(b)
               m == evict_dirty(b, va, s)
    <3>1. Consistent(b) /\ b.pages = vm[p].pages
      BY Zenon, <2>2, SwapfileFlag DEF Consistent, VMState, swapfile_create
    <3>2. s \in Slot /\ vm' = [vm EXCEPT ![p] = m] /\ ismapped(p, va)
      BY Zenon, <2>8 DEF EvictDirty
    <3> HIDE DEF b, s
    <3>3. /\ Consistent(m)
          /\ was_swapped(m.pages, a) => was_swapped(b.pages, a) \/ uint(a) = va
      <4>1. i \in Resident(b.pages) /\ va = b.pages[i].va
        BY <2>2, <3>1, SMTT(30)
      <4> DEFINE e == evict_dirty(b, b.pages[i].va, s)
      <4>2. /\ Consistent(e)
            /\ \A x : was_swapped(e.pages, x)
                        => was_swapped(b.pages, x) \/ uint(x) = b.pages[i].va
        BY <3>1, <3>2, <4>1, EvictedDirty, SMTT(30) DEF s
      <4>3. m = e
        BY <4>1, SMTT(30)
      <4> HIDE DEF e, m
      <4> QED BY <4>1, <4>2, <4>3, SMTT(30)
    <3>4. Fresh(fault[p]) =>
            (was_swapped(m.pages, a) => was_swapped(vm[p].pages, a))
      BY <2>3, <2>4, <3>1, <3>2, <3>3, ZenonT(60)
    <3> HIDE DEF m
    <3> QED BY <2>2, <2>5, <3>2, <3>3, <3>4, TablesReplaced, ZenonT(60)
  <2>9. CASE SwapFull(p, va)
    <3>1. NoNewFault /\ ~Handling(fault'[p])
      BY <2>9, FaultGoesOn, ZenonT(60) DEF SwapFull
    <3>2. vm' = vm \/ vm' = [vm EXCEPT ![p] = swapfile_create(vm[p])]
      BY Zenon, <2>9 DEF SwapFull
    <3>3. Consistent(swapfile_create(vm[p]))
      BY <2>2, SwapfileFlag, SMTT(30)
    <3> QED BY <2>2, <3>1, <3>2, <3>3, TablesSame, TablesReplaced, ZenonT(60)
  <2> QED BY <2>1, <2>6, <2>7, <2>8, <2>9, SMTT(30)
<1>8. ASSUME NEW p \in Proc, LoadTrap(p) PROVE TablesInv'
  <2> DEFINE a == fault[p].va
             w == fault[p].write
             s == swapin_slot(vm[p], a)
  <2>1. /\ pstate[p] = "LIVE" /\ pstate' = pstate /\ Consistent(vm[p])
        /\ Handling(fault[p]) /\ fault[p].ctx = "trap"
    BY Zenon, <1>8 DEF LoadTrap, AtStep, Handling, TablesInv, TablesConsistent
  <2>2. a \in Page /\ w \in BOOLEAN
    BY SMTT(30) DEF TypeOK, Fault
  <2>3. NoNewFault /\ ~Handling(fault'[p])
    BY <1>8, FaultGoesOn, ZenonT(60) DEF LoadTrap
  <2>4. fault[p].kind # "swap" => ~was_swapped(vm[p].pages, a)
    BY Zenon, <2>1 DEF TablesInv, LoadsAreFresh, Fresh
  <2>5. CASE LoadAnon(p, a)
    <3>1. Consistent(became_resident(vm[p], a, w))
      BY Zenon, <2>1, <2>2, <2>4, <2>5, BecameResident DEF LoadAnon
    <3>2. vm' = [vm EXCEPT ![p] = became_resident(vm[p], a, w)]
      BY <2>5, SMTT(30) DEF LoadAnon
    <3> QED BY <2>1, <2>3, <3>1, <3>2, TablesReplaced, ZenonT(60)
  <2>6. CASE LoadExec(p, a)
    <3>1. Consistent(became_resident(vm[p], a, FALSE))
      BY <2>1, <2>2, <2>4, <2>6, BecameResident, Zenon DEF LoadExec
    <3>2. vm' = [vm EXCEPT ![p] = became_resident(vm[p], a, FALSE)]
      BY <2>6, SMTT(30) DEF LoadExec
    <3> QED BY <2>1, <2>3, <3>1, <3>2, TablesReplaced, ZenonT(60)
  <2>7. CASE LoadSwap(p, a)
    <3> DEFINE b == swapin_page(vm[p], a, s)
               m == became_resident(b, a, w)
    <3>1. s \in Slot /\ vm' = [vm EXCEPT ![p] = m]
      BY Zenon, <2>7 DEF LoadSwap
    <3>2. Consistent(b) /\ ~was_swapped(b.pages, a)
      BY <2>1, <2>2, <3>1, SwapIn, SMTT(30)
    <3> HIDE DEF b
    <3>3. Consistent(m)
      BY <2>2, <3>2, BecameResident, SMTT(30)
    <3> HIDE DEF m
    <3> QED BY <2>1, <2>3, <3>1, <3>3, TablesReplaced, ZenonT(60)
  <2> QED BY <1>8, <2>5, <2>6, <2>7, SMTT(30) DEF LoadTrap
<1>9. ASSUME NEW p \in Proc, LoadFails(p) PROVE TablesInv'
  <2> DEFINE a == fault[p].va
             s == swapin_slot(vm[p], a)
             m == swapin_page(vm[p], a, s)
  <2>1. pstate[p] = "LIVE" /\ pstate' = pstate /\ Consistent(vm[p]) /\ a \in Page
    BY <1>9, SMTT(30) DEF LoadFails, AtStep, TablesInv, TablesConsistent,
       TypeOK, Fault
  <2>2. NoNewFault /\ ~Handling(fault'[p])
    BY <1>9, FaultGoesOn, SMTT(30) DEF LoadFails
  <2>3. vm' = vm \/ (s \in Slot /\ vm' = [vm EXCEPT ![p] = m])
    BY <1>9, SMTT(30) DEF LoadFails
  <2>4. s \in Slot => Consistent(m)
    BY Zenon, <2>1, SwapIn
  <2> HIDE DEF a, s, m
  <2> QED BY <2>1, <2>2, <2>3, <2>4, TablesSame, TablesReplaced, SMTT(30)
<1>10. ASSUME NEW p \in Proc, Fork(p) PROVE TablesInv'
  <2>1. PICK c \in Proc :
          /\ pstate[c] = "UNUSED"
          /\ pstate' = [pstate EXCEPT ![c] = "LIVE"]
          /\ vm' = [vm EXCEPT ![c] = FreshVM]
    BY <1>10, Zenon DEF Fork
  <2>2. fault' = fault
    BY Zenon, <1>10 DEF Fork
  <2>3. ~Handling(fault[c])
    BY Zenon, <2>1 DEF UnmappedInv, HandlersLive
  <2>4. \A q \in Proc : q # c => vm'[q] = vm[q] /\ pstate'[q] = pstate[q]
    BY Zenon, <2>1 DEF TypeOK
  <2>5. vm'[c] = FreshVM
    BY Zenon, <2>1 DEF TypeOK
  <2>6. TablesConsistent'
    BY <2>4, <2>5, FreshConsistent, SMTT(30) DEF TablesInv, TablesConsistent
  <2>7. LoadsAreFresh'
    BY Zenon, <2>2, <2>3, <2>4 DEF TablesInv, LoadsAreFresh, Fresh
  <2> QED BY <2>6, <2>7, SMTT(30) DEF TablesInv
<1>11. ASSUME NEW p \in Proc, Exec(p) PROVE TablesInv'
  <2>1. CASE ~Halt
    <3>1. /\ vm' \in {vm, [vm EXCEPT ![p] = swapfile_create(@)]}
          /\ UNCHANGED <<pstate, fault>>
      BY <1>11, <2>1, SMTT(30) DEF Exec
    <3>2. ~Handling(fault'[p]) /\ Consistent(vm[p])
      BY <1>11, <3>1, ZenonT(60)
      DEF Exec, InCall, Running, Handling, TablesInv, TablesConsistent
    <3>3. NoNewFault
      BY Zenon, <3>1 DEF NoNewFault
    <3>4. Consistent(swapfile_create(vm[p]))
      BY Zenon, <3>2, SwapfileFlag
    <3> QED BY <3>1, <3>2, <3>3, <3>4, TablesSame, TablesReplaced, SMTT(30)
  <2> QED BY <1>1, <1>11, <2>1, SMTT(30)
<1>12. ASSUME NEW p \in Proc, Exit(p) PROVE TablesInv'
  <2>1. \A q \in Proc : q # p =>
          fault'[q] = fault[q] /\ vm'[q] = vm[q] /\ pstate'[q] = pstate[q]
    BY <1>12, SMTT(30) DEF Exit, TypeOK
  <2>2. ~Handling(fault'[p]) /\ pstate'[p] # "LIVE"
    BY <1>12, SMTT(30) DEF Exit, TypeOK, Idle, Handling
  <2>3. TablesConsistent'
    BY <2>1, <2>2, SMTT(30) DEF TablesInv, TablesConsistent
  <2>4. LoadsAreFresh'
    BY Zenon, <2>1, <2>2 DEF TablesInv, LoadsAreFresh, Fresh
  <2> QED BY <2>3, <2>4, SMTT(30) DEF TablesInv
<1>13. ASSUME NEW p \in Proc, Wait(p) PROVE TablesInv'
  <2>1. CASE ~Halt
    <3>1. pstate' = [pstate EXCEPT ![p] = "UNUSED"] /\ UNCHANGED <<vm, fault>>
      BY <1>13, <2>1, SMTT(30) DEF Wait
    <3>2. \A q \in Proc : pstate'[q] = "LIVE" => pstate[q] = "LIVE"
      BY Zenon, <3>1 DEF TypeOK
    <3>3. NoNewFault
      BY Zenon, <3>1 DEF NoNewFault
    <3> QED BY <3>1, <3>2, <3>3, TablesSame, SMTT(30)
  <2> QED BY Zenon, <1>1, <1>13, <2>1
<1> QED
  BY <1>0, <1>1, <1>2, <1>3, <1>4, <1>5, <1>6, <1>7, <1>8, <1>9, <1>10, <1>11,
     <1>12, <1>13, SMTT(30) DEF Next, Handler, vars

\* allocproc() hands out empty tables.
LEMMA InitTables == Init => TablesInv
<1> SUFFICES ASSUME Init PROVE TablesInv
  BY Zenon
<1>1. \A p \in Proc : vm[p] = swapfile_create(FreshVM) \/ vm[p] = FreshVM
  BY Zenon DEF Init
<1>2. TablesConsistent
  BY <1>1, FreshConsistent, SwapfileFlag, SMTT(30) DEF TablesConsistent
<1>3. LoadsAreFresh
  BY Zenon DEF Init, Idle, LoadsAreFresh, Fresh, Handling
<1> QED BY <1>2, <1>3, SMTT(30) DEF TablesInv

-----------------------------------------------------------------------------
(* What the swap slots hold. *)

\* A slot in use holds what proc_swapout_page() wrote.
SlotsFilled ==
  \A p \in Proc : \A s \in UsedSlots(vm[p]) : swap[p][s] # Junk

\* The slot that swapin_page() finds is in use.
LEMMA SlotsFilledSwapin ==
  ASSUME TypeOK, SlotsFilled PROVE SwapinFilled
BY Zenon, SwapinSlots DEF TypeOK, SlotsFilled, SwapinFilled

\* A step that takes no slot.
LEMMA SlotsReplaced ==
  ASSUME TypeOK, SlotsFilled, NEW p \in Proc, NEW m,
         vm' = [vm EXCEPT ![p] = m], swap' = swap,
         UsedSlots(m) \subseteq UsedSlots(vm[p])
  PROVE  SlotsFilled'
<1>1. \A q \in Proc : vm'[q] = IF q = p THEN m ELSE vm[q]
  BY Zenon DEF TypeOK
<1> QED BY Zenon, <1>1 DEF SlotsFilled

\* No step puts into use a slot that it did not write from a mapped page.
LEMMA SlotsStep ==
  TypeOK /\ MappedFilled /\ SlotsFilled /\ [Next]_vars => SlotsFilled'
<1> SUFFICES ASSUME TypeOK, MappedFilled, SlotsFilled, [Next]_vars
             PROVE  SlotsFilled'
  BY Zenon
<1> USE DEF procVars, spaceVars, tableVars
<1>0. ASSUME UNCHANGED <<vm, swap>> PROVE SlotsFilled'
  BY <1>0, Zenon DEF SlotsFilled
<1>1. ASSUME NEW p \in Proc,
             \/ Store(p) \/ CopyOut(p) \/ CopyMissing(p) \/ Kalloc(p)
             \/ MemFull(p) \/ NoVictim(p) \/ RetryFails(p) \/ LoadCopy(p)
             \/ SbrkLazy(p) \/ SbrkEager(p) \/ SbrkShrink(p) \/ Kill(p)
             \/ Wait(p) \/ Halt
      PROVE  SlotsFilled'
  BY <1>0, <1>1, ZenonT(60)
  DEF Store, CopyOut, CopyMissing, Kalloc, MemFull, NoVictim, RetryFails,
      LoadCopy, SbrkLazy, SbrkEager, SbrkShrink, Kill, Wait, Halt
<1>2. ASSUME NEW p \in Proc, PageFault(p) PROVE SlotsFilled'
  <2>1. PICK a \in Page : \E acc, c : \/ TrapInvalid(p, a, acc, c)
                                      \/ TrapMapped(p, a, acc, c)
                                      \/ TrapMissing(p, a, acc, c)
    BY Zenon, <1>2 DEF PageFault
  <2>2. \/ vm' = vm
        \/ vm' = [vm EXCEPT ![p] = mark_dirty_resident(vm[p], a)]
        \/ vm' = [vm EXCEPT ![p] = mark_dirty_first(vm[p], a)]
    BY Zenon, <2>1 DEF TrapInvalid, TrapMapped, TrapMissing
  <2>3. vm[p] \in VMState /\ swap' = swap
    BY <1>2, Zenon DEF PageFault, TypeOK
  <2> QED BY <1>0, <2>2, <2>3, SlotsKept, SlotsReplaced, Zenon
<1>3. ASSUME NEW p \in Proc, Evict(p) PROVE SlotsFilled'
  <2>1. PICK i \in select_victim(vm[p].pages) :
          \/ EvictStale(p, vm[p].pages[i].va)
          \/ EvictClean(p, vm[p].pages[i].va)
          \/ EvictDirty(p, vm[p].pages[i].va)
          \/ SwapFull(p, vm[p].pages[i].va)
    BY Zenon, <1>3 DEF Evict
  <2> DEFINE va == vm[p].pages[i].va
  <2>2. va \in Page /\ vm[p] \in VMState
    BY Zenon, VictimPage DEF TypeOK
  <2> HIDE DEF va
  <2>3. CASE EvictStale(p, va) \/ EvictClean(p, va) \/ SwapFull(p, va)
    <3>1. swap' = swap
      BY <2>3, Zenon DEF EvictStale, EvictClean, SwapFull
    <3>2. \/ vm' = vm
          \/ vm' = [vm EXCEPT ![p] = memstat_mark_unmapped(vm[p], va)]
          \/ vm' = [vm EXCEPT ![p] = evict_clean(vm[p], va)]
          \/ vm' = [vm EXCEPT ![p] = swapfile_create(vm[p])]
      BY Zenon, <2>3 DEF EvictStale, EvictClean, SwapFull
    <3> QED BY <1>0, <2>2, <3>1, <3>2, SlotsKept, SlotsReplaced, Zenon
  <2>4. CASE EvictDirty(p, va)
    <3> DEFINE b == swapfile_create(vm[p])
               s == free_slot(b)
    <3>1. /\ s \in Slot /\ ismapped(p, va)
          /\ swap' = [swap EXCEPT ![p][s] = mem[pt[p][va]]]
          /\ vm' = [vm EXCEPT ![p] = evict_dirty(b, va, s)]
      BY <2>4, Zenon DEF EvictDirty
    <3>2. b \in VMState /\ UsedSlots(b) = UsedSlots(vm[p])
      BY <2>2, SwapfileTypes, SlotsKept, Zenon
    <3> HIDE DEF b, s
    <3>3. UsedSlots(evict_dirty(b, va, s)) \subseteq UsedSlots(vm[p]) \cup {s}
      BY Zenon, <2>2, <3>1, <3>2, EvictDirtySlots
    <3>4. \A q \in Proc : vm'[q] = IF q = p THEN evict_dirty(b, va, s) ELSE vm[q]
      BY <3>1, Zenon DEF TypeOK
    <3>5. mem[pt[p][va]] # Junk
      BY Zenon, <2>2, <3>1 DEF MappedFilled
    <3>6. \A q \in Proc, t \in Slot :
            swap'[q][t] = IF q = p /\ t = s THEN mem[pt[p][va]] ELSE swap[q][t]
      BY <3>1, Zenon DEF TypeOK
    <3>7. \A q \in Proc : \A t \in UsedSlots(vm'[q]) :
            t \in Slot /\ (t \in UsedSlots(vm[q]) \/ (q = p /\ t = s))
      <4>1. \A x : UsedSlots(x) \subseteq Slot
        BY Zenon DEF UsedSlots
      <4> QED BY Zenon, <3>3, <3>4, <4>1
    <3> QED BY <3>5, <3>6, <3>7 DEF SlotsFilled
  <2> QED BY <2>1, <2>3, <2>4, Zenon DEF va
<1>4. ASSUME NEW p \in Proc, LoadTrap(p) PROVE SlotsFilled'
  <2> DEFINE a == fault[p].va
             s == swapin_slot(vm[p], a)
  <2>1. swap' = swap /\ a \in Page /\ vm[p] \in VMState /\ fault[p].write \in BOOLEAN
    BY <1>4, Zenon DEF LoadTrap, TypeOK, Fault
  <2>2. CASE ~LoadSwap(p, a)
    <3>1. PICK w \in BOOLEAN : vm' = [vm EXCEPT ![p] = became_resident(vm[p], a, w)]
      BY <1>4, <2>1, <2>2, Zenon DEF LoadTrap, LoadAnon, LoadExec
    <3> QED BY <2>1, <3>1, SlotsKept, SlotsReplaced, Zenon
  <2>3. CASE LoadSwap(p, a)
    <3> DEFINE b == swapin_page(vm[p], a, s)
               m == became_resident(b, a, fault[p].write)
    <3>1. s \in Slot /\ vm' = [vm EXCEPT ![p] = m]
      BY <2>3, Zenon DEF LoadSwap
    <3>2. b \in VMState /\ UsedSlots(b) \subseteq UsedSlots(vm[p])
      BY Zenon, <2>1, <3>1, SwapinType, SwapinSlots
    <3> HIDE DEF b
    <3>3. UsedSlots(m) = UsedSlots(b)
      BY Zenon, <2>1, <3>2, SlotsKept
    <3> QED BY <2>1, <3>1, <3>2, <3>3, SlotsReplaced, Zenon
  <2> QED BY Zenon, <2>2, <2>3
<1>5. ASSUME NEW p \in Proc, LoadFails(p) PROVE SlotsFilled'
  <2> DEFINE a == fault[p].va
             s == swapin_slot(vm[p], a)
  <2>1. swap' = swap /\ a \in Page /\ vm[p] \in VMState
    BY <1>5, Zenon DEF LoadFails, TypeOK, Fault
  <2>2. vm' = vm \/ (s \in Slot /\ vm' = [vm EXCEPT ![p] = swapin_page(vm[p], a, s)])
    BY <1>5, SMTT(30) DEF LoadFails
  <2> HIDE DEF a, s
  <2> QED BY Zenon, <1>0, <2>1, <2>2, SwapinSlots, SlotsReplaced
<1>6. ASSUME NEW p \in Proc, Fork(p) \/ Exec(p) \/ Exit(p) PROVE SlotsFilled'
  <2>1. PICK c \in Proc :
          \/ vm' = vm
          \/ vm' = [vm EXCEPT ![c] = FreshVM]
          \/ vm' = [vm EXCEPT ![c] = swapfile_create(vm[c])]
          \/ vm' = [vm EXCEPT ![c] = IF vm[c].swapfile
                                     THEN swapfile_cleanup(vm[c]) ELSE vm[c]]
    <3>1. CASE Fork(p)
      BY <3>1, Zenon DEF Fork
    <3>2. CASE Exec(p)
      <4>1. vm' \in {vm, [vm EXCEPT ![p] = swapfile_create(vm[p])]}
        BY Zenon, <3>2 DEF Exec, Halt
      <4> QED BY Zenon, <4>1
    <3>3. CASE Exit(p)
      BY <3>3, Zenon DEF Exit
    <3> QED BY Zenon, <1>6, <3>1, <3>2, <3>3
  <2>2. swap' = swap
    BY <1>6, Zenon DEF Fork, Exec, Exit, Halt
  <2>3. /\ UsedSlots(FreshVM) = {} /\ UsedSlots(swapfile_cleanup(vm[c])) = {}
        /\ UsedSlots(swapfile_create(vm[c])) = UsedSlots(vm[c])
    <3>1. vm[c] \in VMState /\ 0 \in Page
      BY SizesAssumption DEF TypeOK, Page
    <3> QED BY <3>1, SwapinSlots, SlotsKept, Zenon
  <2> QED BY Zenon, <1>0, <2>1, <2>2, <2>3, SlotsReplaced
<1> QED
  BY <1>0, <1>1, <1>2, <1>3, <1>4, <1>5, <1>6, Zenon DEF Next, Handler, vars

\* Initially no slot is in use.
LEMMA InitSlots == Init => SlotsFilled
<1> SUFFICES ASSUME Init, NEW p \in Proc PROVE UsedSlots(vm[p]) = {}
  BY Zenon DEF SlotsFilled
<1>1. vm[p] = swapfile_create(FreshVM) \/ vm[p] = FreshVM
  BY Zenon DEF Init
<1>2. FreshVM \in VMState /\ 0 \in Page
  BY FreshConsistent, SizesAssumption DEF Consistent, Page
<1> QED BY <1>1, <1>2, SlotsKept, SwapinSlots, Zenon

-----------------------------------------------------------------------------
(* What holds in every reachable state. *)

\* Every variable keeps its type: indices stay inside memstat.pages and
\* swap_table, addresses inside the page table, and the break within the
\* user address space.
THEOREM TypeCorrect == Spec => []TypeOK
<1>1. Init => TypeOK /\ FramesExclusive
  BY Zenon, InitType, InitFrames
<1>2. TypeOK /\ FramesExclusive /\ [Next]_vars => (TypeOK /\ FramesExclusive)'
  BY Zenon, TypeStep, FramesStep
<1> QED BY <1>1, <1>2, PTL DEF Spec

\* Memory isolation: no frame is mapped twice, mapped while it is free, or
\* given to two fault handlers, whatever the processes do and however their
\* handlers interleave.
THEOREM FramesExclusiveAlways == Spec => []FramesExclusive
<1>1. Init => TypeOK /\ FramesExclusive
  BY Zenon, InitType, InitFrames
<1>2. TypeOK /\ FramesExclusive /\ [Next]_vars => (TypeOK /\ FramesExclusive)'
  BY Zenon, TypeStep, FramesStep
<1> QED BY <1>1, <1>2, PTL DEF Spec

\* mappages() never finds the page of a fault handler mapped: while the
\* handler allocates, evicts and sleeps, no other step maps its page.
THEOREM FaultPageUnmapped == Spec => []FaultPageStaysUnmapped
<1> DEFINE Inv == TypeOK /\ FramesExclusive /\ UnmappedInv
<1>1. Init => Inv
  BY Zenon, InitType, InitFrames, InitUnmapped
<1>2. Inv /\ [Next]_vars => Inv'
  BY Zenon, TypeStep, FramesStep, UnmappedStep
<1>3. Inv => FaultPageStaysUnmapped
  BY Zenon DEF UnmappedInv
<1> HIDE DEF Inv
<1> QED BY <1>1, <1>2, <1>3, PTL DEF Spec

\* As long as no break has passed what the 32-bit address fields can name,
\* the memstat entries, the swap slots and the residence order of every live
\* process agree: no lookup finds another page's entry, no swap slot leaks or
\* is shared, and the FIFO order is total.  The user address space may be
\* larger than the fields can name, as it is in the kernel.
THEOREM BookkeepingConsistent ==
  Spec /\ []BreaksFit
    => [](MemstatLookupsAgree /\ SwapTableMatches /\ ResidenceOrdered)
<1> DEFINE Inv == TypeOK /\ FramesExclusive /\ UnmappedInv /\ TablesInv
<1>1. Init => Inv
  BY Zenon, InitType, InitFrames, InitUnmapped, InitTables
<1>2. Inv /\ BreaksFit /\ [Next]_vars => Inv'
  BY Zenon, TypeStep, FramesStep, UnmappedStep, TablesStep
<1>3. Inv => MemstatLookupsAgree /\ SwapTableMatches /\ ResidenceOrdered
  BY Zenon DEF TablesInv, TablesConsistent, Consistent, MemstatLookupsAgree,
         SwapTableMatches, ResidenceOrdered
<1> HIDE DEF Inv
<1> QED BY <1>1, <1>2, <1>3, PTL DEF Spec

\* No frame is ever lost: whichever step of a fault handler fails, and
\* however processes fork, exec, move their breaks, exit and are reaped in
\* between, every frame that is not free is mapped or held by a handler.
THEOREM NoFrameLost == Spec => []FramesNotLost
<1> DEFINE Inv == /\ TypeOK /\ FramesExclusive /\ UnmappedInv
                  /\ FramesNotLost /\ UnusedEmpty
<1>1. Init => Inv
  BY Zenon, InitType, InitFrames, InitUnmapped, InitNotLost
<1>2. Inv /\ [Next]_vars => Inv'
  BY TypeStep, FramesStep, UnmappedStep, NotLostStep, UnusedStep, Zenon
     DEF UnmappedInv
<1>3. Inv => FramesNotLost
  BY Zenon
<1> HIDE DEF Inv
<1> QED BY <1>1, <1>2, <1>3, PTL DEF Spec

\* No program ever reads what another process left in a frame: a page it can
\* reach was filled from zeros, the executable, its own swap slot or its
\* parent's page.
THEOREM NoJunkReadable == Spec => []NoJunkVisible
<1> DEFINE Inv == TypeOK /\ FramesExclusive /\ MappedFilled /\ SlotsFilled
<1>1. Init => Inv
  BY Zenon, InitType, InitFrames, InitFilled, InitSlots
<1>2. Inv /\ [Next]_vars => Inv'
  BY TypeStep, FramesStep, FilledStep, SlotsStep, SlotsFilledSwapin, Zenon
<1>3. Inv => NoJunkVisible
  BY Zenon DEF MappedFilled, NoJunkVisible, walkaddr, ismapped
<1> HIDE DEF Inv
<1> QED BY <1>1, <1>2, <1>3, PTL DEF Spec

\* As long as no break has passed what the 32-bit address fields can name,
\* every eviction takes, among the pages with a RESIDENT memstat entry, the
\* one that became resident first; with clean-first replacement, the first of
\* those not marked dirty, and a dirty one only when all are.
THEOREM OldestEvicted == Spec /\ []BreaksFit => VictimIsOldest
<1> DEFINE Inv == TypeOK /\ FramesExclusive /\ UnmappedInv /\ TablesInv
           Step == \A p \in Proc : \A i, j \in Resident(vm[p].pages) :
                     /\ fault[p].at = "evict" /\ fault'[p].at = "retry"
                     /\ vm'[p].pages[i].state # "RESIDENT"
                     /\ vm'[p].pages[j].state = "RESIDENT"
                     => LET x == vm[p].pages[i]
                            y == vm[p].pages[j]
                        IN  IF Policy = "FIFO" \/ x.is_dirty = y.is_dirty
                            THEN x.seq < y.seq ELSE ~x.is_dirty
<1>1. Init => Inv
  BY Zenon, InitType, InitFrames, InitUnmapped, InitTables
<1>2. Inv /\ BreaksFit /\ [Next]_vars => Inv'
  BY Zenon, TypeStep, FramesStep, UnmappedStep, TablesStep
<1>3. Inv /\ [Next]_vars => [Step]_vars
  BY VictimStep, Zenon
<1> HIDE DEF Inv
<1>4. Spec /\ []BreaksFit => [][Step]_vars
  BY <1>1, <1>2, <1>3, PTL DEF Spec
<1> QED BY Zenon, <1>4 DEF VictimIsOldest
=============================================================================
