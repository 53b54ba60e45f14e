----------------------------- MODULE TypeProofs -----------------------------
(***************************************************************************)
(* Proof that every step of Paging keeps the types of the variables, for   *)
(* every number of processes, frames, pages and table entries, every       *)
(* executable layout and both replacement policies.                        *)
(***************************************************************************)
EXTENDS Paging, ProcVMProofs, TLAPS

-----------------------------------------------------------------------------
(* Types of what the steps store. *)

\* What kalloc(), kfree(), exec, the executable and a store leave in a page.
LEMMA Contents ==
  /\ Zero \in Content /\ Junk \in Content /\ Args \in Content
  /\ \A i \in Image, a \in Page : FromFile(i, a) \in Content
  /\ \A v \in Val : Stored(v) \in Content
BY DEF Content

\* The handler records that usertrap() and vmfault() start and end with.
LEMMA FaultRecords ==
  /\ Idle \in Fault /\ [Idle EXCEPT !.at = "exit"] \in Fault
  /\ \A ctx \in {"trap", "copyin", "copyout"}, a \in Page,
        kind \in {"swap", "exec", "anon"}, write \in BOOLEAN :
       StartFault(ctx, a, kind, write) \in Fault
<1>1. 0 \in Page
  BY SizesAssumption DEF Page
<1>2. Idle \in Fault
  BY Zenon, <1>1 DEF Idle, Fault
<1>3. [Idle EXCEPT !.at = "exit"] \in Fault
  BY Zenon, <1>2 DEF Fault
<1>4. \A ctx \in {"trap", "copyin", "copyout"}, a \in Page,
         kind \in {"swap", "exec", "anon"}, write \in BOOLEAN :
        StartFault(ctx, a, kind, write) \in Fault
  BY Zenon DEF StartFault, Fault
<1> QED BY Zenon, <1>2, <1>3, <1>4

\* The end of a trap, with or without a kill.
LEMMA EndTypes ==
  ASSUME TypeOK, NEW p \in Proc
  PROVE  /\ Resumed(p) => /\ fault' \in [Proc -> Fault]
                          /\ killed' \in [Proc -> BOOLEAN]
         /\ KillSelf(p) => /\ fault' \in [Proc -> Fault]
                           /\ killed' \in [Proc -> BOOLEAN]
         /\ FaultFails(p) => /\ fault' \in [Proc -> Fault]
                             /\ killed' \in [Proc -> BOOLEAN]
<1>1. Resumed(p) => fault' \in [Proc -> Fault] /\ killed' \in [Proc -> BOOLEAN]
  BY FaultRecords DEF Resumed, Resume, TypeOK
<1>2. KillSelf(p) => fault' \in [Proc -> Fault] /\ killed' \in [Proc -> BOOLEAN]
  BY FaultRecords DEF KillSelf, Resume, TypeOK
<1> QED BY Zenon, <1>1, <1>2 DEF FaultFails

\* A step of the handler in progress.
LEMMA GotoType ==
  ASSUME TypeOK, NEW p \in Proc,
         NEW at \in {"user", "alloc", "evict", "retry", "load", "exit"},
         Goto(p, at)
  PROVE  fault' \in [Proc -> Fault]
<1>1. fault \in [Proc -> Fault] /\ fault[p] \in Fault
  BY Zenon DEF TypeOK
<1>2. [fault[p] EXCEPT !.at = at] \in Fault
  BY Zenon, <1>1 DEF Fault
<1>3. fault' = [fault EXCEPT ![p] = [fault[p] EXCEPT !.at = at]]
  BY Zenon, <1>1 DEF Goto
<1> QED BY Zenon, <1>1, <1>2, <1>3

\* kfree() of frames.
LEMMA KfreeType ==
  ASSUME TypeOK, NEW fs \in SUBSET Frame, kfree(fs)
  PROVE  free' \subseteq Frame /\ mem' \in [Frame -> Content]
BY Zenon, Contents DEF kfree, TypeOK

\* mappages() of one page.
LEMMA MapType ==
  ASSUME TypeOK, NEW p \in Proc, NEW a \in Page,
         NEW f \in Frame \cup {NoFrame}, NEW flags \in SUBSET {"U", "W", "X"},
         Map(p, a, f, flags)
  PROVE  /\ pt' \in [Proc -> [Page -> Frame \cup {NoFrame}]]
         /\ perm' \in [Proc -> [Page -> SUBSET {"U", "W", "X"}]]
BY Zenon DEF Map, TypeOK

\* A change of one page's flags.
LEMMA PermType ==
  ASSUME TypeOK, NEW p \in Proc, NEW a \in Page,
         NEW flags \in SUBSET {"U", "W", "X"}
  PROVE  [perm EXCEPT ![p][a] = flags]
            \in [Proc -> [Page -> SUBSET {"U", "W", "X"}]]
BY Zenon DEF TypeOK

\* One process's bookkeeping is replaced.
LEMMA VMType ==
  ASSUME TypeOK, NEW p \in Proc, NEW m \in VMState
  PROVE  [vm EXCEPT ![p] = m] \in [Proc -> VMState]
BY Zenon DEF TypeOK

\* An Injection is a function between the two sets, as in fork and Init.
LEMMA InjectionMaps ==
  ASSUME NEW S, NEW T, NEW g \in Injection(S, T)
  PROVE  g \in [S -> T]
BY Zenon DEF Injection

-----------------------------------------------------------------------------
\* The initial state has the types.
LEMMA InitType == Init => TypeOK
<1> SUFFICES ASSUME Init PROVE TypeOK
  BY Zenon
<1>0. pstate \in [Proc -> {"UNUSED", "LIVE", "ZOMBIE"}]
  BY Zenon DEF Init
<1>1. /\ parent \in [Proc -> Proc \cup {initproc}]
      /\ killed \in [Proc -> BOOLEAN]
      /\ image \in [Proc -> Image]
      /\ low_sp \in [Proc -> BOOLEAN]
      /\ panicked \in BOOLEAN
  <2>1. /\ parent = [p \in Proc |-> initproc] /\ killed = [p \in Proc |-> FALSE]
        /\ image = [p \in Proc |-> Boot] /\ low_sp = [p \in Proc |-> FALSE]
        /\ panicked = FALSE
    BY Zenon DEF Init
  <2> QED BY <2>1, LayoutAssumption, Zenon
<1>2. sz \in [Proc -> 0 .. NPAGES]
  <2>1. StackPage[Boot] + 1 \in 0 .. NPAGES /\ 0 \in 0 .. NPAGES
    BY SizesAssumption, LayoutAssumption DEF Page
  <2> QED BY Zenon, <2>1 DEF Init
<1>3. PICK g \in Injection(Started, Frame), s \in Injection(Started, Frame) :
        /\ pt = [p \in Proc |-> IF p \in Started
                                THEN ExecTable(Boot, g[p], s[p])
                                ELSE [a \in Page |-> NoFrame]]
        /\ free = {f \in Frame : \A p \in Started : f # g[p] /\ f # s[p]}
        /\ mem = [f \in Frame |-> IF \E p \in Started : f = g[p] THEN Zero
                                  ELSE IF \E p \in Started : f = s[p] THEN Args
                                  ELSE Junk]
  BY Zenon DEF Init
<1>4. g \in [Started -> Frame] /\ s \in [Started -> Frame]
  BY Zenon, InjectionMaps
<1>5. pt \in [Proc -> [Page -> Frame \cup {NoFrame}]]
  <2>1. \A p \in Started :
          ExecTable(Boot, g[p], s[p]) \in [Page -> Frame \cup {NoFrame}]
    BY Zenon, <1>4 DEF ExecTable
  <2> QED BY Zenon, <1>3, <2>1
<1>6. perm \in [Proc -> [Page -> SUBSET {"U", "W", "X"}]]
  <2>1. ExecPerm(Boot) \in [Page -> SUBSET {"U", "W", "X"}]
    BY Zenon DEF ExecPerm
  <2> QED BY Zenon, <2>1 DEF Init
<1>7. free \subseteq Frame /\ mem \in [Frame -> Content]
  BY Zenon, <1>3, Contents
<1>8. vm \in [Proc -> VMState]
  <2>1. FreshVM \in VMState
    BY Zenon, FreshConsistent DEF Consistent
  <2>2. swapfile_create(FreshVM) \in VMState
    BY Zenon, <2>1, SwapfileTypes
  <2> QED BY Zenon, <2>1, <2>2 DEF Init
<1>9. swap \in [Proc -> [Slot -> Content]] /\ fault \in [Proc -> Fault]
  BY Zenon, Contents, FaultRecords DEF Init
<1> QED BY Zenon, <1>0, <1>1, <1>2, <1>5, <1>6, <1>7, <1>8, <1>9 DEF TypeOK

\* Every step keeps the types.  A handler that fails to map its page frees
\* the frame that kalloc() returned, which FramesExclusive knows to be one.
LEMMA TypeStep == TypeOK /\ FramesExclusive /\ [Next]_vars => TypeOK'
<1> SUFFICES ASSUME TypeOK, FramesExclusive, [Next]_vars PROVE TypeOK'
  BY Zenon
<1> USE DEF procVars, spaceVars, tableVars
<1>0. CASE UNCHANGED vars
  BY Zenon, <1>0 DEF vars, TypeOK
<1>1. ASSUME NEW p \in Proc, Store(p) \/ CopyOut(p) PROVE TypeOK'
  <2>1. PICK a \in Page, v \in Val :
          mem' = [mem EXCEPT ![pt[p][a]] = Stored(v)]
    BY Zenon, <1>1 DEF Store, CopyOut
  <2>2. mem' \in [Frame -> Content]
    BY <2>1, Contents, Zenon DEF TypeOK
  <2> QED BY Zenon, <1>1, <2>2 DEF Store, CopyOut, TypeOK
<1>2. ASSUME NEW p \in Proc, PageFault(p) PROVE TypeOK'
  <2>1. PICK a \in Page, acc \in Accesses, tail \in BOOLEAN :
          \/ TrapInvalid(p, a, acc, cause(p, a, tail, acc))
          \/ TrapMapped(p, a, acc, cause(p, a, tail, acc))
          \/ TrapMissing(p, a, acc, cause(p, a, tail, acc))
    BY Zenon, <1>2 DEF PageFault
  <2> DEFINE c == cause(p, a, tail, acc)
  <2> HIDE DEF c
  <2>2. UNCHANGED <<pstate, parent, spaceVars, swap, free, mem, panicked>>
    BY Zenon, <1>2 DEF PageFault
  <2>3. CASE TrapInvalid(p, a, acc, c)
    <3>1. fault' \in [Proc -> Fault] /\ killed' \in [Proc -> BOOLEAN]
      BY Zenon, <2>3, EndTypes DEF TrapInvalid
    <3> QED BY Zenon, <2>2, <2>3, <3>1 DEF TrapInvalid, TypeOK
  <2>4. CASE TrapMapped(p, a, acc, c)
    <3>1. fault' \in [Proc -> Fault] /\ killed' \in [Proc -> BOOLEAN]
      BY Zenon, <2>4, EndTypes DEF TrapMapped
    <3>2. vm[p] \in VMState
      BY Zenon DEF TypeOK
    <3>3. vm' \in [Proc -> VMState]
      <4>1. /\ mark_dirty_resident(vm[p], a) \in VMState
            /\ mark_dirty_first(vm[p], a) \in VMState
        BY Zenon, <3>2, MarkDirtyType
      <4>2. \/ vm' = vm
            \/ vm' = [vm EXCEPT ![p] = mark_dirty_resident(vm[p], a)]
            \/ vm' = [vm EXCEPT ![p] = mark_dirty_first(vm[p], a)]
        BY Zenon, <2>4 DEF TrapMapped
      <4> QED BY <4>1, <4>2, Zenon DEF TypeOK
    <3>4. pt' = pt
      BY Zenon, <2>4 DEF TrapMapped
    <3>5. perm' \in [Proc -> [Page -> SUBSET {"U", "W", "X"}]]
      <4>1. PICK flags \in SUBSET {"U", "W", "X"} :
              \/ perm' = perm
              \/ perm' = [perm EXCEPT ![p][a] = flags]
        <5>1. perm[p][a] \in SUBSET {"U", "W", "X"}
          BY DEF TypeOK
        <5>2. /\ perm[p][a] \cup {"W"} \in SUBSET {"U", "W", "X"}
              /\ (perm[p][a] \ {"W"}) \cup {"X"} \in SUBSET {"U", "W", "X"}
              /\ perm[p][a] \ {"W", "X"} \in SUBSET {"U", "W", "X"}
          BY Zenon, <5>1
        <5>3. \/ perm' = perm
              \/ perm' = [perm EXCEPT ![p][a] = perm[p][a] \cup {"W"}]
              \/ perm' = [perm EXCEPT ![p][a] = (perm[p][a] \ {"W"}) \cup {"X"}]
              \/ perm' = [perm EXCEPT ![p][a] = perm[p][a] \ {"W", "X"}]
          BY Zenon, <2>4 DEF TrapMapped, TypeOK
        <5> QED BY Zenon, <5>2, <5>3
      <4>2. perm \in [Proc -> [Page -> SUBSET {"U", "W", "X"}]]
        BY Zenon DEF TypeOK
      <4>3. [perm EXCEPT ![p][a] = flags]
              \in [Proc -> [Page -> SUBSET {"U", "W", "X"}]]
        BY PermType, Zenon
      <4>4. CASE perm' = perm
        BY Zenon, <4>2, <4>4
      <4>5. CASE perm' = [perm EXCEPT ![p][a] = flags]
        BY Zenon, <4>3, <4>5
      <4> QED BY Zenon, <4>1, <4>4, <4>5
    <3> QED BY Zenon, <2>2, <3>1, <3>3, <3>4, <3>5 DEF TypeOK
  <2>5. CASE TrapMissing(p, a, acc, c)
    <3>1. StartFault("trap", a, c, acc = "write") \in Fault
      BY <2>5, FaultRecords, Zenon DEF TrapMissing
    <3>2. fault' \in [Proc -> Fault]
      BY Zenon, <2>5, <3>1 DEF TrapMissing, TypeOK
    <3> QED BY Zenon, <2>2, <2>5, <3>2 DEF TrapMissing, TypeOK
  <2> QED BY Zenon, <2>1, <2>3, <2>4, <2>5 DEF c
<1>3. ASSUME NEW p \in Proc, CopyMissing(p) PROVE TypeOK'
  <2>1. PICK c \in {"copyin", "copyout"}, a \in Page :
          fault' = [fault EXCEPT ![p] =
                      StartFault(c, a, IF InSegment(p, a) THEN "exec"
                                                          ELSE "anon", FALSE)]
    BY <1>3, Zenon DEF CopyMissing
  <2>2. fault' \in [Proc -> Fault]
    BY <2>1, FaultRecords, Zenon DEF TypeOK
  <2> QED BY <1>3, <2>2, Zenon DEF CopyMissing, TypeOK
<1>4. ASSUME NEW p \in Proc, Kalloc(p) PROVE TypeOK'
  <2>1. PICK f \in free :
          /\ free' = free \ {f}
          /\ fault' = [fault EXCEPT ![p].at = "load", ![p].frame = f]
    BY <1>4, Zenon DEF Kalloc
  <2> DEFINE r == [fault[p] EXCEPT !.at = "load", !.frame = f]
  <2>2. fault \in [Proc -> Fault] /\ fault[p] \in Fault /\ f \in Frame
    BY Zenon DEF TypeOK
  <2>3. r \in Fault
    BY <2>2, Zenon DEF Fault
  <2>4. fault' = [fault EXCEPT ![p] = r]
    BY <2>1, <2>2, Zenon DEF Fault
  <2> HIDE DEF r
  <2>5. fault' \in [Proc -> Fault]
    BY Zenon, <2>2, <2>3, <2>4
  <2> QED BY Zenon, <1>4, <2>1, <2>5 DEF Kalloc, TypeOK
<1>5. ASSUME NEW p \in Proc, MemFull(p) PROVE TypeOK'
  <2>1. fault' \in [Proc -> Fault]
    BY Zenon, <1>5, GotoType DEF MemFull
  <2> QED BY Zenon, <1>5, <2>1 DEF MemFull, TypeOK
<1>6. ASSUME NEW p \in Proc, NoVictim(p) PROVE TypeOK'
  <2>1. fault' \in [Proc -> Fault] /\ killed' \in [Proc -> BOOLEAN]
    BY Zenon, <1>6, EndTypes DEF NoVictim
  <2> QED BY Zenon, <1>6, <2>1 DEF NoVictim, TypeOK
<1>7. ASSUME NEW p \in Proc, Evict(p) PROVE TypeOK'
  <2>1. PICK i \in select_victim(vm[p].pages) :
          \/ EvictStale(p, vm[p].pages[i].va)
          \/ EvictClean(p, vm[p].pages[i].va)
          \/ EvictDirty(p, vm[p].pages[i].va)
          \/ SwapFull(p, vm[p].pages[i].va)
    BY Zenon, <1>7 DEF Evict
  <2> DEFINE va == vm[p].pages[i].va
             m == swapfile_create(vm[p])
             s == free_slot(m)
  <2>2. vm[p] \in VMState /\ m \in VMState
    BY Zenon, SwapfileTypes DEF TypeOK
  <2>3. va \in Page
    BY Zenon, <2>2, VictimResident DEF VMState, page_stat, Resident, UVa
  <2> HIDE DEF va, m, s
  <2>4. UNCHANGED <<pstate, parent, spaceVars, panicked>>
    BY Zenon, <1>7 DEF Evict
  <2>5. CASE EvictStale(p, va)
    <3>1. vm' \in [Proc -> VMState]
      BY Zenon, <2>2, <2>3, <2>5, MarkUnmappedType, VMType DEF EvictStale
    <3>2. fault' \in [Proc -> Fault]
      BY Zenon, <2>5, GotoType DEF EvictStale
    <3> QED BY <2>4, <2>5, <3>1, <3>2, SMTT(30) DEF EvictStale, TypeOK
  <2>6. ASSUME UnmapVictim(p, va), ismapped(p, va)
        PROVE  /\ pt' \in [Proc -> [Page -> Frame \cup {NoFrame}]]
               /\ perm' \in [Proc -> [Page -> SUBSET {"U", "W", "X"}]]
               /\ free' \subseteq Frame /\ mem' \in [Frame -> Content]
               /\ mem[pt[p][va]] \in Content
    <3>1. pt[p][va] \in Frame
      BY <2>3, <2>6 DEF ismapped, TypeOK
    <3>2. Map(p, va, NoFrame, {})
      BY Zenon, <2>6 DEF UnmapVictim, Map
    <3>3. kfree({pt[p][va]})
      BY Zenon, <2>6 DEF UnmapVictim
    <3> QED BY <2>3, <3>1, <3>2, <3>3, MapType, KfreeType, Zenon DEF TypeOK
  <2>7. CASE EvictClean(p, va)
    <3>1. evict_clean(vm[p], va) \in VMState
      BY Zenon, <2>2, <2>3, EvictCleanType
    <3>2. vm' \in [Proc -> VMState]
      BY Zenon, <2>7, <3>1, VMType DEF EvictClean
    <3>3. fault' \in [Proc -> Fault]
      BY Zenon, <2>7, GotoType DEF EvictClean
    <3> QED BY Zenon, <2>4, <2>6, <2>7, <3>2, <3>3 DEF EvictClean, TypeOK
  <2>8. CASE EvictDirty(p, va)
    <3>0. s \in Slot /\ UnmapVictim(p, va) /\ ismapped(p, va) /\ Goto(p, "retry")
      BY Zenon, <2>8 DEF EvictDirty, s, m
    <3>1. evict_dirty(m, va, s) \in VMState
      BY Zenon, <2>2, <2>3, <3>0, EvictDirtyType
    <3>2. /\ vm' = [vm EXCEPT ![p] = evict_dirty(m, va, s)]
          /\ swap' = [swap EXCEPT ![p][s] = mem[pt[p][va]]]
          /\ killed' = killed
      BY Zenon, <2>8 DEF EvictDirty, s, m
    <3>3. vm' \in [Proc -> VMState]
      BY Zenon, <3>1, <3>2, VMType
    <3>4. fault' \in [Proc -> Fault]
      BY Zenon, <3>0, GotoType
    <3>5. mem[pt[p][va]] \in Content
      BY Zenon, <2>6, <3>0
    <3>6. swap' \in [Proc -> [Slot -> Content]]
      BY Zenon, <3>0, <3>2, <3>5 DEF TypeOK
    <3> QED BY <2>4, <2>6, <3>0, <3>2, <3>3, <3>4, <3>6, SMTT(30) DEF TypeOK
  <2>9. CASE SwapFull(p, va)
    <3>1. fault' \in [Proc -> Fault] /\ killed' \in [Proc -> BOOLEAN]
      BY Zenon, <2>9, EndTypes DEF SwapFull
    <3>2. vm' \in [Proc -> VMState]
      BY <2>2, <2>9, VMType, Zenon DEF SwapFull, TypeOK, m
    <3> QED BY Zenon, <2>4, <2>9, <3>1, <3>2 DEF SwapFull, TypeOK
  <2> QED BY <2>1, <2>5, <2>7, <2>8, <2>9, SMTT(30) DEF va
<1>8. ASSUME NEW p \in Proc, RetryFails(p) PROVE TypeOK'
  <2>1. fault' \in [Proc -> Fault] /\ killed' \in [Proc -> BOOLEAN]
    BY Zenon, <1>8, EndTypes DEF RetryFails
  <2> QED BY Zenon, <1>8, <2>1 DEF RetryFails, TypeOK
<1>9. ASSUME NEW p \in Proc, LoadTrap(p) PROVE TypeOK'
  <2> DEFINE a == fault[p].va
             f == fault[p].frame
             s == swapin_slot(vm[p], a)
  <2>1. a \in Page /\ fault[p].write \in BOOLEAN /\ vm[p] \in VMState
    BY Zenon DEF TypeOK, Fault
  <2>2. f \in Frame \cup {NoFrame}
    BY SMTT(30) DEF TypeOK, Fault
  <2>3. fault' \in [Proc -> Fault] /\ killed' \in [Proc -> BOOLEAN]
    BY <1>9, EndTypes, SMTT(30) DEF LoadTrap
  <2>4. UNCHANGED <<pstate, parent, spaceVars, swap, free, panicked>>
    BY Zenon, <1>9 DEF LoadTrap
  <2>5. ASSUME NEW flags \in SUBSET {"U", "W", "X"}, NEW content \in Content,
               NEW m \in VMState,
               Fill(p, content), Map(p, a, f, flags), vm' = [vm EXCEPT ![p] = m]
        PROVE  TypeOK'
    <3>1. mem' \in [Frame -> Content]
      BY <2>5, Zenon DEF Fill, TypeOK
    <3>2. /\ pt' \in [Proc -> [Page -> Frame \cup {NoFrame}]]
          /\ perm' \in [Proc -> [Page -> SUBSET {"U", "W", "X"}]]
      BY Zenon, <2>1, <2>2, <2>5, MapType
    <3>3. vm' \in [Proc -> VMState]
      BY Zenon, <2>5, VMType
    <3> QED BY <2>3, <2>4, <3>1, <3>2, <3>3, SMTT(30) DEF TypeOK
  <2>6. CASE LoadAnon(p, a)
    <3>1. became_resident(vm[p], a, fault[p].write) \in VMState
      BY Zenon, <2>1, BecameResidentType
    <3> QED BY <2>5, <2>6, <3>1, Contents, Zenon DEF LoadAnon
  <2>7. CASE LoadSwap(p, a)
    <3>1. s \in Slot
      BY Zenon, <2>7 DEF LoadSwap
    <3>2. swapin_page(vm[p], a, s) \in VMState
      BY Zenon, <2>1, <3>1, SwapinType
    <3>3. became_resident(swapin_page(vm[p], a, s), a, fault[p].write) \in VMState
      BY Zenon, <2>1, <3>2, BecameResidentType
    <3>4. swap[p][s] \in Content
      BY <3>1, SMTT(30) DEF TypeOK
    <3> QED BY <2>5, <2>7, <3>3, <3>4, ZenonT(60) DEF LoadSwap
  <2>8. CASE LoadExec(p, a)
    <3>1. became_resident(vm[p], a, FALSE) \in VMState
      BY <2>1, BecameResidentType, ZenonT(60)
    <3>2. FromFile(image[p], a) \in Content
      BY Zenon, <2>1, Contents DEF TypeOK
    <3> QED BY <2>5, <2>8, <3>1, <3>2, Zenon DEF LoadExec
  <2> QED BY Zenon, <1>9, <2>6, <2>7, <2>8 DEF LoadTrap
<1>10. ASSUME NEW p \in Proc, LoadCopy(p) PROVE TypeOK'
  <2> DEFINE a == fault[p].va
  <2>1. a \in Page /\ fault[p].frame \in Frame \cup {NoFrame}
    BY SMTT(30) DEF TypeOK, Fault
  <2>2. fault' \in [Proc -> Fault] /\ killed' \in [Proc -> BOOLEAN]
    BY <1>10, EndTypes, ZenonT(60) DEF LoadCopy
  <2>3. PICK content \in Content : Fill(p, content)
    <3>1. FromFile(image[p], a) \in Content
      BY Zenon, <2>1, Contents DEF TypeOK
    <3> QED BY Zenon, <1>10, <3>1, Contents DEF LoadCopy
  <2>4. mem' \in [Frame -> Content]
    BY <2>3, Zenon DEF Fill, TypeOK
  <2>5. PICK flags \in SUBSET {"U", "W", "X"} : Map(p, a, fault[p].frame, flags)
    BY Zenon, <1>10 DEF LoadCopy
  <2>6. /\ pt' \in [Proc -> [Page -> Frame \cup {NoFrame}]]
        /\ perm' \in [Proc -> [Page -> SUBSET {"U", "W", "X"}]]
    BY <2>1, <2>5, MapType, Zenon
  <2> QED BY <1>10, <2>2, <2>4, <2>6, ZenonT(60) DEF LoadCopy, TypeOK
<1>11. ASSUME NEW p \in Proc, LoadFails(p) PROVE TypeOK'
  <2> DEFINE a == fault[p].va
             s == swapin_slot(vm[p], a)
  <2>1. a \in Page /\ vm[p] \in VMState
    BY Zenon DEF TypeOK, Fault
  <2>2. fault' \in [Proc -> Fault] /\ killed' \in [Proc -> BOOLEAN]
    BY Zenon, <1>11, EndTypes DEF LoadFails
  <2>3. vm' \in [Proc -> VMState]
    <3>1. \/ vm' = vm
          \/ s \in Slot /\ vm' = [vm EXCEPT ![p] = swapin_page(vm[p], a, s)]
      BY Zenon, <1>11 DEF LoadFails
    <3> HIDE DEF s, a
    <3>2. s \in Slot => swapin_page(vm[p], a, s) \in VMState
      BY Zenon, <2>1, SwapinType
    <3> QED BY <3>1, <3>2, ZenonT(60) DEF TypeOK
  <2>4. free' \subseteq Frame /\ mem' \in [Frame -> Content]
    <3>1. fault[p].frame \in Frame
      BY Zenon, <1>11 DEF LoadFails, AtStep, FramesExclusive
    <3> QED BY Zenon, <1>11, <3>1, KfreeType DEF LoadFails
  <2> QED BY Zenon, <1>11, <2>2, <2>3, <2>4 DEF LoadFails, TypeOK
<1>12. ASSUME NEW p \in Proc, SbrkLazy(p) PROVE TypeOK'
  <2>1. sz[p] + 1 \in 0 .. NPAGES
    BY <1>12, SizesAssumption DEF SbrkLazy, TypeOK
  <2>2. sz' \in [Proc -> 0 .. NPAGES]
    BY Zenon, <1>12, <2>1 DEF SbrkLazy, TypeOK
  <2> QED BY Zenon, <1>12, <2>2 DEF SbrkLazy, TypeOK
<1>13. ASSUME Halt PROVE TypeOK'
  BY Zenon, <1>13 DEF Halt, TypeOK
<1>14. ASSUME NEW p \in Proc, SbrkEager(p) PROVE TypeOK'
  <2>1. PICK f \in free :
          \/ /\ free' = free \ {f}
             /\ mem' = [mem EXCEPT ![f] = Zero]
             /\ Map(p, sz[p], f, {"U", "W"})
             /\ sz' = [sz EXCEPT ![p] = @ + 1]
             /\ UNCHANGED <<procVars, image, low_sp, vm, swap, fault, panicked>>
          \/ Halt
    BY Zenon, <1>14 DEF SbrkEager
  <2>2. /\ sz[p] \in Page /\ sz[p] + 1 \in 0 .. NPAGES
        /\ f \in Frame
    BY <1>14, SizesAssumption, SMTT(30) DEF SbrkEager, TypeOK, Page
  <2>3. CASE ~Halt
    <3>1. /\ pt' \in [Proc -> [Page -> Frame \cup {NoFrame}]]
          /\ perm' \in [Proc -> [Page -> SUBSET {"U", "W", "X"}]]
      BY Zenon, <2>1, <2>2, <2>3, MapType
    <3>2. sz' \in [Proc -> 0 .. NPAGES]
      BY <2>1, <2>2, <2>3, Zenon DEF TypeOK
    <3>3. free' \subseteq Frame /\ mem' \in [Frame -> Content]
      BY <2>1, <2>3, Contents, SMTT(30) DEF TypeOK
    <3> QED BY Zenon, <2>1, <2>3, <3>1, <3>2, <3>3 DEF TypeOK
  <2> QED BY Zenon, <1>13, <2>3
<1>15. ASSUME NEW p \in Proc, SbrkShrink(p) PROVE TypeOK'
  <2>1. PICK n \in 1 .. sz[p] :
          LET gone == {a \in Page : sz[p] - n <= a /\ a < sz[p]}
          IN  /\ sz' = [sz EXCEPT ![p] = @ - n]
              /\ pt' = [pt EXCEPT ![p] =
                          [a \in Page |-> IF a \in gone THEN NoFrame ELSE @[a]]]
              /\ perm' = [perm EXCEPT ![p] =
                            [a \in Page |-> IF a \in gone THEN {} ELSE @[a]]]
              /\ kfree({pt[p][a] : a \in gone} \ {NoFrame})
    BY <1>15, Zenon DEF SbrkShrink
  <2> DEFINE gone == {a \in Page : sz[p] - n <= a /\ a < sz[p]}
             fs == {pt[p][a] : a \in gone} \ {NoFrame}
  <2>2. sz' \in [Proc -> 0 .. NPAGES]
    <3>1. sz[p] - n \in 0 .. NPAGES
      BY SizesAssumption DEF TypeOK
    <3> QED BY Zenon, <2>1, <3>1 DEF TypeOK
  <2>3. fs \in SUBSET Frame
    BY DEF TypeOK
  <2>4. kfree(fs)
    BY Zenon, <2>1
  <2>5. free' \subseteq Frame /\ mem' \in [Frame -> Content]
    <3> HIDE DEF fs
    <3> QED BY <2>3, <2>4, KfreeType, SMTT(30)
  <2>6. /\ pt' \in [Proc -> [Page -> Frame \cup {NoFrame}]]
        /\ perm' \in [Proc -> [Page -> SUBSET {"U", "W", "X"}]]
    BY <2>1, SMTT(30) DEF TypeOK
  <2> QED BY <1>15, <2>2, <2>5, <2>6, SMTT(30) DEF SbrkShrink, TypeOK
<1>16. ASSUME NEW p \in Proc, Fork(p) PROVE TypeOK'
  <2> DEFINE copied == {a \in Page : a < sz[p] /\ ismapped(p, a)}
  <2>1. PICK c \in Proc, g \in Injection(copied, free) :
          /\ free' = free \ {g[a] : a \in copied}
          /\ pt' = [pt EXCEPT ![c] =
                [a \in Page |-> IF a \in copied THEN g[a] ELSE NoFrame]]
          /\ perm' = [perm EXCEPT ![c] =
                [a \in Page |-> IF a \in copied THEN perm[p][a] ELSE {}]]
          /\ mem' = [f \in Frame |->
                IF \E a \in copied : g[a] = f
                THEN mem[pt[p][CHOOSE a \in copied : g[a] = f]]
                ELSE mem[f]]
          /\ pstate' = [pstate EXCEPT ![c] = "LIVE"]
          /\ parent' = [parent EXCEPT ![c] = p]
          /\ sz' = [sz EXCEPT ![c] = sz[p]]
          /\ image' = [image EXCEPT ![c] = image[p]]
          /\ low_sp' = [low_sp EXCEPT ![c] = low_sp[p]]
          /\ vm' = [vm EXCEPT ![c] = FreshVM]
    BY <1>16, ZenonT(60) DEF Fork
  <2>2. g \in [copied -> free] /\ copied \subseteq Page
    BY InjectionMaps, SMTT(30)
  <2>3. UNCHANGED <<killed, swap, fault, panicked>>
    BY <1>16, SMTT(30) DEF Fork
  <2>4. pt' \in [Proc -> [Page -> Frame \cup {NoFrame}]]
    <3>1. [a \in Page |-> IF a \in copied THEN g[a] ELSE NoFrame]
            \in [Page -> Frame \cup {NoFrame}]
      BY <2>2, SMTT(30) DEF TypeOK
    <3> QED BY <2>1, <3>1, ZenonT(60) DEF TypeOK
  <2>5. perm' \in [Proc -> [Page -> SUBSET {"U", "W", "X"}]]
    <3>1. [a \in Page |-> IF a \in copied THEN perm[p][a] ELSE {}]
            \in [Page -> SUBSET {"U", "W", "X"}]
      BY SMTT(30) DEF TypeOK
    <3> QED BY <2>1, <3>1, ZenonT(60) DEF TypeOK
  <2>6. mem' \in [Frame -> Content]
    <3>1. \A f \in Frame : (\E a \in copied : g[a] = f) =>
            mem[pt[p][CHOOSE a \in copied : g[a] = f]] \in Content
      <4> SUFFICES ASSUME NEW f \in Frame, \E a \in copied : g[a] = f
                   PROVE  mem[pt[p][CHOOSE a \in copied : g[a] = f]] \in Content
        BY Zenon
      <4>1. (CHOOSE a \in copied : g[a] = f) \in copied
        BY Zenon
      <4>2. \A a \in copied : mem[pt[p][a]] \in Content
        BY DEF ismapped, TypeOK
      <4> QED BY <4>1, <4>2, SMTT(30)
    <3>2. \A f \in Frame : mem[f] \in Content
      BY SMTT(30) DEF TypeOK
    <3> QED BY <2>1, <3>1, <3>2, SMTT(30)
  <2>7. vm' \in [Proc -> VMState]
    BY <2>1, FreshConsistent, VMType, SMTT(30) DEF Consistent
  <2>8. /\ pstate' \in [Proc -> {"UNUSED", "LIVE", "ZOMBIE"}]
        /\ parent' \in [Proc -> Proc \cup {initproc}]
        /\ sz' \in [Proc -> 0 .. NPAGES]
        /\ image' \in [Proc -> Image]
        /\ low_sp' \in [Proc -> BOOLEAN]
        /\ free' \subseteq Frame
    BY <2>1, Zenon DEF TypeOK
  <2> QED BY <2>3, <2>4, <2>5, <2>6, <2>7, <2>8, SMTT(30) DEF TypeOK
<1>17. ASSUME NEW p \in Proc, Exec(p) PROVE TypeOK'
  <2>1. PICK i \in Image, low \in BOOLEAN, g \in free, s \in free :
          \/ /\ pt' = [pt EXCEPT ![p] = ExecTable(i, g, s)]
             /\ perm' = [perm EXCEPT ![p] = ExecPerm(i)]
             /\ free' = (free \ {g, s}) \cup FramesOf(p)
             /\ mem' = [f \in Frame |-> IF f = g THEN Zero
                                        ELSE IF f = s THEN Args
                                        ELSE IF f \in FramesOf(p) THEN Junk
                                        ELSE mem[f]]
             /\ sz' = [sz EXCEPT ![p] = StackPage[i] + 1]
             /\ image' = [image EXCEPT ![p] = i]
             /\ low_sp' = [low_sp EXCEPT ![p] = low]
             /\ vm' \in {vm, [vm EXCEPT ![p] = swapfile_create(@)]}
             /\ UNCHANGED <<procVars, swap, fault, panicked>>
          \/ Halt
    BY <1>17, SMTT(30) DEF Exec
  <2>2. CASE ~Halt
    <3>a. /\ pt' = [pt EXCEPT ![p] = ExecTable(i, g, s)]
          /\ perm' = [perm EXCEPT ![p] = ExecPerm(i)]
          /\ image' = [image EXCEPT ![p] = i]
          /\ low_sp' = [low_sp EXCEPT ![p] = low]
      BY Zenon, <2>1, <2>2
    <3>b. /\ free' = (free \ {g, s}) \cup FramesOf(p)
          /\ mem' = [f \in Frame |-> IF f = g THEN Zero
                                     ELSE IF f = s THEN Args
                                     ELSE IF f \in FramesOf(p) THEN Junk
                                     ELSE mem[f]]
      BY Zenon, <2>1, <2>2
    <3>1. pt' \in [Proc -> [Page -> Frame \cup {NoFrame}]]
      <4>1. ExecTable(i, g, s) \in [Page -> Frame \cup {NoFrame}]
        BY Zenon DEF ExecTable, TypeOK
      <4> QED BY <3>a, <4>1, SMTT(30) DEF TypeOK
    <3>2. perm' \in [Proc -> [Page -> SUBSET {"U", "W", "X"}]]
      <4>1. ExecPerm(i) \in [Page -> SUBSET {"U", "W", "X"}]
        BY SMTT(30) DEF ExecPerm
      <4> QED BY Zenon, <3>a, <4>1 DEF TypeOK
    <3>3. free' \subseteq Frame /\ mem' \in [Frame -> Content]
      <4>1. FramesOf(p) \subseteq Frame
        BY SMTT(30) DEF FramesOf, TypeOK
      <4> QED BY <3>b, <4>1, Contents, SMTT(30) DEF TypeOK
    <3>4. sz' \in [Proc -> 0 .. NPAGES]
      <4>1. StackPage[i] + 1 \in 0 .. NPAGES
        BY SizesAssumption, LayoutAssumption DEF Page
      <4> QED BY <2>1, <2>2, <4>1, ZenonT(60) DEF TypeOK
    <3>5. vm' \in [Proc -> VMState]
      <4>1. vm[p] \in VMState /\ vm \in [Proc -> VMState]
        BY Zenon DEF TypeOK
      <4>2. swapfile_create(vm[p]) \in VMState
        BY Zenon, <4>1, SwapfileTypes
      <4> QED BY Zenon, <2>1, <2>2, <4>1, <4>2
    <3>6. image' \in [Proc -> Image] /\ low_sp' \in [Proc -> BOOLEAN]
      BY Zenon, <3>a DEF TypeOK
    <3> QED BY <2>1, <2>2, <3>1, <3>2, <3>3, <3>4, <3>5, <3>6, SMTT(30)
               DEF TypeOK
  <2> QED BY <1>13, <2>2, SMTT(30)
<1>18. ASSUME NEW p \in Proc, Exit(p) PROVE TypeOK'
  <2>1. vm' \in [Proc -> VMState]
    <3>1. vm[p] \in VMState
      BY Zenon DEF TypeOK
    <3>2. (IF vm[p].swapfile THEN swapfile_cleanup(vm[p]) ELSE vm[p]) \in VMState
      BY Zenon, <3>1, SwapfileTypes
    <3> QED BY <1>18, <3>2, VMType, ZenonT(60) DEF Exit
  <2>2. /\ pstate' \in [Proc -> {"UNUSED", "LIVE", "ZOMBIE"}]
        /\ parent' \in [Proc -> Proc \cup {initproc}]
        /\ fault' \in [Proc -> Fault]
    BY Zenon, <1>18, FaultRecords DEF Exit, TypeOK
  <2> QED BY <1>18, <2>1, <2>2, SMTT(30) DEF Exit, TypeOK
<1>19. ASSUME NEW p \in Proc, Wait(p) PROVE TypeOK'
  <2>1. CASE ~Halt
    <3>1. /\ pstate' = [pstate EXCEPT ![p] = "UNUSED"]
          /\ parent' = [parent EXCEPT ![p] = initproc]
          /\ killed' = [killed EXCEPT ![p] = FALSE]
          /\ sz' = [sz EXCEPT ![p] = 0]
          /\ pt' = [pt EXCEPT ![p] = [a \in Page |-> NoFrame]]
          /\ perm' = [perm EXCEPT ![p] = [a \in Page |-> {}]]
          /\ kfree(FramesOf(p))
          /\ UNCHANGED <<image, low_sp, vm, swap, fault, panicked>>
      BY Zenon, <1>19, <2>1 DEF Wait
    <3>2. FramesOf(p) \in SUBSET Frame
      BY DEF FramesOf, TypeOK
    <3>3. free' \subseteq Frame /\ mem' \in [Frame -> Content]
      BY Zenon, <3>1, <3>2, KfreeType
    <3>4. /\ pstate' \in [Proc -> {"UNUSED", "LIVE", "ZOMBIE"}]
          /\ parent' \in [Proc -> Proc \cup {initproc}]
          /\ killed' \in [Proc -> BOOLEAN]
          /\ sz' \in [Proc -> 0 .. NPAGES]
      BY <3>1, SizesAssumption DEF TypeOK
    <3>5. /\ pt' \in [Proc -> [Page -> Frame \cup {NoFrame}]]
          /\ perm' \in [Proc -> [Page -> SUBSET {"U", "W", "X"}]]
      BY Zenon, <3>1 DEF TypeOK
    <3> QED BY Zenon, <3>1, <3>3, <3>4, <3>5 DEF TypeOK
  <2> QED BY <1>13, <2>1, SMTT(30)
<1>20. ASSUME NEW p \in Proc, Kill(p) PROVE TypeOK'
  BY <1>20, SMTT(30) DEF Kill, TypeOK
<1> QED
  BY Zenon, <1>0, <1>1, <1>2, <1>3, <1>4, <1>5, <1>6, <1>7, <1>8, <1>9, <1>10,
     <1>11,
     <1>12, <1>14, <1>15, <1>16, <1>17, <1>18, <1>19, <1>20, SMTT(30) DEF Next, Handler
=============================================================================
