--------------------------- MODULE HandlerProofs ----------------------------
(***************************************************************************)
(* Proofs about the page-fault handlers: while a handler allocates, evicts *)
(* and sleeps, the page it works for stays unmapped.                       *)
(***************************************************************************)
EXTENDS Paging, TLAPS

\* A page-fault handler is between its first kalloc() and its end.
Handling(r) == r.at \in {"alloc", "evict", "retry", "load"}

\* Only a process that is not yet a zombie is inside a handler.
HandlersLive ==
  \A p \in Proc : pstate[p] # "LIVE" => ~Handling(fault[p])

\* The one page that is mapped without PTE_U is the guard page of kexec().
OnlyGuardHidden ==
  \A p \in Proc, a \in Page :
    ismapped(p, a) /\ "U" \notin perm[p][a] => a = StackPage[image[p]] - 1

UnmappedInv == FaultPageStaysUnmapped /\ HandlersLive /\ OnlyGuardHidden

-----------------------------------------------------------------------------
\* No handler starts, and those that go on keep what they are about.
NoNewFault ==
  \A q \in Proc : Handling(fault'[q]) =>
    /\ Handling(fault[q])
    /\ fault'[q].va = fault[q].va
    /\ fault'[q].kind = fault[q].kind
    /\ fault'[q].ctx = fault[q].ctx

\* The ends and the intermediate steps of a handler start no other one.
LEMMA FaultGoesOn ==
  ASSUME TypeOK, NEW p \in Proc
  PROVE  /\ Resumed(p) \/ KillSelf(p) \/ FaultFails(p)
              => NoNewFault /\ ~Handling(fault'[p])
         /\ \A at \in {"evict", "retry"} :
              Goto(p, at) /\ Handling(fault[p]) => NoNewFault
<1> USE DEF TypeOK, NoNewFault
<1>1. \A k : Resume(p, k) => NoNewFault /\ ~Handling(fault'[p])
  <2> SUFFICES ASSUME NEW k, Resume(p, k)
               PROVE  NoNewFault /\ ~Handling(fault'[p])
    BY Zenon
  <2> DEFINE r == IF k THEN [Idle EXCEPT !.at = "exit"] ELSE Idle
  <2>1. ~Handling(r)
    BY Zenon DEF Idle, Handling
  <2>2. fault' = [fault EXCEPT ![p] = r]
    BY Zenon DEF Resume
  <2> HIDE DEF r
  <2> QED BY Zenon, <2>1, <2>2
<1>2. Resumed(p) \/ KillSelf(p) \/ FaultFails(p)
        => NoNewFault /\ ~Handling(fault'[p])
  <2> HIDE DEF NoNewFault, TypeOK
  <2> QED BY <1>1, Zenon DEF Resumed, KillSelf, FaultFails
<1>3. \A at \in {"evict", "retry"} :
        Goto(p, at) /\ Handling(fault[p]) => NoNewFault
  <2> SUFFICES ASSUME NEW at \in {"evict", "retry"}, Goto(p, at),
                      Handling(fault[p])
               PROVE  NoNewFault
    BY Zenon
  <2>1. fault[p] \in Fault
    BY Zenon
  <2>2. /\ fault'[p].va = fault[p].va
        /\ fault'[p].kind = fault[p].kind
        /\ fault'[p].ctx = fault[p].ctx
    BY Zenon, <2>1 DEF Goto, Fault
  <2>3. \A q \in Proc : q # p => fault'[q] = fault[q]
    BY Zenon DEF Goto
  <2> QED BY <2>2, <2>3, Zenon
<1> QED BY Zenon, <1>2, <1>3

\* kalloc() moves its handler on without changing what it is about.
LEMMA KallocGoesOn ==
  ASSUME TypeOK, NEW p \in Proc, Kalloc(p)
  PROVE  NoNewFault /\ Handling(fault[p])
<1>1. PICK f : fault' = [fault EXCEPT ![p].at = "load", ![p].frame = f]
  BY Zenon DEF Kalloc
<1>2. fault[p] \in Fault
  BY Zenon DEF TypeOK
<1>3. \A q \in Proc : q # p => fault'[q] = fault[q]
  BY Zenon, <1>1 DEF TypeOK
<1>4. /\ fault'[p].va = fault[p].va
      /\ fault'[p].kind = fault[p].kind
      /\ fault'[p].ctx = fault[p].ctx
  BY Zenon, <1>1, <1>2 DEF TypeOK, Fault
<1>5. Handling(fault[p])
  BY Zenon DEF Kalloc, AtStep, Handling
<1> QED BY Zenon, <1>3, <1>4, <1>5 DEF NoNewFault

\* A step that maps nothing for a process inside a handler.
LEMMA StaysUnmapped ==
  ASSUME FaultPageStaysUnmapped, NoNewFault,
         \A q \in Proc, b \in Page : Handling(fault'[q])
           => pt'[q][b] \in {pt[q][b], NoFrame},
         TypeOK
  PROVE  FaultPageStaysUnmapped'
<1> SUFFICES ASSUME NEW q \in Proc, Handling(fault'[q])
             PROVE  pt'[q][fault'[q].va] = NoFrame
  BY Zenon DEF FaultPageStaysUnmapped, ismapped, Handling
<1>1. /\ Handling(fault[q]) /\ fault'[q].va = fault[q].va
      /\ fault[q].va \in Page
  BY Zenon DEF NoNewFault, TypeOK, Fault
<1>2. pt[q][fault[q].va] = NoFrame
  BY Zenon, <1>1 DEF FaultPageStaysUnmapped, ismapped, Handling
<1> QED BY <1>1, <1>2

\* A step that unmaps pages and keeps the flags of the others.
LEMMA GuardStaysHidden ==
  ASSUME OnlyGuardHidden, image' = image,
         \A q \in Proc, b \in Page :
           \/ pt'[q][b] = NoFrame
           \/ "U" \in perm'[q][b]
           \/ pt'[q][b] = pt[q][b] /\ "U" \notin perm[q][b]
  PROVE  OnlyGuardHidden'
BY Zenon DEF OnlyGuardHidden, ismapped

\* A step that neither maps, unmaps, starts a handler nor ends a process.
LEMMA UnmappedSame ==
  ASSUME TypeOK, UnmappedInv, NoNewFault, UNCHANGED <<pstate, image, pt, perm>>
  PROVE  UnmappedInv'
<1>1. FaultPageStaysUnmapped'
  BY Zenon, StaysUnmapped DEF UnmappedInv
<1>2. HandlersLive'
  BY Zenon DEF UnmappedInv, HandlersLive, NoNewFault
<1>3. OnlyGuardHidden'
  BY Zenon DEF UnmappedInv, OnlyGuardHidden, ismapped
<1> QED BY Zenon, <1>1, <1>2, <1>3 DEF UnmappedInv

\* A new handler is about a page that is not mapped: usertrap() and
\* vmfault() have looked, and what usertrap() looks up with walkaddr() is
\* never the guard page.
LEMMA UnmappedStart ==
  ASSUME TypeOK, UnmappedInv, NEW p \in Proc, NEW a \in Page,
         NEW ctx, NEW kind, NEW write,
         pstate[p] = "LIVE", ~ismapped(p, a),
         fault' = [fault EXCEPT ![p] = StartFault(ctx, a, kind, write)],
         UNCHANGED <<pstate, image, pt, perm>>
  PROVE  UnmappedInv'
<1>1. \A q \in Proc : fault'[q] = IF q = p THEN StartFault(ctx, a, kind, write)
                                          ELSE fault[q]
  BY Zenon DEF TypeOK
<1>2. StartFault(ctx, a, kind, write).va = a
  BY Zenon DEF StartFault
<1>3. FaultPageStaysUnmapped'
  BY <1>1, <1>2 DEF UnmappedInv, FaultPageStaysUnmapped, ismapped
<1>4. HandlersLive'
  BY Zenon, <1>1 DEF UnmappedInv, HandlersLive
<1>5. OnlyGuardHidden'
  BY Zenon DEF UnmappedInv, OnlyGuardHidden, ismapped
<1> QED BY Zenon, <1>3, <1>4, <1>5 DEF UnmappedInv

\* A step that maps one accessible page for a process that is then outside
\* every handler.
LEMMA UnmappedMap ==
  ASSUME TypeOK, UnmappedInv, NoNewFault, NEW p \in Proc, NEW a \in Page,
         NEW f, NEW flags, "U" \in flags, Map(p, a, f, flags),
         ~Handling(fault'[p]), UNCHANGED <<pstate, image>>
  PROVE  UnmappedInv'
<1>1. \A q \in Proc, b \in Page :
        /\ pt'[q][b] = IF q = p /\ b = a THEN f ELSE pt[q][b]
        /\ perm'[q][b] = IF q = p /\ b = a THEN flags ELSE perm[q][b]
  BY Zenon DEF Map, TypeOK
<1>2. FaultPageStaysUnmapped'
  BY Zenon, <1>1, StaysUnmapped DEF UnmappedInv
<1>3. HandlersLive'
  BY Zenon DEF UnmappedInv, HandlersLive, NoNewFault
<1>4. OnlyGuardHidden'
  BY Zenon, <1>1, GuardStaysHidden DEF UnmappedInv
<1> QED BY Zenon, <1>2, <1>3, <1>4 DEF UnmappedInv

\* The pages of one process in the set gone lose their entries; no live
\* process dies.
Unmaps(p, gone) ==
  \A q \in Proc, b \in Page :
    /\ pt'[q][b] = IF q = p /\ b \in gone THEN NoFrame ELSE pt[q][b]
    /\ perm'[q][b] = IF q = p /\ b \in gone THEN {} ELSE perm[q][b]

NobodyDies == \A q \in Proc : pstate'[q] # "LIVE" => pstate[q] # "LIVE"

\* A step that unmaps pages of one process.
LEMMA UnmappedUnmap ==
  ASSUME TypeOK, UnmappedInv, NoNewFault, NEW p \in Proc, NEW gone,
         Unmaps(p, gone), image' = image, NobodyDies
  PROVE  UnmappedInv'
<1>1. FaultPageStaysUnmapped'
  BY Zenon, StaysUnmapped DEF UnmappedInv, Unmaps
<1>2. HandlersLive'
  BY Zenon DEF UnmappedInv, HandlersLive, NoNewFault, NobodyDies
<1>3. OnlyGuardHidden'
  BY Zenon, GuardStaysHidden DEF UnmappedInv, Unmaps
<1> QED BY Zenon, <1>1, <1>2, <1>3 DEF UnmappedInv

\* No step maps the page of a handler in progress, other than its own end.
LEMMA UnmappedStep == TypeOK /\ UnmappedInv /\ [Next]_vars => UnmappedInv'
<1> SUFFICES ASSUME TypeOK, UnmappedInv, [Next]_vars PROVE UnmappedInv'
  BY Zenon
<1> USE DEF procVars, spaceVars, tableVars
<1>0. ASSUME UNCHANGED <<pstate, image, pt, perm, fault>> PROVE UnmappedInv'
  BY Zenon, <1>0, UnmappedSame DEF NoNewFault
<1>1. ASSUME NEW p \in Proc,
             Store(p) \/ CopyOut(p) \/ SbrkLazy(p) \/ Kill(p) \/ Halt
      PROVE  UnmappedInv'
  BY Zenon, <1>0, <1>1 DEF Store, CopyOut, SbrkLazy, Kill, Halt
<1>2. ASSUME NEW p \in Proc, PageFault(p) PROVE UnmappedInv'
  <2>1. PICK a \in Page, acc \in Accesses, tail \in BOOLEAN :
          \/ TrapInvalid(p, a, acc, cause(p, a, tail, acc))
          \/ TrapMapped(p, a, acc, cause(p, a, tail, acc))
          \/ TrapMissing(p, a, acc, cause(p, a, tail, acc))
    BY Zenon, <1>2 DEF PageFault
  <2> DEFINE c == cause(p, a, tail, acc)
  <2>2. c = "exec" => a # StackPage[image[p]] - 1
    <3>1. c = "exec" => InSegment(p, a)
      BY Zenon DEF cause, in_exec
    <3> QED BY <3>1, LayoutAssumption DEF InSegment, TypeOK, Page
  <2> HIDE DEF c
  <2>3. pstate[p] = "LIVE" /\ UNCHANGED <<pstate, image>>
    BY Zenon, <1>2 DEF PageFault, Running
  <2>4. CASE TrapInvalid(p, a, acc, c)
    <3>1. NoNewFault
      BY Zenon, <2>4, FaultGoesOn DEF TrapInvalid
    <3> QED BY Zenon, <2>3, <2>4, <3>1, UnmappedSame DEF TrapInvalid
  <2>5. CASE TrapMapped(p, a, acc, c)
    <3>1. NoNewFault
      BY Zenon, <2>5, FaultGoesOn DEF TrapMapped
    <3>2. pt' = pt
      BY Zenon, <2>5 DEF TrapMapped
    <3>3. \A q \in Proc, b \in Page : "U" \in perm'[q][b] <=> "U" \in perm[q][b]
      <4>1. PICK flags :
              /\ perm' = perm \/ perm' = [perm EXCEPT ![p][a] = flags]
              /\ "U" \in flags <=> "U" \in perm[p][a]
        <5>1. \/ perm' = perm
              \/ perm' = [perm EXCEPT ![p][a] = perm[p][a] \cup {"W"}]
              \/ perm' = [perm EXCEPT ![p][a] = (perm[p][a] \ {"W"}) \cup {"X"}]
              \/ perm' = [perm EXCEPT ![p][a] = perm[p][a] \ {"W", "X"}]
          BY Zenon, <2>5 DEF TrapMapped, TypeOK
        <5> QED BY <5>1
      <4>2. CASE perm' = perm
        BY Zenon, <4>2
      <4>3. CASE perm' = [perm EXCEPT ![p][a] = flags]
        BY <4>1, <4>3, SMTT(30) DEF TypeOK
      <4> QED BY Zenon, <4>1, <4>2, <4>3
    <3>4. FaultPageStaysUnmapped'
      BY Zenon, <3>1, <3>2, StaysUnmapped DEF UnmappedInv
    <3>5. HandlersLive'
      BY Zenon, <2>3, <3>1 DEF UnmappedInv, HandlersLive, NoNewFault
    <3>6. OnlyGuardHidden'
      BY Zenon, <2>3, <3>2, <3>3 DEF UnmappedInv, OnlyGuardHidden, ismapped
    <3> QED BY Zenon, <3>4, <3>5, <3>6 DEF UnmappedInv
  <2>6. CASE TrapMissing(p, a, acc, c)
    <3>1. ~ismapped(p, a)
      BY Zenon, <2>2, <2>6 DEF TrapMissing, walkaddr, ismapped, UnmappedInv,
                        OnlyGuardHidden
    <3>2. fault' = [fault EXCEPT ![p] = StartFault("trap", a, c, acc = "write")]
      BY Zenon, <2>6 DEF TrapMissing
    <3>3. UNCHANGED <<pt, perm>>
      BY Zenon, <2>6 DEF TrapMissing
    <3> QED BY <2>3, <3>1, <3>2, <3>3, UnmappedStart, Zenon
  <2> QED BY Zenon, <2>1, <2>4, <2>5, <2>6 DEF c
<1>3. ASSUME NEW p \in Proc, CopyMissing(p) PROVE UnmappedInv'
  <2>1. PICK c \in {"copyin", "copyout"}, a \in Page, k \in {"exec", "anon"} :
          /\ pstate[p] = "LIVE" /\ ~ismapped(p, a)
          /\ fault' = [fault EXCEPT ![p] = StartFault(c, a, k, FALSE)]
    BY <1>3, Zenon DEF CopyMissing, InCall, Running
  <2>2. UNCHANGED <<pstate, image, pt, perm>>
    BY Zenon, <1>3 DEF CopyMissing
  <2> QED BY <2>1, <2>2, UnmappedStart, Zenon
<1>4. ASSUME NEW p \in Proc, Kalloc(p) PROVE UnmappedInv'
  BY <1>4, KallocGoesOn, UnmappedSame, Zenon DEF Kalloc
<1>5. ASSUME NEW p \in Proc, MemFull(p) PROVE UnmappedInv'
  <2>1. NoNewFault
    BY Zenon, <1>5, FaultGoesOn DEF MemFull, AtStep, Handling
  <2> QED BY Zenon, <1>5, <2>1, UnmappedSame DEF MemFull
<1>6. ASSUME NEW p \in Proc, NoVictim(p) \/ RetryFails(p) \/ LoadFails(p)
      PROVE  UnmappedInv'
  <2>1. NoNewFault
    BY Zenon, <1>6, FaultGoesOn DEF NoVictim, RetryFails, LoadFails
  <2> QED BY Zenon, <1>6, <2>1, UnmappedSame DEF NoVictim, RetryFails,
             LoadFails
<1>7. ASSUME NEW p \in Proc, Evict(p) PROVE UnmappedInv'
  <2>1. PICK i \in select_victim(vm[p].pages) :
          \/ EvictStale(p, vm[p].pages[i].va)
          \/ EvictClean(p, vm[p].pages[i].va)
          \/ EvictDirty(p, vm[p].pages[i].va)
          \/ SwapFull(p, vm[p].pages[i].va)
    BY Zenon, <1>7 DEF Evict
  <2> DEFINE va == vm[p].pages[i].va
  <2>2. va \in Page
    BY DEF TypeOK, VMState, page_stat, Resident, UVa, select_victim,
       select_victim_fifo_index, select_victim_cleanfifo_index, OldestOf
  <2> HIDE DEF va
  <2>3. Handling(fault[p]) /\ UNCHANGED <<pstate, image>>
    BY <1>7, SMTT(30) DEF Evict, AtStep, Handling
  <2>4. NoNewFault
    BY <2>1, <2>3, FaultGoesOn, SMTT(30) DEF EvictStale, EvictClean,
       EvictDirty, SwapFull
  <2>5. CASE EvictStale(p, va) \/ SwapFull(p, va)
    BY Zenon, <2>3, <2>4, <2>5, UnmappedSame DEF EvictStale, SwapFull
  <2>6. CASE EvictClean(p, va) \/ EvictDirty(p, va)
    <3>1. UnmapVictim(p, va)
      BY Zenon, <2>6 DEF EvictClean, EvictDirty
    <3>2. Unmaps(p, {va})
      BY Zenon, <2>2, <3>1 DEF UnmapVictim, TypeOK, Unmaps
    <3>3. NobodyDies
      BY Zenon, <2>3 DEF NobodyDies
    <3>4. image' = image
      BY Zenon, <2>3
    <3> QED BY Zenon, <2>4, <3>2, <3>3, <3>4, UnmappedUnmap
  <2> QED BY Zenon, <2>1, <2>5, <2>6 DEF va
<1>8. ASSUME NEW p \in Proc, LoadTrap(p) \/ LoadCopy(p) PROVE UnmappedInv'
  <2>1. NoNewFault /\ ~Handling(fault'[p])
    BY Zenon, <1>8, FaultGoesOn DEF LoadTrap, LoadCopy
  <2>2. PICK flags :
          Map(p, fault[p].va, fault[p].frame, flags) /\ "U" \in flags
    <3>1. CASE LoadTrap(p)
      <4>1. \/ Map(p, fault[p].va, fault[p].frame, {"U", "W"})
            \/ Map(p, fault[p].va, fault[p].frame, {"U", "X"})
            \/ Map(p, fault[p].va, fault[p].frame, {"U"})
        BY <3>1, Zenon DEF LoadTrap, LoadAnon, LoadSwap, LoadExec
      <4> QED BY <4>1, SMTT(30)
    <3>2. CASE LoadCopy(p)
      <4>1. \/ Map(p, fault[p].va, fault[p].frame, {"U", "W"})
            \/ Map(p, fault[p].va, fault[p].frame, {"U", "X"})
        BY Zenon, <3>2 DEF LoadCopy
      <4> QED BY <4>1
    <3> QED BY Zenon, <1>8, <3>1, <3>2
  <2>3. fault[p].va \in Page
    BY Zenon DEF TypeOK, Fault
  <2>4. UNCHANGED <<pstate, image>>
    BY Zenon, <1>8 DEF LoadTrap, LoadCopy
  <2> QED BY <2>1, <2>2, <2>3, <2>4, UnmappedMap, SMTT(30)
<1>9. ASSUME NEW p \in Proc, SbrkEager(p) PROVE UnmappedInv'
  <2>1. PICK f \in free :
          \/ /\ Map(p, sz[p], f, {"U", "W"})
             /\ UNCHANGED <<pstate, image, fault>>
          \/ Halt
    BY Zenon, <1>9 DEF SbrkEager
  <2>2. CASE ~Halt
    <3>1. sz[p] \in Page /\ ~Handling(fault[p])
      BY <1>9, SizesAssumption
      DEF SbrkEager, InCall, Running, Handling, TypeOK, Page
    <3>2. NoNewFault /\ ~Handling(fault'[p])
      BY Zenon, <2>1, <2>2, <3>1 DEF NoNewFault
    <3> QED BY <2>1, <2>2, <3>1, <3>2, UnmappedMap
  <2> QED BY Zenon, <1>1, <1>9, <2>2
<1>10. ASSUME NEW p \in Proc, SbrkShrink(p) PROVE UnmappedInv'
  <2>1. PICK n \in 1 .. sz[p] :
          LET gone == {a \in Page : sz[p] - n <= a /\ a < sz[p]}
          IN  /\ pt' = [pt EXCEPT ![p] =
                          [a \in Page |-> IF a \in gone THEN NoFrame ELSE @[a]]]
              /\ perm' = [perm EXCEPT ![p] =
                            [a \in Page |-> IF a \in gone THEN {} ELSE @[a]]]
    BY <1>10, Zenon DEF SbrkShrink
  <2> DEFINE gone == {a \in Page : sz[p] - n <= a /\ a < sz[p]}
  <2>2. pstate' = pstate /\ image' = image /\ fault' = fault
    BY Zenon, <1>10 DEF SbrkShrink
  <2> HIDE DEF gone
  <2>3. Unmaps(p, gone)
    BY Zenon, <2>1 DEF TypeOK, gone, Unmaps
  <2>4. NoNewFault
    BY Zenon, <2>2 DEF NoNewFault
  <2>5. NobodyDies
    BY Zenon, <2>2 DEF NobodyDies
  <2> QED BY <2>2, <2>3, <2>4, <2>5, UnmappedUnmap, SMTT(30)
<1>11. ASSUME NEW p \in Proc, Wait(p) PROVE UnmappedInv'
  <2>1. CASE ~Halt
    <3>1. /\ pt' = [pt EXCEPT ![p] = [a \in Page |-> NoFrame]]
          /\ perm' = [perm EXCEPT ![p] = [a \in Page |-> {}]]
          /\ pstate' = [pstate EXCEPT ![p] = "UNUSED"]
          /\ UNCHANGED <<image, fault>>
          /\ pstate[p] = "ZOMBIE"
      BY Zenon, <1>11, <2>1 DEF Wait
    <3>2. Unmaps(p, Page)
      BY Zenon, <3>1 DEF TypeOK, Unmaps
    <3>3. NobodyDies
      BY Zenon, <3>1 DEF TypeOK, NobodyDies
    <3>4. NoNewFault
      BY Zenon, <3>1 DEF NoNewFault
    <3> QED BY Zenon, <3>1, <3>2, <3>3, <3>4, UnmappedUnmap
  <2> QED BY Zenon, <1>1, <1>11, <2>1
<1>12. ASSUME NEW p \in Proc, Exit(p) PROVE UnmappedInv'
  <2>1. \A q \in Proc : fault'[q] = IF q = p THEN Idle ELSE fault[q]
    BY Zenon, <1>12 DEF Exit, TypeOK
  <2>2. ~Handling(Idle)
    BY Zenon DEF Handling, Idle
  <2>3. NoNewFault
    BY Zenon, <2>1, <2>2 DEF NoNewFault
  <2>4. UNCHANGED <<image, pt, perm>>
    BY Zenon, <1>12 DEF Exit
  <2>5. FaultPageStaysUnmapped'
    BY Zenon, <2>3, <2>4, StaysUnmapped DEF UnmappedInv
  <2>6. HandlersLive'
    BY <1>12, <2>1, <2>2, SMTT(30) DEF Exit, UnmappedInv, HandlersLive, TypeOK
  <2>7. OnlyGuardHidden'
    BY Zenon, <2>4 DEF UnmappedInv, OnlyGuardHidden, ismapped
  <2> QED BY Zenon, <2>5, <2>6, <2>7 DEF UnmappedInv
<1>13. ASSUME NEW p \in Proc, Fork(p) PROVE UnmappedInv'
  <2> DEFINE copied == {a \in Page : a < sz[p] /\ ismapped(p, a)}
  <2>1. PICK c \in Proc, g \in Injection(copied, free) :
          /\ pstate[c] = "UNUSED"
          /\ pt' = [pt EXCEPT ![c] =
                [a \in Page |-> IF a \in copied THEN g[a] ELSE NoFrame]]
          /\ perm' = [perm EXCEPT ![c] =
                [a \in Page |-> IF a \in copied THEN perm[p][a] ELSE {}]]
          /\ pstate' = [pstate EXCEPT ![c] = "LIVE"]
          /\ image' = [image EXCEPT ![c] = image[p]]
    BY <1>13, ZenonT(60) DEF Fork
  <2>2. fault' = fault
    BY Zenon, <1>13 DEF Fork
  <2>3. \A b \in copied : ismapped(p, b)
    BY Zenon
  <2> HIDE DEF copied
  <2>4. \A q \in Proc, b \in Page :
          /\ pt'[q][b] = IF q # c THEN pt[q][b]
                         ELSE IF b \in copied THEN g[b] ELSE NoFrame
          /\ perm'[q][b] = IF q # c THEN perm[q][b]
                           ELSE IF b \in copied THEN perm[p][b] ELSE {}
    BY Zenon, <2>1 DEF TypeOK
  <2>5. \A q \in Proc : image'[q] = IF q = c THEN image[p] ELSE image[q]
    BY Zenon, <2>1 DEF TypeOK
  <2>6. ~Handling(fault[c])
    BY Zenon, <2>1 DEF UnmappedInv, HandlersLive
  <2>7. NoNewFault
    BY Zenon, <2>2 DEF NoNewFault
  <2>8. FaultPageStaysUnmapped'
    BY <2>2, <2>4, <2>6, <2>7, StaysUnmapped, SMTT(30) DEF UnmappedInv
  <2>9. HandlersLive'
    BY <2>1, <2>2, <2>6, SMTT(30) DEF UnmappedInv, HandlersLive, TypeOK
  <2>10. OnlyGuardHidden'
    BY <2>3, <2>4, <2>5 DEF UnmappedInv, OnlyGuardHidden, ismapped
  <2> QED BY <2>8, <2>9, <2>10, SMTT(30) DEF UnmappedInv
<1>14. ASSUME NEW p \in Proc, Exec(p) PROVE UnmappedInv'
  <2>1. PICK i \in Image, g \in free, s \in free :
          \/ /\ pt' = [pt EXCEPT ![p] = ExecTable(i, g, s)]
             /\ perm' = [perm EXCEPT ![p] = ExecPerm(i)]
             /\ image' = [image EXCEPT ![p] = i]
             /\ UNCHANGED <<pstate, fault>>
          \/ Halt
    BY <1>14 DEF Exec
  <2>2. CASE ~Halt
    <3>1. ~Handling(fault[p])
      BY Zenon, <1>14 DEF Exec, InCall, Running, Handling
    <3>2. \A q \in Proc, b \in Page : q # p =>
            /\ pt'[q][b] = pt[q][b]
            /\ perm'[q][b] = perm[q][b]
            /\ image'[q] = image[q]
      BY Zenon, <2>1, <2>2 DEF TypeOK
    <3>3. /\ image'[p] = i
          /\ \A b \in Page : pt'[p][b] # NoFrame /\ "U" \notin perm'[p][b]
               => b = StackPage[i] - 1
      BY <2>1, <2>2 DEF TypeOK, ExecTable, ExecPerm
    <3>4. fault' = fault /\ pstate' = pstate
      BY Zenon, <2>1, <2>2
    <3>5. NoNewFault
      BY Zenon, <3>4 DEF NoNewFault
    <3>6. FaultPageStaysUnmapped'
      BY Zenon, <3>1, <3>2, <3>4, <3>5, StaysUnmapped DEF UnmappedInv
    <3>7. HandlersLive'
      BY Zenon, <3>4 DEF UnmappedInv, HandlersLive
    <3>8. OnlyGuardHidden'
      BY <3>2, <3>3 DEF UnmappedInv, OnlyGuardHidden, ismapped
    <3> QED BY <3>6, <3>7, <3>8, SMTT(30) DEF UnmappedInv
  <2> QED BY Zenon, <1>1, <1>14, <2>2
<1> QED
  BY Zenon, <1>0, <1>1, <1>2, <1>3, <1>4, <1>5, <1>6, <1>7, <1>8, <1>9, <1>10,
     <1>11,
     <1>12, <1>13, <1>14, SMTT(30) DEF Next, Handler, vars

\* Initially nobody is in a handler, and kexec() hid only the guard page.
LEMMA InitUnmapped == Init => UnmappedInv
<1> SUFFICES ASSUME Init PROVE UnmappedInv
  BY Zenon
<1>1. FaultPageStaysUnmapped /\ HandlersLive
  BY Zenon DEF Init, Idle, FaultPageStaysUnmapped, HandlersLive, Handling
<1>2. PICK g, s :
        /\ pt = [p \in Proc |-> IF p \in Started
                                THEN ExecTable(Boot, g[p], s[p])
                                ELSE [a \in Page |-> NoFrame]]
        /\ perm = [p \in Proc |-> IF p \in Started THEN ExecPerm(Boot)
                                  ELSE [a \in Page |-> {}]]
        /\ image = [p \in Proc |-> Boot]
  BY DEF Init
<1>3. OnlyGuardHidden
  BY Zenon, <1>2 DEF OnlyGuardHidden, ismapped, ExecTable, ExecPerm
<1> QED BY Zenon, <1>1, <1>3 DEF UnmappedInv
-----------------------------------------------------------------------------
(* What a mapped frame holds. *)

\* No mapped frame holds what kalloc() or kfree() left in it.
MappedFilled ==
  \A p \in Proc, a \in Page : ismapped(p, a) => mem[pt[p][a]] # Junk

\* What swapin_page() would read was written by a swap-out.
SwapinFilled ==
  \A p \in Proc, a \in Page :
    LET s == swapin_slot(vm[p], a) IN s \in Slot => swap[p][s] # Junk

\* What the kernel or the program puts into a page is not the junk of kfree().
LEMMA ContentsDiffer ==
  /\ Zero # Junk /\ Args # Junk
  /\ \A i, a : FromFile(i, a) # Junk
  /\ \A v : Stored(v) # Junk
BY Zenon DEF Zero, Args, Junk, FromFile, Stored

\* A step that changes no page table and writes at most one page.
LEMMA FilledSame ==
  ASSUME TypeOK, MappedFilled, pt' = pt,
         \/ mem' = mem
         \/ \E f : \E c : mem' = [mem EXCEPT ![f] = c] /\ c # Junk
  PROVE  MappedFilled'
<1>1. \A p \in Proc, a \in Page : ismapped(p, a) =>
        pt[p][a] \in Frame /\ mem[pt[p][a]] # Junk
  BY DEF TypeOK, MappedFilled, ismapped
<1>2. \A f \in Frame : mem'[f] = mem[f] \/ mem'[f] # Junk
  BY Zenon DEF TypeOK
<1> QED BY <1>1, <1>2, Zenon DEF MappedFilled, ismapped

\* kfree() of pages that are no longer mapped.
LEMMA FilledFreed ==
  ASSUME TypeOK, MappedFilled, NEW fs,
         mem' = [f \in Frame |-> IF f \in fs THEN Junk ELSE mem[f]],
         \A q \in Proc, b \in Page :
           pt'[q][b] = NoFrame \/ (pt'[q][b] = pt[q][b] /\ pt[q][b] \notin fs)
  PROVE  MappedFilled'
<1>1. \A p \in Proc, a \in Page : ismapped(p, a) =>
        pt[p][a] \in Frame /\ mem[pt[p][a]] # Junk
  BY DEF TypeOK, MappedFilled, ismapped
<1> QED BY <1>1 DEF MappedFilled, ismapped

\* A page that is filled and mapped.
LEMMA FilledMapped ==
  ASSUME TypeOK, MappedFilled, NEW p \in Proc, NEW a \in Page, NEW f \in Frame,
         pt' = [pt EXCEPT ![p][a] = f],
         \E c : mem' = [mem EXCEPT ![f] = c] /\ c # Junk
  PROVE  MappedFilled'
<1>1. \A q \in Proc, b \in Page : ismapped(q, b) =>
        pt[q][b] \in Frame /\ mem[pt[q][b]] # Junk
  BY DEF TypeOK, MappedFilled, ismapped
<1>2. \A g \in Frame : mem'[g] = mem[g] \/ mem'[g] # Junk
  BY Zenon DEF TypeOK
<1>3. mem'[f] # Junk
  BY Zenon DEF TypeOK
<1>4. \A q \in Proc, b \in Page : pt'[q][b] = f \/ pt'[q][b] = pt[q][b]
  BY Zenon DEF TypeOK
<1> QED BY <1>1, <1>2, <1>3, <1>4 DEF MappedFilled, ismapped

\* Every path that maps a page fills it first: from zeros, the executable,
\* the swap slot, or the page of the parent.
LEMMA FilledStep ==
  TypeOK /\ FramesExclusive /\ MappedFilled /\ SwapinFilled /\ [Next]_vars
    => MappedFilled'
<1> SUFFICES ASSUME TypeOK, FramesExclusive, MappedFilled, SwapinFilled,
                    [Next]_vars
             PROVE  MappedFilled'
  BY Zenon
<1> USE DEF procVars, spaceVars, tableVars
<1>0. ASSUME UNCHANGED <<pt, mem>> PROVE MappedFilled'
  BY <1>0, Zenon DEF MappedFilled, ismapped
<1>1. ASSUME NEW p \in Proc,
             \/ CopyMissing(p) \/ Kalloc(p) \/ MemFull(p) \/ NoVictim(p)
             \/ RetryFails(p) \/ SbrkLazy(p) \/ Kill(p) \/ Exit(p) \/ Halt
      PROVE  MappedFilled'
  BY <1>0, <1>1, ZenonT(60) DEF CopyMissing, Kalloc, MemFull, NoVictim,
       RetryFails, SbrkLazy, Kill, Exit, Halt
<1>2. ASSUME NEW p \in Proc, Store(p) \/ CopyOut(p) PROVE MappedFilled'
  <2>1. pt' = pt /\ \E f : \E c : mem' = [mem EXCEPT ![f] = c] /\ c # Junk
    BY <1>2, ContentsDiffer, Zenon DEF Store, CopyOut
  <2> QED BY <2>1, FilledSame, Zenon
<1>3. ASSUME NEW p \in Proc, PageFault(p) PROVE MappedFilled'
  <2>1. PICK a, acc, c : TrapInvalid(p, a, acc, c) \/ TrapMapped(p, a, acc, c)
                           \/ TrapMissing(p, a, acc, c)
    BY Zenon, <1>3 DEF PageFault
  <2>2. pt' = pt
    BY Zenon, <2>1 DEF TrapInvalid, TrapMapped, TrapMissing
  <2> QED BY <1>0, <1>3, <2>2, Zenon DEF PageFault
<1>4. ASSUME NEW p \in Proc, Evict(p) PROVE MappedFilled'
  <2>1. PICK i \in select_victim(vm[p].pages) :
          \/ EvictStale(p, vm[p].pages[i].va)
          \/ EvictClean(p, vm[p].pages[i].va)
          \/ EvictDirty(p, vm[p].pages[i].va)
          \/ SwapFull(p, vm[p].pages[i].va)
    BY Zenon, <1>4 DEF Evict
  <2> DEFINE va == vm[p].pages[i].va
  <2>2. va \in Page
    <3>1. i \in Index
      BY Zenon DEF select_victim, select_victim_fifo_index,
             select_victim_cleanfifo_index, OldestOf, Resident
    <3> QED BY <3>1 DEF TypeOK, VMState, page_stat, UVa
  <2> HIDE DEF va
  <2>3. CASE EvictStale(p, va) \/ SwapFull(p, va)
    BY <1>0, <2>3, Zenon DEF EvictStale, SwapFull
  <2>4. CASE EvictClean(p, va) \/ EvictDirty(p, va)
    <3> DEFINE fs == {pt[p][va]}
    <3>1. /\ pt' = [pt EXCEPT ![p][va] = NoFrame] /\ pt[p][va] # NoFrame
          /\ mem' = [f \in Frame |-> IF f \in fs THEN Junk ELSE mem[f]]
      BY <2>4, Zenon DEF EvictClean, EvictDirty, UnmapVictim, kfree, ismapped
    <3>2. \A q \in Proc, b \in Page :
            pt'[q][b] = IF q = p /\ b = va THEN NoFrame ELSE pt[q][b]
      BY <2>2, <3>1, Zenon DEF TypeOK
    <3>3. \A q \in Proc, b \in Page : pt[q][b] = pt[p][va] => q = p /\ b = va
      BY <2>2, <3>1, SMTT(30) DEF FramesExclusive
    <3>4. \A q \in Proc, b \in Page :
           pt'[q][b] = NoFrame \/ (pt'[q][b] = pt[q][b] /\ pt[q][b] \notin fs)
      BY <3>2, <3>3, Zenon
    <3> HIDE DEF fs
    <3> QED BY <3>1, <3>4, FilledFreed, Zenon
  <2> QED BY <2>1, <2>3, <2>4, Zenon DEF va
<1>5. ASSUME NEW p \in Proc, LoadTrap(p) \/ LoadCopy(p) PROVE MappedFilled'
  <2> DEFINE a == fault[p].va
             f == fault[p].frame
  <2>1. fault[p].at = "load" /\ a \in Page
    BY <1>5, Zenon DEF LoadTrap, LoadCopy, AtStep, TypeOK, Fault
  <2>2. f \in Frame
    BY <2>1, SMTT(30) DEF FramesExclusive
  <2>3. pt' = [pt EXCEPT ![p][a] = f]
    BY <1>5, ZenonT(60) DEF LoadTrap, LoadAnon, LoadSwap, LoadExec, LoadCopy,
       Map
  <2>4. \E c : mem' = [mem EXCEPT ![f] = c] /\ c # Junk
    <3>1. CASE LoadTrap(p)
      <4>1. CASE LoadAnon(p, a) \/ LoadExec(p, a)
        <5>1. \/ mem' = [mem EXCEPT ![f] = Zero]
              \/ mem' = [mem EXCEPT ![f] = FromFile(image[p], a)]
          BY <4>1, Zenon DEF LoadAnon, LoadExec, Fill
        <5> QED BY <5>1, ContentsDiffer, Zenon
      <4>2. CASE LoadSwap(p, a)
        <5> DEFINE s == swapin_slot(vm[p], a)
        <5>1. s \in Slot /\ mem' = [mem EXCEPT ![f] = swap[p][s]]
          BY <4>2, Zenon DEF LoadSwap, Fill
        <5>2. swap[p][s] # Junk
          BY <2>1, <5>1, Zenon DEF SwapinFilled
        <5> QED BY <5>1, <5>2, Zenon
      <4> QED BY <3>1, <4>1, <4>2, Zenon DEF LoadTrap
    <3>2. CASE LoadCopy(p)
      BY <3>2, ContentsDiffer, Zenon DEF LoadCopy, Fill
    <3> QED BY Zenon, <1>5, <3>1, <3>2
  <2> HIDE DEF a, f
  <2> QED BY <2>1, <2>2, <2>3, <2>4, FilledMapped, Zenon
<1>6. ASSUME NEW p \in Proc, LoadFails(p) PROVE MappedFilled'
  <2> DEFINE fs == {fault[p].frame}
  <2>1. \A q \in Proc, b \in Page : pt[q][b] # fault[p].frame
    BY Zenon, <1>6 DEF LoadFails, AtStep, FramesExclusive
  <2>2. pt' = pt /\ mem' = [f \in Frame |-> IF f \in fs THEN Junk ELSE mem[f]]
    BY <1>6, Zenon DEF LoadFails, kfree
  <2>3. \A q \in Proc, b \in Page : pt[q][b] \notin fs
    BY Zenon, <2>1
  <2> HIDE DEF fs
  <2> QED BY <2>2, <2>3, FilledFreed, Zenon
<1>7. ASSUME NEW p \in Proc, SbrkEager(p) PROVE MappedFilled'
  <2>1. PICK f \in free : \/ /\ mem' = [mem EXCEPT ![f] = Zero]
                             /\ pt' = [pt EXCEPT ![p][sz[p]] = f]
                          \/ Halt
    BY <1>7, Zenon DEF SbrkEager, Map
  <2>2. sz[p] \in Page /\ f \in Frame
    BY <1>7, SizesAssumption DEF SbrkEager, TypeOK, Page
  <2> QED BY <1>1, <2>1, <2>2, FilledMapped, ContentsDiffer
<1>8. ASSUME NEW p \in Proc, NEW gone \in SUBSET Page, NEW fs,
             fs = {pt[p][a] : a \in gone} \ {NoFrame},
             pt' = [pt EXCEPT ![p] =
                      [a \in Page |-> IF a \in gone THEN NoFrame ELSE @[a]]],
             mem' = [f \in Frame |-> IF f \in fs THEN Junk ELSE mem[f]]
      PROVE  MappedFilled'
  <2>1. \A q \in Proc, b \in Page :
          pt'[q][b] = IF q = p /\ b \in gone THEN NoFrame ELSE pt[q][b]
    BY <1>8, ZenonT(60) DEF TypeOK
  <2>2. \A q \in Proc, b \in Page : pt[q][b] \in fs => q = p /\ b \in gone
    BY <1>8, SMTT(30) DEF FramesExclusive
  <2> QED BY <1>8, <2>1, <2>2, FilledFreed
<1>9. ASSUME NEW p \in Proc, SbrkShrink(p) PROVE MappedFilled'
  <2>1. PICK gone \in SUBSET Page :
          /\ pt' = [pt EXCEPT ![p] =
                      [a \in Page |-> IF a \in gone THEN NoFrame ELSE @[a]]]
          /\ kfree({pt[p][a] : a \in gone} \ {NoFrame})
    BY <1>9, ZenonT(60) DEF SbrkShrink
  <2> QED BY <1>8, <2>1, Zenon DEF kfree
<1>10. ASSUME NEW p \in Proc, Wait(p) PROVE MappedFilled'
  <2>1. CASE ~Halt
    <3>1. /\ pt' = [pt EXCEPT ![p] = [a \in Page |-> NoFrame]]
          /\ kfree(FramesOf(p))
      BY <1>10, <2>1, Zenon DEF Wait
    <3>2. pt' = [pt EXCEPT ![p] =
                   [a \in Page |-> IF a \in Page THEN NoFrame ELSE @[a]]]
      BY <3>1, ZenonT(60)
    <3>3. /\ Page \in SUBSET Page
          /\ FramesOf(p) = {pt[p][a] : a \in Page} \ {NoFrame}
          /\ mem' = [f \in Frame |-> IF f \in FramesOf(p) THEN Junk ELSE mem[f]]
      BY <3>1, Zenon DEF FramesOf, kfree
    <3> QED BY <1>8, <3>2, <3>3, Zenon
  <2> QED BY <1>1, <1>10, <2>1, Zenon
<1>11. ASSUME NEW p \in Proc, Fork(p) PROVE MappedFilled'
  <2> DEFINE copied == {a \in Page : a < sz[p] /\ ismapped(p, a)}
  <2>1. PICK c \in Proc, g \in Injection(copied, free) :
          /\ pt' = [pt EXCEPT ![c] =
                [a \in Page |-> IF a \in copied THEN g[a] ELSE NoFrame]]
          /\ mem' = [f \in Frame |->
                IF \E a \in copied : g[a] = f
                THEN mem[pt[p][CHOOSE a \in copied : g[a] = f]]
                ELSE mem[f]]
    BY <1>11, ZenonT(60) DEF Fork
  <2>2. \A a \in copied : g[a] \in free
    BY Zenon DEF Injection, IsInjective
  <2>3. \A a \in copied : a \in Page /\ ismapped(p, a)
    BY Zenon
  <2> HIDE DEF copied
  <2>4. \A q \in Proc, b \in Page :
          pt'[q][b] = IF q # c THEN pt[q][b]
                      ELSE IF b \in copied THEN g[b] ELSE NoFrame
    BY <2>1, ZenonT(60) DEF TypeOK
  <2>5. \A b \in copied : mem'[g[b]] # Junk
    <3> SUFFICES ASSUME NEW b \in copied PROVE mem'[g[b]] # Junk
      BY Zenon
    <3> DEFINE x == CHOOSE a \in copied : g[a] = g[b]
    <3>1. x \in copied
      BY Zenon
    <3>2. g[b] \in Frame
      BY Zenon, <2>2 DEF TypeOK
    <3>3. mem'[g[b]] = mem[pt[p][x]]
      BY <2>1, <3>2, Zenon
    <3> HIDE DEF x
    <3> QED BY <2>3, <3>1, <3>3, Zenon DEF MappedFilled
  <2>6. \A q \in Proc, b \in Page : ismapped(q, b) =>
          mem'[pt[q][b]] = mem[pt[q][b]]
    <3>1. \A q \in Proc, b \in Page : pt[q][b] \notin free
      BY Zenon DEF FramesExclusive
    <3>2. \A q \in Proc, b \in Page : ismapped(q, b) => pt[q][b] \in Frame
      BY DEF TypeOK, ismapped
    <3> QED BY <2>1, <2>2, <3>1, <3>2, Zenon
  <2> QED BY <2>4, <2>5, <2>6 DEF MappedFilled, ismapped
<1>12. ASSUME NEW p \in Proc, Exec(p) PROVE MappedFilled'
  <2>1. PICK i \in Image, g \in free, s \in free :
          \/ /\ g # s
             /\ pt' = [pt EXCEPT ![p] = ExecTable(i, g, s)]
             /\ mem' = [f \in Frame |-> IF f = g THEN Zero
                                        ELSE IF f = s THEN Args
                                        ELSE IF f \in FramesOf(p) THEN Junk
                                        ELSE mem[f]]
          \/ Halt
    BY <1>12, SMTT(30) DEF Exec
  <2>2. CASE ~Halt
    <3>1. \A q \in Proc, b \in Page :
            IF q = p THEN pt'[q][b] \in {g, s, NoFrame}
                     ELSE pt'[q][b] = pt[q][b]
      BY <2>1, <2>2 DEF ExecTable, TypeOK
    <3>2. g \in Frame /\ s \in Frame
      BY Zenon DEF TypeOK
    <3>3. mem'[g] # Junk /\ mem'[s] # Junk
      BY <2>1, <2>2, <3>2, ContentsDiffer, Zenon
    <3>4. \A q \in Proc, b \in Page : q # p => pt[q][b] \notin FramesOf(p)
      BY SMTT(30) DEF FramesExclusive, FramesOf
    <3>5. \A q \in Proc, b \in Page : pt[q][b] \notin free
      BY Zenon DEF FramesExclusive
    <3>6. \A q \in Proc, b \in Page : q # p /\ ismapped(q, b) =>
            mem'[pt[q][b]] = mem[pt[q][b]]
      <4>1. \A q \in Proc, b \in Page : ismapped(q, b) =>
              pt[q][b] \in Frame /\ pt[q][b] # g /\ pt[q][b] # s
        BY <3>5 DEF TypeOK, ismapped
      <4> QED BY Zenon, <2>1, <2>2, <3>4, <4>1
    <3> QED BY <3>1, <3>3, <3>6 DEF MappedFilled, ismapped
  <2> QED BY <1>1, <1>12, <2>2, Zenon
<1> QED
  BY <1>0, <1>1, <1>2, <1>3, <1>4, <1>5, <1>6, <1>7, <1>9, <1>10, <1>11, <1>12,
     Zenon DEF Next, Handler, vars

\* Initially kexec() has filled both of its pages.
LEMMA InitFilled == Init => MappedFilled
<1> SUFFICES ASSUME Init PROVE MappedFilled
  BY Zenon
<1>1. PICK g \in Injection(Started, Frame), s \in Injection(Started, Frame) :
        /\ pt = [p \in Proc |-> IF p \in Started
                                THEN ExecTable(Boot, g[p], s[p])
                                ELSE [a \in Page |-> NoFrame]]
        /\ mem = [f \in Frame |-> IF \E p \in Started : f = g[p] THEN Zero
                                  ELSE IF \E p \in Started : f = s[p] THEN Args
                                  ELSE Junk]
  BY DEF Init
<1>2. \A p \in Started : g[p] \in Frame /\ s[p] \in Frame
  BY Zenon DEF Injection, IsInjective
<1>3. \A p \in Started : mem[g[p]] # Junk /\ mem[s[p]] # Junk
  BY <1>1, <1>2, ContentsDiffer, Zenon
<1>4. \A p \in Proc, a \in Page : ismapped(p, a) =>
        p \in Started /\ pt[p][a] \in {g[p], s[p]}
  BY Zenon, <1>1 DEF ExecTable, ismapped
<1> QED BY <1>3, <1>4 DEF MappedFilled
=============================================================================
