---------------------------- MODULE FrameProofs -----------------------------
(***************************************************************************)
(* Proofs about the physical frames: each has one owner, and each has one. *)
(***************************************************************************)
EXTENDS Paging, TLAPS

(* Ownership of frames. *)

\* No handler has just received a frame.
NoNewFrame ==
  \A q \in Proc : fault'[q].at = "load" =>
    fault[q].at = "load" /\ fault'[q].frame = fault[q].frame

\* The three parts of FramesExclusive.
LEMMA FramesParts ==
  ASSUME FramesExclusive
  PROVE  /\ \A p, q \in Proc, a, b \in Page :
              pt[p][a] = pt[q][b] /\ pt[p][a] # NoFrame => p = q /\ a = b
         /\ \A p \in Proc, a \in Page : pt[p][a] \notin free
         /\ \A p \in Proc : fault[p].at = "load" =>
              /\ fault[p].frame \in Frame \ free
              /\ \A q \in Proc, a \in Page : pt[q][a] # fault[p].frame
              /\ \A q \in Proc : fault[q].at = "load"
                                    /\ fault[q].frame = fault[p].frame => p = q
BY SMTT(30) DEF FramesExclusive

\* A fault that starts, goes on to another step, or ends gives no handler a
\* frame; one that ends gives its frame up.
LEMMA FaultMoves ==
  ASSUME TypeOK, NEW p \in Proc
  PROVE  /\ Resumed(p) \/ KillSelf(p) \/ FaultFails(p)
              => NoNewFrame /\ fault'[p].at # "load"
         /\ \A at \in {"evict", "retry"} : Goto(p, at) => NoNewFrame
         /\ \A c, a, k, w : fault' = [fault EXCEPT ![p] = StartFault(c, a, k, w)]
              => NoNewFrame
<1> USE DEF TypeOK, NoNewFrame
<1>1. \A k : Resume(p, k) => NoNewFrame /\ fault'[p].at # "load"
  <2> SUFFICES ASSUME NEW k, Resume(p, k)
               PROVE  NoNewFrame /\ fault'[p].at # "load"
    BY Zenon
  <2> DEFINE r == IF k THEN [Idle EXCEPT !.at = "exit"] ELSE Idle
  <2>1. r.at # "load"
    BY Zenon DEF Idle
  <2>2. fault' = [fault EXCEPT ![p] = r]
    BY Zenon DEF Resume
  <2> HIDE DEF r
  <2> QED BY <2>1, <2>2, SMTT(30)
<1>2. Resumed(p) \/ KillSelf(p) \/ FaultFails(p)
        => NoNewFrame /\ fault'[p].at # "load"
  <2> HIDE DEF NoNewFrame, TypeOK
  <2> QED BY <1>1, Zenon DEF Resumed, KillSelf, FaultFails
<1>3. \A at \in {"evict", "retry"} : Goto(p, at) => NoNewFrame
  BY DEF Goto, Fault
<1>4. \A c, a, k, w : fault' = [fault EXCEPT ![p] = StartFault(c, a, k, w)]
        => NoNewFrame
  BY DEF StartFault
<1> QED BY Zenon, <1>2, <1>3, <1>4

\* A step of one fault handler leaves the others where they are.
LEMMA OthersHandle ==
  ASSUME TypeOK, NEW p \in Proc,
         \/ Resumed(p) \/ KillSelf(p) \/ FaultFails(p)
         \/ \E at \in {"evict", "retry"} : Goto(p, at)
         \/ \E r : fault' = [fault EXCEPT ![p] = r]
  PROVE  \A q \in Proc \ {p} : fault'[q] = fault[q]
<1>1. \E r : fault' = [fault EXCEPT ![p] = r]
  BY Zenon DEF Resumed, KillSelf, FaultFails, Resume, Goto
<1> QED BY <1>1, Zenon DEF TypeOK

\* Only an eviction takes a handler from the full free list to the second
\* kalloc().
LEMMA OnlyEvictRetries ==
  ASSUME TypeOK, [Next]_vars, NEW p \in Proc,
         fault[p].at = "evict", fault'[p].at = "retry"
  PROVE  Evict(p)
<1> USE DEF procVars, spaceVars, tableVars
<1>1. fault'[p] # fault[p]
  BY Zenon
<1>2. PICK q \in Proc :
        \/ Store(q) \/ PageFault(q) \/ CopyOut(q) \/ CopyMissing(q)
        \/ Handler(q) \/ SbrkLazy(q) \/ SbrkEager(q) \/ SbrkShrink(q)
        \/ Fork(q) \/ Exec(q) \/ Exit(q) \/ Wait(q) \/ Kill(q)
  BY <1>1, Zenon DEF Next, vars
<1>3. PageFault(q) \/ CopyMissing(q) \/ Handler(q) \/ Exit(q)
  BY <1>1, <1>2, ZenonT(60) DEF Store, CopyOut, SbrkLazy, SbrkEager,
     SbrkShrink,
                                Fork, Exec, Wait, Kill, Halt
<1>4. CASE PageFault(q)
  <2>1. PICK a, acc, c : TrapInvalid(q, a, acc, c) \/ TrapMapped(q, a, acc, c)
                           \/ TrapMissing(q, a, acc, c)
    BY Zenon, <1>4 DEF PageFault
  <2>2. \/ Resumed(q) \/ KillSelf(q)
        \/ fault' = [fault EXCEPT ![q] = StartFault("trap", a, c, acc = "write")]
    BY <2>1, Zenon DEF TrapInvalid, TrapMapped, TrapMissing
  <2>3. q = p
    BY <1>1, <2>2, OthersHandle, Zenon
  <2> QED BY <1>4, <2>3, Zenon DEF PageFault, Running
<1>5. CASE CopyMissing(q)
  <2>1. \E r : fault' = [fault EXCEPT ![q] = r]
    BY <1>5, Zenon DEF CopyMissing
  <2>2. q = p
    BY <1>1, <2>1, OthersHandle, Zenon
  <2> QED BY <1>5, <2>2, Zenon DEF CopyMissing, InCall, Running
<1>6. CASE Exit(q)
  <2>1. q = p
    BY <1>1, <1>6, OthersHandle, Zenon DEF Exit
  <2> QED BY <1>6, <2>1, Zenon DEF Exit
<1>7. CASE Kalloc(q)
  <2>1. \E r : fault' = [fault EXCEPT ![q] = r]
    BY <1>7, Zenon DEF Kalloc
  <2>2. q = p
    BY <1>1, <2>1, OthersHandle, Zenon
  <2> QED BY Zenon, <1>7, <2>2 DEF Kalloc, AtStep
<1>8. CASE MemFull(q) \/ NoVictim(q) \/ RetryFails(q)
  <2>1. q = p
    BY <1>1, <1>8, OthersHandle, Zenon DEF MemFull, NoVictim, RetryFails
  <2>2. NoVictim(p)
    BY Zenon, <1>8, <2>1 DEF MemFull, RetryFails, AtStep
  <2> QED BY Zenon, <2>2 DEF NoVictim, KillSelf, Resume, Idle, TypeOK
<1>9. CASE Evict(q)
  <2>1. PICK va : \/ EvictStale(q, va) \/ EvictClean(q, va)
                  \/ EvictDirty(q, va) \/ SwapFull(q, va)
    BY Zenon, <1>9 DEF Evict
  <2>2. q = p
    BY <1>1, <2>1, OthersHandle, ZenonT(60)
       DEF EvictStale, EvictClean, EvictDirty, SwapFull
  <2> QED BY Zenon, <1>9, <2>2
<1>10. CASE LoadTrap(q) \/ LoadCopy(q) \/ LoadFails(q)
  <2>1. Resumed(q) \/ FaultFails(q)
    BY <1>10, Zenon DEF LoadTrap, LoadCopy, LoadFails
  <2>2. q = p
    BY <1>1, <2>1, OthersHandle, Zenon
  <2>3. fault[p].at = "load"
    BY <1>10, <2>2, Zenon DEF LoadTrap, LoadCopy, LoadFails, AtStep
  <2> QED BY Zenon, <2>3
<1> QED
  BY <1>3, <1>4, <1>5, <1>6, <1>7, <1>8, <1>9, <1>10, Zenon DEF Handler

\* A step that gives frames back: what it frees is no longer mapped nor held.
LEMMA FramesReleased ==
  ASSUME TypeOK, FramesExclusive, NoNewFrame, NEW fs \in SUBSET Frame,
         free' = free \cup fs,
         \A q \in Proc, b \in Page : pt'[q][b] \in {pt[q][b], NoFrame} \ fs,
         \A q \in Proc : fault'[q].at = "load" => fault[q].frame \notin fs
  PROVE  FramesExclusive'
<1>1. \A q \in Proc, b \in Page : pt'[q][b] = pt[q][b] \/ pt'[q][b] = NoFrame
  BY Zenon
<1>2. NoFrame \notin Frame
  BY LayoutAssumption, SMTT(30)
<1>3. (\A p, q \in Proc, a, b \in Page :
         pt[p][a] = pt[q][b] /\ pt[p][a] # NoFrame => p = q /\ a = b)'
  BY <1>1, SMTT(30) DEF FramesExclusive
<1>4. (\A p \in Proc, a \in Page : pt[p][a] \notin free)'
  <2>1. NoFrame \notin free /\ NoFrame \notin fs
    BY <1>2, SMTT(30) DEF TypeOK
  <2>2. \A q \in Proc, b \in Page : pt[q][b] \notin free
    BY SMTT(30) DEF FramesExclusive
  <2>3. \A q \in Proc, b \in Page : pt'[q][b] \notin fs
    BY SMTT(30)
  <2> QED BY <1>1, <2>1, <2>2, <2>3, SMTT(30)
<1>5. (\A p \in Proc : fault[p].at = "load" =>
         /\ fault[p].frame \in Frame \ free
         /\ \A q \in Proc, a \in Page : pt[q][a] # fault[p].frame
         /\ \A q \in Proc : fault[q].at = "load"
                               /\ fault[q].frame = fault[p].frame => p = q)'
  BY <1>1, <1>2, SMTT(30) DEF FramesExclusive, NoNewFrame
<1> QED BY Zenon, <1>3, <1>4, <1>5 DEF FramesExclusive

\* A step that changes neither page tables nor the free list.
LEMMA FramesSame ==
  ASSUME TypeOK, FramesExclusive, NoNewFrame, UNCHANGED <<pt, free>>
  PROVE  FramesExclusive'
BY DEF FramesExclusive, NoNewFrame

\* mappages() of a frame that the running process holds or has just taken
\* from the free list.
LEMMA FramesMapped ==
  ASSUME TypeOK, FramesExclusive, NoNewFrame,
         NEW p \in Proc, NEW a \in Page, NEW f \in Frame,
         pt' = [pt EXCEPT ![p][a] = f], free' = free \ {f},
         \A q \in Proc, b \in Page : pt[q][b] # f,
         \A q \in Proc : fault'[q].at = "load" => fault[q].frame # f
  PROVE  FramesExclusive'
<1>1. \A q \in Proc, b \in Page :
        pt'[q][b] = IF q = p /\ b = a THEN f ELSE pt[q][b]
  BY Zenon DEF TypeOK
<1>2. (\A q, r \in Proc, c, b \in Page :
         pt[q][c] = pt[r][b] /\ pt[q][c] # NoFrame => q = r /\ c = b)'
  BY <1>1 DEF FramesExclusive
<1>3. (\A q \in Proc, b \in Page : pt[q][b] \notin free)'
  BY <1>1, SMTT(30) DEF FramesExclusive
<1>4. (\A r \in Proc : fault[r].at = "load" =>
         /\ fault[r].frame \in Frame \ free
         /\ \A q \in Proc, b \in Page : pt[q][b] # fault[r].frame
         /\ \A q \in Proc : fault[q].at = "load"
                               /\ fault[q].frame = fault[r].frame => r = q)'
  BY <1>1, SMTT(30) DEF FramesExclusive, NoNewFrame
<1> QED BY <1>2, <1>3, <1>4, SMTT(30) DEF FramesExclusive

\* An Injection hands out different frames, as in fork and Init.
LEMMA InjectionType ==
  ASSUME NEW S, NEW T, NEW g \in Injection(S, T)
  PROVE  /\ g \in [S -> T]
         /\ \A x, y \in S : g[x] = g[y] => x = y
BY Zenon DEF Injection, IsInjective

\* The address of a victim, under either policy, is a user page.
LEMMA VictimPage ==
  ASSUME NEW m \in VMState, NEW i \in select_victim(m.pages)
  PROVE  m.pages[i].va \in Page
<1>1. i \in Index
  BY Zenon DEF select_victim, select_victim_fifo_index,
         select_victim_cleanfifo_index, OldestOf, Resident
<1> QED BY Zenon, <1>1 DEF VMState, page_stat, UVa

\* No step shares a frame, maps a free one or hands one out twice.
LEMMA FramesStep == TypeOK /\ FramesExclusive /\ [Next]_vars => FramesExclusive'
<1> SUFFICES ASSUME TypeOK, FramesExclusive, [Next]_vars
             PROVE  FramesExclusive'
  BY Zenon
<1> USE DEF procVars, spaceVars, tableVars
<1>0. ASSUME UNCHANGED <<pt, fault, free>> PROVE FramesExclusive'
  BY <1>0, FramesSame, SMTT(30) DEF NoNewFrame
<1>1. ASSUME NEW p \in Proc,
             Store(p) \/ CopyOut(p) \/ SbrkLazy(p) \/ Kill(p) \/ Halt
      PROVE  FramesExclusive'
  BY <1>0, <1>1, Zenon DEF Store, CopyOut, SbrkLazy, Kill, Halt
<1>2. ASSUME NEW p \in Proc, PageFault(p) PROVE FramesExclusive'
  <2>1. PICK a \in Page, acc \in Accesses, tail \in BOOLEAN :
          \/ TrapInvalid(p, a, acc, cause(p, a, tail, acc))
          \/ TrapMapped(p, a, acc, cause(p, a, tail, acc))
          \/ TrapMissing(p, a, acc, cause(p, a, tail, acc))
    BY Zenon, <1>2 DEF PageFault
  <2> DEFINE c == cause(p, a, tail, acc)
  <2> HIDE DEF c
  <2>2. free' = free
    BY <1>2, ZenonT(60) DEF PageFault
  <2>3. pt' = pt
    BY <2>1, SMTT(30) DEF TrapInvalid, TrapMapped, TrapMissing
  <2>4. NoNewFrame
    BY <2>1, FaultMoves DEF TrapInvalid, TrapMapped, TrapMissing
  <2> QED BY <2>2, <2>3, <2>4, FramesSame, SMTT(30)
<1>3. ASSUME NEW p \in Proc, CopyMissing(p) PROVE FramesExclusive'
  <2>1. NoNewFrame
    BY <1>3, FaultMoves, ZenonT(60) DEF CopyMissing
  <2> QED BY Zenon, <1>3, <2>1, FramesSame DEF CopyMissing
<1>4. ASSUME NEW p \in Proc, Kalloc(p) PROVE FramesExclusive'
  <2>1. PICK f \in free :
          /\ free' = free \ {f}
          /\ fault' = [fault EXCEPT ![p].at = "load", ![p].frame = f]
    BY <1>4, Zenon DEF Kalloc
  <2>2. pt' = pt
    BY Zenon, <1>4 DEF Kalloc
  <2>3. \A q \in Proc : q # p => fault'[q] = fault[q]
    BY Zenon, <2>1 DEF TypeOK
  <2>4. fault'[p].at = "load" /\ fault'[p].frame = f
    BY <2>1 DEF TypeOK, Fault
  <2>5. f \in Frame /\ fault[p].at # "load" /\ free' = free \ {f}
    BY <1>4, <2>1, SMTT(30) DEF Kalloc, AtStep, TypeOK
  <2>6. (\A q \in Proc : fault[q].at = "load" =>
           /\ fault[q].frame \in Frame \ free
           /\ \A r \in Proc, a \in Page : pt[r][a] # fault[q].frame
           /\ \A r \in Proc : fault[r].at = "load"
                                 /\ fault[r].frame = fault[q].frame => q = r)'
    BY <2>2, <2>3, <2>4, <2>5, SMTT(30) DEF FramesExclusive
  <2>7. (\A q, r \in Proc, a, b \in Page :
           pt[q][a] = pt[r][b] /\ pt[q][a] # NoFrame => q = r /\ a = b)'
    BY <2>2, SMTT(30) DEF FramesExclusive
  <2>8. (\A q \in Proc, a \in Page : pt[q][a] \notin free)'
    BY Zenon, <2>2, <2>5 DEF FramesExclusive
  <2> QED BY <2>6, <2>7, <2>8, Zenon DEF FramesExclusive
<1>5. ASSUME NEW p \in Proc, MemFull(p) PROVE FramesExclusive'
  <2>1. NoNewFrame
    BY Zenon, <1>5, FaultMoves DEF MemFull
  <2> QED BY Zenon, <1>5, <2>1, FramesSame DEF MemFull
<1>6. ASSUME NEW p \in Proc, NoVictim(p) \/ RetryFails(p)
      PROVE  FramesExclusive'
  <2>1. NoNewFrame
    BY <1>6, FaultMoves, SMTT(30) DEF NoVictim, RetryFails
  <2> QED BY <1>6, <2>1, FramesSame, SMTT(30) DEF NoVictim, RetryFails
<1>7. ASSUME NEW p \in Proc, Evict(p) PROVE FramesExclusive'
  <2>1. PICK i \in select_victim(vm[p].pages) :
          \/ EvictStale(p, vm[p].pages[i].va)
          \/ EvictClean(p, vm[p].pages[i].va)
          \/ EvictDirty(p, vm[p].pages[i].va)
          \/ SwapFull(p, vm[p].pages[i].va)
    BY Zenon, <1>7 DEF Evict
  <2> DEFINE va == vm[p].pages[i].va
  <2>2. va \in Page
    BY Zenon, VictimPage DEF TypeOK
  <2> HIDE DEF va
  <2>3. NoNewFrame
    BY <2>1, FaultMoves, ZenonT(60) DEF EvictStale, EvictClean, EvictDirty,
       SwapFull
  <2>4. CASE EvictStale(p, va) \/ SwapFull(p, va)
    BY <2>3, <2>4, FramesSame, SMTT(30) DEF EvictStale, SwapFull
  <2>5. CASE EvictClean(p, va) \/ EvictDirty(p, va)
    <3>1. UnmapVictim(p, va) /\ ismapped(p, va)
      BY Zenon, <2>5 DEF EvictClean, EvictDirty
    <3>2. pt[p][va] \in Frame
      BY <2>2, <3>1, SMTT(30) DEF ismapped, TypeOK
    <3>3. \A q \in Proc, b \in Page :
            pt'[q][b] = IF q = p /\ b = va THEN NoFrame ELSE pt[q][b]
      BY <2>2, <3>1, SMTT(30) DEF UnmapVictim, TypeOK
    <3>4. \A q \in Proc, b \in Page :
            pt'[q][b] \in {pt[q][b], NoFrame} \ {pt[p][va]}
      <4>1. NoFrame # pt[p][va]
        BY Zenon, <3>2, LayoutAssumption
      <4>2. \A q \in Proc, b \in Page : pt[q][b] = pt[p][va] => q = p /\ b = va
        BY <2>2, <4>1, SMTT(30) DEF FramesExclusive
      <4> QED BY <3>3, <4>1, <4>2, ZenonT(60)
    <3>5. \A q \in Proc : fault'[q].at = "load"
            => fault[q].frame \notin {pt[p][va]}
      BY <2>2, <2>3 DEF NoNewFrame, FramesExclusive
    <3>6. free' = free \cup {pt[p][va]}
      BY Zenon, <3>1 DEF UnmapVictim, kfree
    <3> QED BY <2>3, <3>2, <3>4, <3>5, <3>6, FramesReleased, ZenonT(60)
  <2> QED BY <2>1, <2>4, <2>5, SMTT(30) DEF va
<1>8. ASSUME NEW p \in Proc, LoadTrap(p) \/ LoadCopy(p) PROVE FramesExclusive'
  <2> DEFINE a == fault[p].va
             f == fault[p].frame
  <2>1. fault[p].at = "load" /\ a \in Page
    BY <1>8, Zenon DEF LoadTrap, LoadCopy, AtStep, TypeOK, Fault
  <2>2. f \in Frame \ free /\ \A q \in Proc, b \in Page : pt[q][b] # f
    BY <2>1, SMTT(30) DEF FramesExclusive
  <2>3. NoNewFrame /\ fault'[p].at # "load"
    BY <1>8, FaultMoves, ZenonT(60) DEF LoadTrap, LoadCopy
  <2>4. \A q \in Proc : fault'[q].at = "load" => fault[q].frame # f
    BY <2>1, <2>3, ZenonT(60) DEF NoNewFrame, FramesExclusive
  <2>5. pt' = [pt EXCEPT ![p][a] = f]
    BY <1>8, ZenonT(60) DEF LoadTrap, LoadAnon, LoadSwap, LoadExec, LoadCopy,
       Map
  <2>6. free' = free \ {f}
    BY <1>8, <2>2, ZenonT(60) DEF LoadTrap, LoadCopy
  <2> HIDE DEF a, f
  <2> QED BY <2>1, <2>2, <2>3, <2>4, <2>5, <2>6, FramesMapped, ZenonT(60)
<1>9. ASSUME NEW p \in Proc, LoadFails(p) PROVE FramesExclusive'
  <2> DEFINE f == fault[p].frame
  <2>1. fault[p].at = "load"
    BY <1>9, SMTT(30) DEF LoadFails, AtStep
  <2>2. f \in Frame \ free /\ \A q \in Proc, b \in Page : pt[q][b] # f
    BY <2>1, SMTT(30) DEF FramesExclusive
  <2>3. NoNewFrame /\ fault'[p].at # "load"
    BY <1>9, FaultMoves, SMTT(30) DEF LoadFails
  <2>4. \A q \in Proc : fault'[q].at = "load" => fault[q].frame \notin {f}
    BY <2>1, <2>3, SMTT(30) DEF NoNewFrame, FramesExclusive
  <2>5. pt' = pt /\ free' = free \cup {f}
    BY <1>9, ZenonT(60) DEF LoadFails, kfree
  <2>6. \A q \in Proc, b \in Page : pt'[q][b] \in {pt[q][b], NoFrame} \ {f}
    BY Zenon, <2>2, <2>5
  <2> HIDE DEF f
  <2> QED BY <2>2, <2>3, <2>4, <2>5, <2>6, FramesReleased, ZenonT(60)
<1>10. ASSUME NEW p \in Proc, SbrkEager(p) PROVE FramesExclusive'
  <2>1. PICK f \in free :
          \/ /\ free' = free \ {f}
             /\ Map(p, sz[p], f, {"U", "W"})
             /\ UNCHANGED fault
          \/ Halt
    BY Zenon, <1>10 DEF SbrkEager
  <2>2. CASE ~Halt
    <3>1. sz[p] \in Page /\ f \in Frame
      BY <1>10, SizesAssumption DEF SbrkEager, TypeOK, Page
    <3>2. pt' = [pt EXCEPT ![p][sz[p]] = f] /\ free' = free \ {f}
      BY Zenon, <2>1, <2>2 DEF Map
    <3>3. NoNewFrame
      BY <2>1, <2>2, SMTT(30) DEF NoNewFrame
    <3>4. /\ \A q \in Proc, b \in Page : pt[q][b] # f
          /\ \A q \in Proc : fault'[q].at = "load" => fault[q].frame # f
      BY <3>3, SMTT(30) DEF FramesExclusive, NoNewFrame
    <3> QED BY <3>1, <3>2, <3>3, <3>4, FramesMapped, ZenonT(60)
  <2> QED BY <1>1, <1>10, <2>2, SMTT(30)
<1>11. ASSUME NEW p \in Proc, NEW gone \in SUBSET Page,
              pt' = [pt EXCEPT ![p] =
                       [a \in Page |-> IF a \in gone THEN NoFrame ELSE @[a]]],
              free' = free \cup ({pt[p][a] : a \in gone} \ {NoFrame}),
              UNCHANGED fault
       PROVE  FramesExclusive'
  <2> DEFINE fs == {pt[p][a] : a \in gone} \ {NoFrame}
  <2>1. fs \in SUBSET Frame
    BY DEF TypeOK
  <2>2. NoNewFrame
    BY <1>11, SMTT(30) DEF NoNewFrame
  <2>3. \A q \in Proc, b \in Page :
          pt'[q][b] = IF q = p /\ b \in gone THEN NoFrame ELSE pt[q][b]
    BY <1>11, ZenonT(60) DEF TypeOK
  <2>4. \A q \in Proc, b \in Page : pt'[q][b] \in {pt[q][b], NoFrame} \ fs
    BY <2>3, SMTT(30) DEF FramesExclusive
  <2>5. \A q \in Proc : fault'[q].at = "load" => fault[q].frame \notin fs
    BY <2>2 DEF NoNewFrame, FramesExclusive
  <2>6. free' = free \cup fs
    BY <1>11, SMTT(30)
  <2> HIDE DEF fs
  <2> QED BY <2>1, <2>2, <2>4, <2>5, <2>6, FramesReleased, SMTT(30)
<1>12. ASSUME NEW p \in Proc, SbrkShrink(p) PROVE FramesExclusive'
  <2>1. PICK n \in 1 .. sz[p] :
          LET gone == {a \in Page : sz[p] - n <= a /\ a < sz[p]}
          IN  /\ pt' = [pt EXCEPT ![p] =
                          [a \in Page |-> IF a \in gone THEN NoFrame ELSE @[a]]]
              /\ kfree({pt[p][a] : a \in gone} \ {NoFrame})
    BY <1>12, ZenonT(60) DEF SbrkShrink
  <2> DEFINE gone == {a \in Page : sz[p] - n <= a /\ a < sz[p]}
  <2>2. /\ gone \in SUBSET Page
        /\ pt' = [pt EXCEPT ![p] =
                    [a \in Page |-> IF a \in gone THEN NoFrame ELSE @[a]]]
        /\ free' = free \cup ({pt[p][a] : a \in gone} \ {NoFrame})
    BY <2>1, SMTT(30) DEF kfree
  <2>3. UNCHANGED fault
    BY <1>12, Zenon DEF SbrkShrink
  <2> HIDE DEF gone
  <2> QED BY <1>11, <2>2, <2>3, SMTT(30)
<1>13. ASSUME NEW p \in Proc, Wait(p) PROVE FramesExclusive'
  <2>1. CASE ~Halt
    <3>1. /\ pt' = [pt EXCEPT ![p] = [a \in Page |-> NoFrame]]
          /\ free' = free \cup FramesOf(p)
          /\ UNCHANGED fault
      BY Zenon, <1>13, <2>1 DEF Wait, kfree
    <3>2. pt' = [pt EXCEPT ![p] =
                   [a \in Page |-> IF a \in Page THEN NoFrame ELSE @[a]]]
      BY <3>1, ZenonT(60)
    <3> QED BY <1>11, <3>1, <3>2, ZenonT(60) DEF FramesOf
  <2> QED BY <1>1, <1>13, <2>1, SMTT(30)
<1>14. ASSUME NEW p \in Proc, Exit(p) PROVE FramesExclusive'
  <2>1. NoNewFrame
    BY Zenon, <1>14 DEF Exit, Idle, NoNewFrame, TypeOK
  <2> QED BY Zenon, <1>14, <2>1, FramesSame DEF Exit
<1>15. ASSUME NEW p \in Proc, Fork(p) PROVE FramesExclusive'
  <2> DEFINE copied == {a \in Page : a < sz[p] /\ ismapped(p, a)}
  <2>1. PICK c \in Proc, g \in Injection(copied, free) :
          /\ free' = free \ {g[a] : a \in copied}
          /\ pt' = [pt EXCEPT ![c] =
                [a \in Page |-> IF a \in copied THEN g[a] ELSE NoFrame]]
    BY <1>15, ZenonT(60) DEF Fork
  <2>2. /\ g \in [copied -> free]
        /\ \A a, b \in copied : g[a] = g[b] => a = b
    BY InjectionType
  <2>3. fault' = fault
    BY Zenon, <1>15 DEF Fork
  <2> HIDE DEF copied
  <2>4. \A q \in Proc, b \in Page :
          pt'[q][b] = IF q # c THEN pt[q][b]
                      ELSE IF b \in copied THEN g[b] ELSE NoFrame
    BY <2>1, ZenonT(60) DEF TypeOK
  <2>5. free \subseteq Frame /\ NoFrame \notin Frame
    BY LayoutAssumption, SMTT(30) DEF TypeOK
  <2>6. (\A q, r \in Proc, a, b \in Page :
           pt[q][a] = pt[r][b] /\ pt[q][a] # NoFrame => q = r /\ a = b)'
    BY <2>2, <2>4, <2>5, SMTT(30) DEF FramesExclusive
  <2>7. (\A q \in Proc, a \in Page : pt[q][a] \notin free)'
    BY <2>1, <2>2, <2>4, <2>5, SMTT(30) DEF FramesExclusive
  <2>8. (\A q \in Proc : fault[q].at = "load" =>
           /\ fault[q].frame \in Frame \ free
           /\ \A r \in Proc, a \in Page : pt[r][a] # fault[q].frame
           /\ \A r \in Proc : fault[r].at = "load"
                                 /\ fault[r].frame = fault[q].frame => q = r)'
    BY <2>1, <2>2, <2>3, <2>4, <2>5, SMTT(30) DEF FramesExclusive
  <2> QED BY <2>6, <2>7, <2>8, ZenonT(60) DEF FramesExclusive
<1>16. ASSUME NEW p \in Proc, Exec(p) PROVE FramesExclusive'
  <2>1. PICK i \in Image, g \in free, s \in free :
          \/ /\ g # s
             /\ pt' = [pt EXCEPT ![p] = ExecTable(i, g, s)]
             /\ free' = (free \ {g, s}) \cup FramesOf(p)
             /\ UNCHANGED fault
          \/ Halt
    BY <1>16, SMTT(30) DEF Exec
  <2>2. CASE ~Halt
    <3>1. /\ g # s /\ fault' = fault
          /\ free' = (free \ {g, s}) \cup FramesOf(p)
          /\ pt' = [pt EXCEPT ![p] = ExecTable(i, g, s)]
      BY <2>1, <2>2, SMTT(30)
    <3>2. \A q \in Proc, b \in Page :
            pt'[q][b] = IF q # p THEN pt[q][b]
                        ELSE IF b = StackPage[i] - 1 THEN g
                        ELSE IF b = StackPage[i] THEN s ELSE NoFrame
      BY Zenon, <3>1 DEF ExecTable, TypeOK
    <3>3. StackPage[i] \in Int
      BY LayoutAssumption, SMTT(30) DEF Page
    <3>4. free \subseteq Frame /\ NoFrame \notin Frame
      BY LayoutAssumption, SMTT(30) DEF TypeOK
    <3>5. (\A q, r \in Proc, a, b \in Page :
             pt[q][a] = pt[r][b] /\ pt[q][a] # NoFrame => q = r /\ a = b)'
      <4>0. \A q \in Proc, a \in Page : pt[q][a] \notin free
        BY FramesParts, Zenon
      <4>1. \A q \in Proc, a \in Page : pt[q][a] # g /\ pt[q][a] # s
        BY <4>0, SMTT(30)
      <4>2. \A q, r \in Proc, a, b \in Page :
              pt[q][a] = pt[r][b] /\ pt[q][a] # NoFrame => q = r /\ a = b
        BY Zenon, FramesParts
      <4> QED BY <3>1, <3>2, <3>3, <4>1, <4>2, SMTT(30)
    <3>6. (\A q \in Proc, a \in Page : pt[q][a] \notin free)'
      <4>1. \A q \in Proc, a \in Page : pt[q][a] \notin free
        BY FramesParts, SMTT(30)
      <4>2. \A q \in Proc, a \in Page :
              q # p => pt[q][a] \notin FramesOf(p)
        BY FramesParts DEF FramesOf
      <4>3. /\ NoFrame \notin free /\ NoFrame \notin FramesOf(p)
            /\ g \notin FramesOf(p) /\ s \notin FramesOf(p)
        BY <3>4, <4>1, SMTT(30) DEF FramesOf
      <4> QED BY <3>1, <3>2, <4>1, <4>2, <4>3, SMTT(30)
    <3>7. (\A q \in Proc : fault[q].at = "load" =>
             /\ fault[q].frame \in Frame \ free
             /\ \A r \in Proc, a \in Page : pt[r][a] # fault[q].frame
             /\ \A r \in Proc : fault[r].at = "load"
                                   /\ fault[r].frame = fault[q].frame => q = r)'
      <4>0. fault' = fault
        BY <3>1, SMTT(30)
      <4> SUFFICES ASSUME NEW q \in Proc, fault[q].at = "load"
                   PROVE  /\ fault[q].frame \in Frame \ free'
                          /\ \A r \in Proc, a \in Page : pt'[r][a] # fault[q].frame
                          /\ \A r \in Proc : fault[r].at = "load"
                                /\ fault[r].frame = fault[q].frame => q = r
        BY <4>0, SMTT(30)
      <4> DEFINE f == fault[q].frame
      <4>1. /\ f \in Frame /\ f \notin free
            /\ \A r \in Proc, a \in Page : pt[r][a] # f
            /\ \A r \in Proc : fault[r].at = "load" /\ fault[r].frame = f => q = r
        BY Zenon, FramesParts
      <4> HIDE DEF f
      <4>2. f \notin FramesOf(p) /\ f # NoFrame
        BY <3>4, <4>1, SMTT(30) DEF FramesOf
      <4>3. f \notin free'
        BY <3>1, <4>1, <4>2, SMTT(30)
      <4>4. \A r \in Proc, a \in Page : pt'[r][a] # f
        BY <3>2, <4>1, <4>2, SMTT(30)
      <4> QED BY Zenon, <4>1, <4>3, <4>4 DEF f
    <3> QED BY Zenon, <3>5, <3>6, <3>7 DEF FramesExclusive
  <2> QED BY <1>1, <1>16, <2>2, SMTT(30)
<1> QED
  BY Zenon, <1>0, <1>1, <1>2, <1>3, <1>4, <1>5, <1>6, <1>7, <1>8, <1>9, <1>10,
     <1>12,
     <1>13, <1>14, <1>15, <1>16, SMTT(30) DEF Next, Handler, vars

\* Initially the processes of the system have frames of their own.
LEMMA InitFrames == Init => FramesExclusive
<1> SUFFICES ASSUME Init PROVE FramesExclusive
  BY Zenon
<1>1. PICK g \in Injection(Started, Frame), s \in Injection(Started, Frame) :
        /\ \A p, q \in Started : g[p] # s[q]
        /\ pt = [p \in Proc |-> IF p \in Started
                                THEN ExecTable(Boot, g[p], s[p])
                                ELSE [a \in Page |-> NoFrame]]
        /\ free = {f \in Frame : \A p \in Started : f # g[p] /\ f # s[p]}
  BY Zenon DEF Init
<1>2. /\ g \in [Started -> Frame] /\ s \in [Started -> Frame]
      /\ \A p, q \in Started : g[p] = g[q] => p = q
      /\ \A p, q \in Started : s[p] = s[q] => p = q
  BY Zenon, InjectionType
<1>3. \A p \in Proc, b \in Page :
        pt[p][b] = IF p \notin Started THEN NoFrame
                   ELSE IF b = StackPage[Boot] - 1 THEN g[p]
                   ELSE IF b = StackPage[Boot] THEN s[p] ELSE NoFrame
  BY Zenon, <1>1 DEF ExecTable
<1>4. NoFrame \notin Frame /\ StackPage[Boot] \in Int
  BY LayoutAssumption, SMTT(30) DEF Page
<1>5. \A p \in Proc : fault[p].at # "load"
  BY Zenon DEF Init, Idle
<1>6. \A p, q \in Proc, a, b \in Page :
        pt[p][a] = pt[q][b] /\ pt[p][a] # NoFrame => p = q /\ a = b
  <2>1. \A p, q \in Started : g[p] # s[q]
    BY Zenon, <1>1
  <2>2. \A p \in Proc, a \in Page : pt[p][a] # NoFrame =>
          /\ p \in Started
          /\ \/ a = StackPage[Boot] - 1 /\ pt[p][a] = g[p]
             \/ a = StackPage[Boot] /\ pt[p][a] = s[p]
    BY <1>3, SMTT(30)
  <2> QED BY <1>2, <2>1, <2>2
<1>7. \A p \in Proc, a \in Page : pt[p][a] \notin free
  BY Zenon, <1>1, <1>2, <1>3, <1>4
<1> QED BY <1>5, <1>6, <1>7, SMTT(30) DEF FramesExclusive
-----------------------------------------------------------------------------
(* No frame is lost. *)

\* A free slot of the process table has no memory: freeproc() took it.
UnusedEmpty ==
  \A p \in Proc : pstate[p] = "UNUSED" => \A a \in Page : pt[p][a] = NoFrame

\* Every handler keeps the frame that it holds, unless it is in fs.
HoldsOn(fs) ==
  \A q \in Proc : fault[q].at = "load" =>
    \/ fault[q].frame \in fs
    \/ fault'[q].at = "load" /\ fault'[q].frame = fault[q].frame

\* Such a step keeps the frames of handlers, except its own.
LEMMA OthersHoldOn ==
  ASSUME NEW p \in Proc, \A q \in Proc \ {p} : fault'[q] = fault[q]
  PROVE  /\ fault[p].at # "load" => HoldsOn({})
         /\ HoldsOn({fault[p].frame})
BY Zenon DEF HoldsOn

\* A step that gives frames back, or none: what it unmaps it frees.
LEMMA NotLostReleased ==
  ASSUME FramesNotLost, NEW fs, free' = free \cup fs, HoldsOn(fs),
         \A q \in Proc, b \in Page :
           pt'[q][b] = pt[q][b] \/ pt[q][b] \in fs \cup {NoFrame}
  PROVE  FramesNotLost'
<1>1. NoFrame \notin Frame
  BY Zenon, LayoutAssumption
<1> QED BY <1>1, SMTT(30) DEF FramesNotLost, HoldsOn

\* A step that maps a frame where none was.
LEMMA NotLostMapped ==
  ASSUME TypeOK, FramesNotLost, NEW p \in Proc, NEW a \in Page, NEW f,
         pt' = [pt EXCEPT ![p][a] = f], pt[p][a] = NoFrame,
         free \subseteq free' \cup {f}, HoldsOn({f})
  PROVE  FramesNotLost'
<1>1. NoFrame \notin Frame
  BY Zenon, LayoutAssumption
<1>2. \A q \in Proc, b \in Page :
        pt'[q][b] = IF q = p /\ b = a THEN f ELSE pt[q][b]
  BY Zenon DEF TypeOK
<1> QED BY <1>1, <1>2, SMTT(30) DEF FramesNotLost, HoldsOn

\* No step loses a frame: every error path of the fault handler, fork, exec
\* and wait give back what they unmap, and no mapping is overwritten.
LEMMA NotLostStep ==
  TypeOK /\ FramesNotLost /\ UnusedEmpty /\ FaultPageStaysUnmapped /\ [Next]_vars
    => FramesNotLost'
<1> SUFFICES ASSUME TypeOK, FramesNotLost, UnusedEmpty,
                    FaultPageStaysUnmapped, [Next]_vars
             PROVE  FramesNotLost'
  BY Zenon
<1> USE DEF procVars, spaceVars, tableVars
<1>0. ASSUME UNCHANGED <<pt, free>>, HoldsOn({}) PROVE FramesNotLost'
  BY Zenon, <1>0, NotLostReleased
<1>1. ASSUME UNCHANGED <<pt, fault, free>> PROVE FramesNotLost'
  BY Zenon, <1>1 DEF FramesNotLost
<1>2. ASSUME NEW p \in Proc,
             Store(p) \/ CopyOut(p) \/ SbrkLazy(p) \/ Kill(p) \/ Halt
      PROVE  FramesNotLost'
  BY <1>1, <1>2, Zenon DEF Store, CopyOut, SbrkLazy, Kill, Halt
<1>3. ASSUME NEW p \in Proc, PageFault(p) PROVE FramesNotLost'
  <2>1. PICK a \in Page, acc \in Accesses, tail \in BOOLEAN :
          \/ TrapInvalid(p, a, acc, cause(p, a, tail, acc))
          \/ TrapMapped(p, a, acc, cause(p, a, tail, acc))
          \/ TrapMissing(p, a, acc, cause(p, a, tail, acc))
    BY Zenon, <1>3 DEF PageFault
  <2> DEFINE c == cause(p, a, tail, acc)
  <2> HIDE DEF c
  <2>2. free' = free /\ fault[p].at # "load"
    BY <1>3, ZenonT(60) DEF PageFault, Running
  <2>3. pt' = pt
    BY <2>1, SMTT(30) DEF TrapInvalid, TrapMapped, TrapMissing
  <2>4. \A q \in Proc \ {p} : fault'[q] = fault[q]
    <3>1. \/ Resumed(p) \/ KillSelf(p)
          \/ fault' = [fault EXCEPT ![p] =
                         StartFault("trap", a, c, acc = "write")]
      BY <2>1, Zenon DEF TrapInvalid, TrapMapped, TrapMissing, c
    <3> QED BY <3>1, OthersHandle, Zenon
  <2> QED BY <1>0, <2>2, <2>3, <2>4, OthersHoldOn, Zenon
<1>4. ASSUME NEW p \in Proc, CopyMissing(p) PROVE FramesNotLost'
  <2>1. fault[p].at # "load" /\ UNCHANGED <<pt, free>>
    BY <1>4, Zenon DEF CopyMissing, InCall, Running
  <2>2. \A q \in Proc \ {p} : fault'[q] = fault[q]
    BY <1>4, OthersHandle, Zenon DEF CopyMissing
  <2> QED BY <1>0, <2>1, <2>2, OthersHoldOn, Zenon
<1>5. ASSUME NEW p \in Proc, Kalloc(p) PROVE FramesNotLost'
  <2>1. PICK f \in free :
          /\ free' = free \ {f}
          /\ fault' = [fault EXCEPT ![p].at = "load", ![p].frame = f]
    BY <1>5, Zenon DEF Kalloc
  <2>2. pt' = pt /\ fault[p].at # "load"
    BY <1>5, Zenon DEF Kalloc, AtStep
  <2>3. \A q \in Proc : q # p => fault'[q] = fault[q]
    BY Zenon, <2>1 DEF TypeOK
  <2>4. fault'[p].at = "load" /\ fault'[p].frame = f
    BY <2>1 DEF TypeOK, Fault
  <2>5. \A q \in Proc : fault[q].at = "load" =>
          fault'[q].at = "load" /\ fault'[q].frame = fault[q].frame
    BY <2>2, <2>3, Zenon
  <2>6. \A x \in free : x \in free' \/ x = f
    BY Zenon, <2>1
  <2> QED BY <2>2, <2>4, <2>5, <2>6 DEF FramesNotLost
<1>6. ASSUME NEW p \in Proc, MemFull(p) \/ NoVictim(p) \/ RetryFails(p)
      PROVE  FramesNotLost'
  <2>1. fault[p].at # "load" /\ UNCHANGED <<pt, free>>
    BY <1>6, Zenon DEF MemFull, NoVictim, RetryFails, AtStep
  <2>2. \A q \in Proc \ {p} : fault'[q] = fault[q]
    BY <1>6, OthersHandle, Zenon DEF MemFull, NoVictim, RetryFails
  <2> QED BY <1>0, <2>1, <2>2, OthersHoldOn, Zenon
<1>7. ASSUME NEW p \in Proc, Evict(p) PROVE FramesNotLost'
  <2>1. PICK i \in select_victim(vm[p].pages) :
          \/ EvictStale(p, vm[p].pages[i].va)
          \/ EvictClean(p, vm[p].pages[i].va)
          \/ EvictDirty(p, vm[p].pages[i].va)
          \/ SwapFull(p, vm[p].pages[i].va)
    BY Zenon, <1>7 DEF Evict
  <2> DEFINE va == vm[p].pages[i].va
  <2>2. va \in Page
    BY Zenon, VictimPage DEF TypeOK
  <2> HIDE DEF va
  <2>3. \A q \in Proc \ {p} : fault'[q] = fault[q]
    BY <2>1, OthersHandle, ZenonT(60)
       DEF EvictStale, EvictClean, EvictDirty, SwapFull
  <2>4. HoldsOn({})
    BY <1>7, <2>3, OthersHoldOn, Zenon DEF Evict, AtStep
  <2>5. CASE EvictStale(p, va) \/ SwapFull(p, va)
    BY <1>0, <2>4, <2>5, Zenon DEF EvictStale, SwapFull
  <2>6. CASE EvictClean(p, va) \/ EvictDirty(p, va)
    <3>1. /\ pt' = [pt EXCEPT ![p][va] = NoFrame]
          /\ free' = free \cup {pt[p][va]}
      BY Zenon, <2>6 DEF EvictClean, EvictDirty, UnmapVictim, kfree
    <3>2. \A q \in Proc, b \in Page :
            pt'[q][b] = pt[q][b] \/ pt[q][b] \in {pt[p][va]} \cup {NoFrame}
      BY <2>2, <3>1, SMTT(30) DEF TypeOK
    <3>3. HoldsOn({pt[p][va]})
      BY Zenon, <2>4 DEF HoldsOn
    <3> QED BY <3>1, <3>2, <3>3, NotLostReleased, Zenon
  <2> QED BY <2>1, <2>5, <2>6, SMTT(30) DEF va
<1>8. ASSUME NEW p \in Proc, LoadTrap(p) \/ LoadCopy(p) PROVE FramesNotLost'
  <2> DEFINE a == fault[p].va
             f == fault[p].frame
  <2>1. a \in Page /\ pt[p][a] = NoFrame
    BY <1>8, Zenon DEF LoadTrap, LoadCopy, AtStep, TypeOK, Fault,
                       FaultPageStaysUnmapped, ismapped
  <2>2. HoldsOn({f})
    BY <1>8, OthersHandle, OthersHoldOn, ZenonT(60) DEF LoadTrap, LoadCopy
  <2>3. pt' = [pt EXCEPT ![p][a] = f]
    BY <1>8, ZenonT(60) DEF LoadTrap, LoadAnon, LoadSwap, LoadExec, LoadCopy,
       Map
  <2>4. free' = free
    BY <1>8, ZenonT(60) DEF LoadTrap, LoadCopy
  <2> HIDE DEF a, f
  <2> QED BY <2>1, <2>2, <2>3, <2>4, NotLostMapped, Zenon
<1>9. ASSUME NEW p \in Proc, LoadFails(p) PROVE FramesNotLost'
  <2>1. pt' = pt /\ free' = free \cup {fault[p].frame}
    BY <1>9, ZenonT(60) DEF LoadFails, kfree
  <2>2. HoldsOn({fault[p].frame})
    BY <1>9, OthersHandle, OthersHoldOn, ZenonT(60) DEF LoadFails
  <2> QED BY <2>1, <2>2, NotLostReleased, Zenon
<1>10. ASSUME NEW p \in Proc, SbrkEager(p) PROVE FramesNotLost'
  <2>1. PICK f \in free :
          \/ /\ ~ismapped(p, sz[p])
             /\ free' = free \ {f}
             /\ Map(p, sz[p], f, {"U", "W"})
             /\ UNCHANGED fault
          \/ Halt
    BY Zenon, <1>10 DEF SbrkEager
  <2>2. CASE ~Halt
    <3>1. sz[p] \in Page
      BY <1>10, SizesAssumption DEF SbrkEager, TypeOK, Page
    <3>2. /\ pt' = [pt EXCEPT ![p][sz[p]] = f] /\ free' = free \ {f}
          /\ pt[p][sz[p]] = NoFrame /\ fault' = fault
      BY <2>1, <2>2, Zenon DEF Map, ismapped
    <3>3. HoldsOn({f})
      BY Zenon, <3>2 DEF HoldsOn
    <3> QED BY <3>1, <3>2, <3>3, NotLostMapped, Zenon
  <2> QED BY <1>2, <1>10, <2>2, Zenon
<1>11. ASSUME NEW p \in Proc, SbrkShrink(p) PROVE FramesNotLost'
  <2>1. PICK gone \in SUBSET Page :
          /\ pt' = [pt EXCEPT ![p] =
                      [a \in Page |-> IF a \in gone THEN NoFrame ELSE @[a]]]
          /\ free' = free \cup ({pt[p][a] : a \in gone} \ {NoFrame})
    BY <1>11, ZenonT(60) DEF SbrkShrink, kfree
  <2> DEFINE fs == {pt[p][a] : a \in gone} \ {NoFrame}
  <2>2. \A q \in Proc, b \in Page :
          pt'[q][b] = IF q = p /\ b \in gone THEN NoFrame ELSE pt[q][b]
    BY <2>1, ZenonT(60) DEF TypeOK
  <2>3. HoldsOn(fs)
    BY <1>11, Zenon DEF SbrkShrink, HoldsOn
  <2> QED BY <2>1, <2>2, <2>3, NotLostReleased, SMTT(30)
<1>12. ASSUME NEW p \in Proc, Wait(p) PROVE FramesNotLost'
  <2>1. CASE ~Halt
    <3>1. /\ pt' = [pt EXCEPT ![p] = [a \in Page |-> NoFrame]]
          /\ free' = free \cup FramesOf(p)
          /\ fault' = fault
      BY Zenon, <1>12, <2>1 DEF Wait, kfree
    <3>2. \A q \in Proc, b \in Page :
            pt'[q][b] = pt[q][b] \/ pt[q][b] \in FramesOf(p) \cup {NoFrame}
      BY Zenon, <3>1 DEF FramesOf, TypeOK
    <3>3. HoldsOn(FramesOf(p))
      BY Zenon, <3>1 DEF HoldsOn
    <3> QED BY <3>1, <3>2, <3>3, NotLostReleased, Zenon
  <2> QED BY <1>2, <1>12, <2>1, Zenon
<1>13. ASSUME NEW p \in Proc, Exit(p) PROVE FramesNotLost'
  <2>1. UNCHANGED <<pt, free>> /\ fault[p].at # "load"
    BY <1>13, Zenon DEF Exit
  <2>2. \A q \in Proc \ {p} : fault'[q] = fault[q]
    BY <1>13, Zenon DEF Exit, TypeOK
  <2> QED BY <1>0, <2>1, <2>2, OthersHoldOn, Zenon
<1>14. ASSUME NEW p \in Proc, Fork(p) PROVE FramesNotLost'
  <2> DEFINE copied == {a \in Page : a < sz[p] /\ ismapped(p, a)}
  <2>1. PICK c \in Proc, g \in Injection(copied, free) :
          /\ pstate[c] = "UNUSED"
          /\ free' = free \ {g[a] : a \in copied}
          /\ pt' = [pt EXCEPT ![c] =
                [a \in Page |-> IF a \in copied THEN g[a] ELSE NoFrame]]
    BY <1>14, ZenonT(60) DEF Fork
  <2>2. fault' = fault
    BY Zenon, <1>14 DEF Fork
  <2>3. copied \subseteq Page
    BY Zenon
  <2> HIDE DEF copied
  <2>4. \A q \in Proc, b \in Page :
          pt'[q][b] = IF q # c THEN pt[q][b]
                      ELSE IF b \in copied THEN g[b] ELSE NoFrame
    BY <2>1, ZenonT(60) DEF TypeOK
  <2>5. \A b \in Page : pt[c][b] = NoFrame
    BY Zenon, <2>1 DEF UnusedEmpty
  <2>6. NoFrame \notin Frame
    BY Zenon, LayoutAssumption
  <2> QED BY <2>1, <2>2, <2>3, <2>4, <2>5, <2>6, SMTT(30) DEF FramesNotLost
<1>15. ASSUME NEW p \in Proc, Exec(p) PROVE FramesNotLost'
  <2>1. PICK i \in Image, g \in free, s \in free :
          \/ /\ g # s
             /\ pt' = [pt EXCEPT ![p] = ExecTable(i, g, s)]
             /\ free' = (free \ {g, s}) \cup FramesOf(p)
             /\ UNCHANGED fault
          \/ Halt
    BY <1>15, SMTT(30) DEF Exec
  <2>2. CASE ~Halt
    <3>1. \A q \in Proc, b \in Page :
            pt'[q][b] = IF q # p THEN pt[q][b]
                        ELSE IF b = StackPage[i] - 1 THEN g
                        ELSE IF b = StackPage[i] THEN s ELSE NoFrame
      BY <2>1, <2>2 DEF ExecTable, TypeOK
    <3>2. StackPage[i] \in Page /\ StackPage[i] - 1 \in Page
      <4>1. StackPage[i] \in Page \ {0}
        BY LayoutAssumption, Zenon
      <4> QED BY <4>1, SizesAssumption DEF Page
    <3>3. pt'[p][StackPage[i] - 1] = g /\ pt'[p][StackPage[i]] = s
      BY <3>1, <3>2 DEF Page
    <3>4. NoFrame \notin Frame
      BY Zenon, LayoutAssumption
    <3>5. \A b \in Page : pt[p][b] \in FramesOf(p) \cup {NoFrame}
      BY Zenon DEF FramesOf
    <3> QED BY <2>1, <2>2, <3>1, <3>2, <3>3, <3>4, <3>5, SMTT(30)
            DEF FramesNotLost
  <2> QED BY <1>2, <1>15, <2>2, Zenon
<1> QED
  BY Zenon, <1>1, <1>2, <1>3, <1>4, <1>5, <1>6, <1>7, <1>8, <1>9, <1>10,
     <1>11, <1>12,
     <1>13, <1>14, <1>15, Zenon DEF Next, Handler, vars
\* Only wait() empties a slot, and it takes all memory with it; only a live
\* process gets memory.
LEMMA UnusedStep == TypeOK /\ UnusedEmpty /\ [Next]_vars => UnusedEmpty'
<1> SUFFICES ASSUME TypeOK, UnusedEmpty, [Next]_vars PROVE UnusedEmpty'
  BY Zenon
<1> USE DEF procVars, spaceVars, tableVars
<1>0. ASSUME UNCHANGED <<pt, pstate>> PROVE UnusedEmpty'
  BY <1>0, Zenon DEF UnusedEmpty
<1>1. ASSUME NEW p \in Proc, pstate[p] = "LIVE", pstate' = pstate,
             \E r : pt' = [pt EXCEPT ![p] = r]
      PROVE  UnusedEmpty'
  <2>1. \A q \in Proc : q # p => pt'[q] = pt[q]
    BY <1>1, Zenon DEF TypeOK
  <2> QED BY Zenon, <1>1, <2>1 DEF UnusedEmpty
<1>2. ASSUME NEW p \in Proc,
             \/ Store(p) \/ CopyOut(p) \/ CopyMissing(p) \/ Kalloc(p)
             \/ MemFull(p) \/ NoVictim(p) \/ RetryFails(p) \/ LoadFails(p)
             \/ SbrkLazy(p) \/ Kill(p) \/ Halt
      PROVE  UnusedEmpty'
  BY <1>0, <1>2, ZenonT(60) DEF Store, CopyOut, CopyMissing, Kalloc, MemFull,
       NoVictim, RetryFails, LoadFails, SbrkLazy, Kill, Halt
<1>3. ASSUME NEW p \in Proc, PageFault(p) PROVE UnusedEmpty'
  <2>1. PICK a, acc, c : TrapInvalid(p, a, acc, c) \/ TrapMapped(p, a, acc, c)
                           \/ TrapMissing(p, a, acc, c)
    BY Zenon, <1>3 DEF PageFault
  <2>2. pt' = pt
    BY Zenon, <2>1 DEF TrapInvalid, TrapMapped, TrapMissing
  <2> QED BY <1>0, <1>3, <2>2, Zenon DEF PageFault
<1>4. ASSUME NEW p \in Proc, Evict(p) PROVE UnusedEmpty'
  <2>1. PICK va : \/ EvictStale(p, va) \/ EvictClean(p, va)
                  \/ EvictDirty(p, va) \/ SwapFull(p, va)
    BY Zenon, <1>4 DEF Evict
  <2>2. pt' = pt \/ pt' = [pt EXCEPT ![p][va] = NoFrame]
    BY <2>1, Zenon DEF EvictStale, EvictClean, EvictDirty, SwapFull,
       UnmapVictim
  <2> QED BY <1>0, <1>1, <1>4, <2>2, Zenon DEF Evict, AtStep
<1>5. ASSUME NEW p \in Proc, LoadTrap(p) \/ LoadCopy(p) PROVE UnusedEmpty'
  <2>1. pt' = [pt EXCEPT ![p][fault[p].va] = fault[p].frame]
    BY <1>5, ZenonT(60) DEF LoadTrap, LoadAnon, LoadSwap, LoadExec, LoadCopy,
       Map
  <2> QED BY <1>1, <1>5, <2>1, Zenon DEF LoadTrap, LoadCopy, AtStep
<1>6. ASSUME NEW p \in Proc, SbrkEager(p) \/ SbrkShrink(p) \/ Exec(p)
      PROVE  UnusedEmpty'
  <2>1. Halt \/ /\ pstate' = pstate
                /\ \E r : pt' = [pt EXCEPT ![p] = r]
    BY <1>6, Zenon DEF SbrkEager, SbrkShrink, Exec, Map
  <2> QED BY <1>1, <1>2, <1>6, <2>1, Zenon
         DEF SbrkEager, SbrkShrink, Exec, InCall, Running
<1>7. ASSUME NEW p \in Proc, Fork(p) PROVE UnusedEmpty'
  <2>1. PICK c \in Proc : /\ \E r : pt' = [pt EXCEPT ![c] = r]
                          /\ pstate' = [pstate EXCEPT ![c] = "LIVE"]
    BY <1>7, Zenon DEF Fork
  <2>2. \A q \in Proc : q # c => pt'[q] = pt[q] /\ pstate'[q] = pstate[q]
    BY <2>1, Zenon DEF TypeOK
  <2> QED BY <2>1, <2>2 DEF UnusedEmpty, TypeOK
<1>8. ASSUME NEW p \in Proc, Exit(p) PROVE UnusedEmpty'
  BY Zenon, <1>8 DEF Exit, UnusedEmpty, TypeOK
<1>9. ASSUME NEW p \in Proc, Wait(p) PROVE UnusedEmpty'
  <2>1. \/ Halt
        \/ /\ pt' = [pt EXCEPT ![p] = [a \in Page |-> NoFrame]]
           /\ pstate' = [pstate EXCEPT ![p] = "UNUSED"]
    BY <1>9, Zenon DEF Wait
  <2>2. CASE ~Halt
    <3>1. \A q \in Proc : pt'[q] = IF q = p THEN [a \in Page |-> NoFrame]
                                           ELSE pt[q]
      BY <2>1, <2>2, Zenon DEF TypeOK
    <3>2. \A q \in Proc : q # p => pstate'[q] = pstate[q]
      BY <2>1, <2>2, Zenon DEF TypeOK
    <3> QED BY <3>1, <3>2, Zenon DEF UnusedEmpty
  <2> QED BY <1>2, <2>2, Zenon
<1> QED
  BY <1>0, <1>2, <1>3, <1>4, <1>5, <1>6, <1>7, <1>8, <1>9, Zenon
     DEF Next, Handler, vars

\* Initially the frames that kexec() did not take are free.
LEMMA InitNotLost == Init => FramesNotLost /\ UnusedEmpty
<1> SUFFICES ASSUME Init PROVE FramesNotLost /\ UnusedEmpty
  BY Zenon
<1>1. PICK g \in Injection(Started, Frame), s \in Injection(Started, Frame) :
        /\ pt = [p \in Proc |-> IF p \in Started
                                THEN ExecTable(Boot, g[p], s[p])
                                ELSE [a \in Page |-> NoFrame]]
        /\ free = {f \in Frame : \A p \in Started : f # g[p] /\ f # s[p]}
  BY DEF Init
<1>2. StackPage[Boot] \in Page /\ StackPage[Boot] - 1 \in Page
  <2>1. StackPage[Boot] \in Page \ {0}
    BY LayoutAssumption, Zenon
  <2> QED BY <2>1, SizesAssumption DEF Page
<1>3. \A p \in Started : /\ p \in Proc
                         /\ pt[p][StackPage[Boot] - 1] = g[p]
                         /\ pt[p][StackPage[Boot]] = s[p]
  <2>1. StackPage[Boot] # StackPage[Boot] - 1
    BY <1>2 DEF Page
  <2>2. Started \subseteq Proc
    BY Zenon, LayoutAssumption
  <2> QED BY <1>1, <1>2, <2>1, <2>2, Zenon DEF ExecTable
<1>4. FramesNotLost
  <2>1. \A f \in Frame :
          f \in free \/ \E p \in Started : f = g[p] \/ f = s[p]
    BY <1>1, Zenon
  <2> QED BY <1>2, <1>3, <2>1 DEF FramesNotLost
<1>5. UnusedEmpty
  BY Zenon, <1>1 DEF UnusedEmpty, Init
<1> QED BY Zenon, <1>4, <1>5
=============================================================================
