---------------------------- MODULE ProcVMProofs ----------------------------
(***************************************************************************)
(* Lemmas about the bookkeeping helpers: what the table lookups return,    *)
(* and that each update of memstat, the swap table and the counters keeps  *)
(* the types and the consistency of the tables.                            *)
(***************************************************************************)
EXTENDS ProcVM, WellFoundedInduction, TLAPS

\* The address fields of memstat and swap_table are of C type uint: storing a
\* user address yields an address that the field can hold.
LEMMA UintInUVa ==
  ASSUME NEW va \in Page PROVE uint(va) \in UVa
<1>1. UINT_PAGES \in Nat /\ UINT_PAGES > 0 /\ va \in Nat /\ NPAGES \in Nat /\ va < NPAGES
  BY SizesAssumption DEF Page
<1>2. va % UINT_PAGES \in Nat /\ va % UINT_PAGES < UINT_PAGES /\ va % UINT_PAGES <= va
  BY <1>1, SMT
<1> QED BY <1>1, <1>2 DEF uint, UVa, Page

\* An address that fits a uint field is stored unchanged.
LEMMA UintOfUVa ==
  ASSUME NEW va \in UVa PROVE uint(va) = va
<1>1. UINT_PAGES \in Nat /\ UINT_PAGES > 0 /\ va \in Nat /\ va < UINT_PAGES
  BY SizesAssumption DEF Page, UVa
<1>2. va % UINT_PAGES = va
  BY <1>1, SMT
<1> QED BY Zenon, <1>2 DEF uint

\* A loop that counts up from 0 and stops at the first match finds the
\* smallest matching index.
LEMMA FirstIn ==
  ASSUME NEW S \in SUBSET Nat, S # {}
  PROVE  First(S) \in S /\ \A j \in S : First(S) <= j
<1> DEFINE R == {ss \in Nat \X Nat : ss[1] < ss[2]}
<1>1. IsWellFoundedOn(R, Nat)
  BY Zenon, NatLessThanWellFounded DEF OpToRel
<1>2. PICK x \in S : \A y \in S : ~(<<y, x>> \in R)
  <2> HIDE DEF R
  <2> QED BY <1>1, WFMin, Zenon
<1>3. ASSUME NEW y \in S, y < x PROVE FALSE
  <2>1. <<y, x>> \in Nat \X Nat
    BY Zenon
  <2>2. <<y, x>>[1] < <<y, x>>[2]
    BY Zenon, <1>3
  <2>3. <<y, x>> \in R
    BY Zenon, <2>1, <2>2
  <2> QED BY Zenon, <1>2, <2>3
<1>4. \A y \in S : x <= y
  BY <1>3
<1> QED BY <1>4, Zenon DEF First

-----------------------------------------------------------------------------

\* The same for the loops over memstat.pages, with -1 for "no match".
LEMMA FirstIndex ==
  ASSUME NEW S \in SUBSET Index
  PROVE  /\ First(S) = -1 <=> S = {}
         /\ First(S) # -1 => First(S) \in S /\ \A j \in S : First(S) <= j
<1>1. CASE S = {}
  BY Zenon, <1>1 DEF First
<1>2. CASE S # {}
  <2>1. S \in SUBSET Nat
    BY SizesAssumption DEF Index
  <2>2. First(S) \in S /\ \A j \in S : First(S) <= j
    BY Zenon, <2>1, <1>2, FirstIn
  <2>3. First(S) # -1
    BY <2>1, <2>2
  <2> QED BY Zenon, <1>2, <2>2, <2>3
<1> QED BY Zenon, <1>1, <1>2

\* The same for the loops over swap_table.
LEMMA FirstSlot ==
  ASSUME NEW S \in SUBSET Slot
  PROVE  /\ First(S) = -1 <=> S = {}
         /\ First(S) # -1 => First(S) \in S /\ \A j \in S : First(S) <= j
<1>1. CASE S = {}
  BY Zenon, <1>1 DEF First
<1>2. CASE S # {}
  <2>1. S \in SUBSET Nat
    BY SizesAssumption DEF Slot
  <2>2. First(S) \in S /\ \A j \in S : First(S) <= j
    BY Zenon, <2>1, <1>2, FirstIn
  <2>3. First(S) # -1
    BY <2>1, <2>2
  <2> QED BY Zenon, <1>2, <2>2, <2>3
<1> QED BY Zenon, <1>1, <1>2

\* memstat_find_index() returns the entry in use for the page or, when there
\* is none, the first free entry.
LEMMA FindIndex ==
  ASSUME NEW pages \in [Index -> page_stat], NEW va \in Page,
         NEW i, i = memstat_find_index(pages, va), i # -1
  PROVE  /\ i \in Index
         /\ \/ i \in Live(pages) /\ pages[i].va = uint(va)
            \/ /\ i \notin Live(pages)
               /\ \A k \in Live(pages) : pages[k].va # uint(va)
               /\ \A j \in Index : j < i => j \in Live(pages)
<1> DEFINE live == {k \in Live(pages) : pages[k].va = uint(va)}
           spare == Index \ Live(pages)
<1>1. live \subseteq Index /\ spare \subseteq Index /\ Index \subseteq Int
  BY SizesAssumption DEF Live, Index
<1>2. CASE live # {}
  <2>1. i = First(live)
    BY Zenon, <1>2 DEF memstat_find_index
  <2>2. i \in live
    BY Zenon, <2>1, <1>1, FirstIndex
  <2> QED BY Zenon, <2>2, <1>1
<1>3. CASE live = {}
  <2>1. i = First(spare)
    BY Zenon, <1>3 DEF memstat_find_index
  <2> HIDE DEF spare
  <2>2. i \in spare /\ \A j \in spare : i <= j
    BY <2>1, <1>1, FirstIndex
  <2>3. \A j \in Index : j < i => j \in Live(pages)
    BY <2>2, <1>1 DEF spare
  <2> QED BY Zenon, <2>2, <2>3, <1>3 DEF spare
<1> QED BY Zenon, <1>2, <1>3

\* An entry in use is the one that both kinds of lookup find.
LEMMA LiveEntryFound ==
  ASSUME NEW m \in VMState, LiveFirst(m), NEW i \in Live(m.pages)
  PROVE  /\ i \in Index /\ i # -1 /\ m.pages[i].va \in UVa
         /\ first_with_va(m.pages, m.pages[i].va) = i
         /\ memstat_find_index(m.pages, m.pages[i].va) = i
<1> DEFINE va == m.pages[i].va
           same == {j \in Index : m.pages[j].va = va}
           live == {j \in Live(m.pages) : m.pages[j].va = va}
<1>1. i \in Index /\ Index \subseteq Nat /\ m.pages \in [Index -> page_stat]
  BY SizesAssumption DEF Live, Index, VMState
<1>2. va \in UVa /\ uint(va) = va
  BY Zenon, <1>1, UintOfUVa DEF page_stat
<1>3. i \in same /\ i \in live /\ \A j \in same : i <= j
  BY Zenon, <1>1 DEF LiveFirst
<1>4. live \subseteq same /\ same \subseteq Index
  BY Zenon DEF Live
<1> HIDE DEF same, live
<1>5. First(same) \in same /\ First(same) <= i
  BY Zenon, <1>3, <1>4, FirstIndex
<1>6. First(live) \in live /\ First(live) <= i
  BY Zenon, <1>3, <1>4, FirstIndex
<1>7. First(same) = i
  <2>1. First(same) \in Nat /\ i <= First(same)
    BY <1>1, <1>3, <1>4, <1>5, Zenon
  <2> QED BY <2>1, <1>1, <1>5
<1>8. First(live) = i
  <2>1. First(live) \in Nat /\ i <= First(live)
    BY <1>1, <1>3, <1>4, <1>6, Zenon
  <2> QED BY <2>1, <1>1, <1>6
<1>9. first_with_va(m.pages, va) = i
  BY Zenon, <1>7 DEF first_with_va, same
<1>10. memstat_find_index(m.pages, va) = i
  BY Zenon, <1>2, <1>3, <1>8 DEF memstat_find_index, live
<1> QED BY <1>1, <1>2, <1>9, <1>10

-----------------------------------------------------------------------------
\* The inductive invariant of the bookkeeping.
Consistent(m) ==
  m \in VMState /\ LiveFirst(m) /\ SlotsMatch(m) /\ SeqsOrdered(m)

\* allocproc() leaves consistent tables.
LEMMA FreshConsistent == Consistent(FreshVM)
<1>1. 0 \in UVa
  BY SizesAssumption DEF UVa, Page
<1>2. FreshVM \in VMState
  BY Zenon, <1>1 DEF FreshVM, VMState, page_stat, swap_entry, PageState
<1>3. Live(FreshVM.pages) = {} /\ UsedSlots(FreshVM) = {}
  BY Zenon DEF FreshVM, Live, UsedSlots
<1>4. \A i \in Index : FreshVM.pages[i].state # "SWAPPED"
  BY Zenon DEF FreshVM
<1> QED BY Zenon, <1>2, <1>3, <1>4 DEF Consistent, LiveFirst, SlotsMatch,
           SeqsOrdered

\* Counters and the swapfile flag play no part in consistency.
LEMMA SameTables ==
  ASSUME NEW m, Consistent(m), NEW n \in VMState,
         n.pages = m.pages, n.swap_table = m.swap_table,
         n.next_fifo_seq >= m.next_fifo_seq
  PROVE  Consistent(n)
<1>1. UsedSlots(n) = UsedSlots(m)
  BY Zenon DEF UsedSlots
<1>2. LiveFirst(n) /\ SlotsMatch(n)
  BY <1>1 DEF Consistent, LiveFirst, SlotsMatch
<1>3. SeqsOrdered(n)
  <2>1. \A i \in Live(m.pages) : m.pages[i].seq \in Nat
    BY Zenon DEF Consistent, VMState, page_stat, Live
  <2>2. m.next_fifo_seq \in Nat /\ n.next_fifo_seq \in Nat
    BY Zenon DEF Consistent, VMState
  <2> QED BY <2>1, <2>2 DEF Consistent, SeqsOrdered
<1> QED BY Zenon, <1>2, <1>3 DEF Consistent

\* swapfile_create() changes none of the tables.
LEMMA SwapfileFlag ==
  ASSUME NEW m, Consistent(m)
  PROVE  Consistent(swapfile_create(m))
<1>1. swapfile_create(m) \in VMState
  BY Zenon DEF Consistent, VMState, swapfile_create
<1>2. /\ swapfile_create(m).pages = m.pages
      /\ swapfile_create(m).swap_table = m.swap_table
      /\ swapfile_create(m).next_fifo_seq = m.next_fifo_seq
      /\ m.next_fifo_seq \in Nat
  BY Zenon DEF Consistent, VMState, swapfile_create
<1> QED BY <1>1, <1>2, SameTables

\* Setting is_dirty in any entry keeps the tables consistent.
LEMMA DirtyBit ==
  ASSUME NEW m, Consistent(m), NEW i \in Index
  PROVE  Consistent([m EXCEPT !.pages[i].is_dirty = TRUE])
<1> DEFINE n == [m EXCEPT !.pages[i].is_dirty = TRUE]
<1>1. m \in VMState /\ m.pages \in [Index -> page_stat]
  BY Zenon DEF Consistent, VMState
<1>2. n.pages = [m.pages EXCEPT ![i] = [@ EXCEPT !.is_dirty = TRUE]]
  BY Zenon, <1>1 DEF VMState
<1>3. n.pages \in [Index -> page_stat]
  <2>1. m.pages[i] \in page_stat
    BY Zenon, <1>1
  <2>2. [m.pages[i] EXCEPT !.is_dirty = TRUE] \in page_stat
    BY <2>1, Zenon DEF page_stat
  <2> QED BY Zenon, <1>1, <1>2, <2>2
<1>4. /\ n.swap_table = m.swap_table /\ n.next_fifo_seq = m.next_fifo_seq
      /\ n \in VMState
  BY <1>1, <1>3, Zenon DEF VMState
<1> HIDE DEF n
<1>5. \A k \in Index : /\ n.pages[k].va = m.pages[k].va
                       /\ n.pages[k].state = m.pages[k].state
                       /\ n.pages[k].seq = m.pages[k].seq
                       /\ n.pages[k].swap_slot = m.pages[k].swap_slot
  BY <1>1, <1>2 DEF page_stat
<1>6. Live(n.pages) = Live(m.pages) /\ UsedSlots(n) = UsedSlots(m)
  BY Zenon, <1>4, <1>5 DEF Live, UsedSlots
<1>7. LiveFirst(n)
  BY <1>5, <1>6 DEF Consistent, LiveFirst, Live
<1>8. SlotsMatch(n)
  BY <1>4, <1>5, <1>6 DEF Consistent, SlotsMatch
<1>9. SeqsOrdered(n)
  BY <1>4, <1>5, <1>6 DEF Consistent, SeqsOrdered, Live
<1> QED BY Zenon, <1>4, <1>7, <1>8, <1>9 DEF Consistent, n

\* memstat_mark_resident() with a fresh sequence number, for a page that is
\* not swapped out.
LEMMA MarkResident ==
  ASSUME NEW m, Consistent(m), NEW va \in Page, NEW seq \in Nat,
         seq < m.next_fifo_seq,
         \A k \in Live(m.pages) : m.pages[k].seq # seq,
         ~was_swapped(m.pages, va)
  PROVE  Consistent(memstat_mark_resident(m, va, seq))
<1> DEFINE i == memstat_find_index(m.pages, va)
           n == memstat_mark_resident(m, va, seq)
           e == [va |-> uint(va), state |-> "RESIDENT", is_dirty |-> FALSE,
                 seq |-> seq, swap_slot |-> -1]
<1>1. CASE i = -1
  BY Zenon, <1>1 DEF memstat_mark_resident
<1>2. CASE i # -1
  <2>1. m \in VMState /\ m.pages \in [Index -> page_stat]
    BY Zenon DEF Consistent, VMState
  <2>2. /\ i \in Index
        /\ \/ i \in Live(m.pages) /\ m.pages[i].va = uint(va)
           \/ /\ i \notin Live(m.pages)
              /\ \A k \in Live(m.pages) : m.pages[k].va # uint(va)
              /\ \A j \in Index : j < i => j \in Live(m.pages)
    BY Zenon, <1>2, <2>1, FindIndex
  <2>3. e \in page_stat
    BY Zenon, UintInUVa DEF page_stat, PageState
  <2>4. /\ n.pages = [m.pages EXCEPT ![i] = e]
        /\ n.swap_table = m.swap_table
        /\ n.next_fifo_seq = m.next_fifo_seq
        /\ n \in VMState
    <3> DEFINE c == IF m.pages[i].state # "RESIDENT"
                    THEN m.num_resident_pages + 1 ELSE m.num_resident_pages
    <3>1. n = [m EXCEPT !.pages = [m.pages EXCEPT ![i] = e],
                        !.num_resident_pages = c]
      BY Zenon, <1>2, <2>1 DEF memstat_mark_resident, VMState
    <3>2. [m.pages EXCEPT ![i] = e] \in [Index -> page_stat]
      BY Zenon, <2>1, <2>2, <2>3
    <3>3. c \in Nat
      BY <2>1 DEF VMState
    <3> HIDE DEF n, i, e, c
    <3> QED BY <3>1, <3>2, <3>3, <2>1, Zenon DEF VMState
  <2> HIDE DEF n, i
  <2>5. /\ n.pages[i] = e
        /\ \A k \in Index : k # i => n.pages[k] = m.pages[k]
    BY Zenon, <2>1, <2>2, <2>4
  <2>6. /\ UsedSlots(n) = UsedSlots(m)
        /\ Live(n.pages) = Live(m.pages) \cup {i}
    BY <2>2, <2>4, <2>5 DEF UsedSlots, Live
  <2>7. Index \subseteq Int
    BY DEF Index
  <2>8. LiveFirst(n)
    <3> SUFFICES ASSUME NEW a \in Live(n.pages), NEW j \in Index,
                        n.pages[j].va = n.pages[a].va
                 PROVE  a <= j
      BY Zenon DEF LiveFirst
    <3>1. CASE a = i /\ j # i
      BY <3>1, <2>2, <2>5, <2>7 DEF Consistent, LiveFirst
    <3>2. CASE a # i /\ j = i
      <4>1. a \in Live(m.pages) /\ a \in Index
        BY Zenon, <3>2, <2>6 DEF Live
      <4>2. m.pages[a].va = uint(va)
        BY <3>2, <4>1, <2>5
      <4>3. i \in Live(m.pages) /\ m.pages[i].va = m.pages[a].va
        BY Zenon, <4>1, <4>2, <2>2
      <4> QED BY Zenon, <3>2, <4>1, <4>3, <2>2 DEF Consistent, LiveFirst
    <3>3. CASE a # i /\ j # i
      <4>1. a \in Live(m.pages) /\ a \in Index
        BY Zenon, <3>3, <2>6 DEF Live
      <4> QED BY Zenon, <3>3, <4>1, <2>5 DEF Consistent, LiveFirst
    <3>4. CASE a = i /\ j = i
      BY <3>4, <2>2, <2>7
    <3> QED BY Zenon, <3>1, <3>2, <3>3, <3>4
  <2>9. m.pages[i].state # "SWAPPED"
    BY Zenon, <2>2 DEF was_swapped, Live
  <2>10. SlotsMatch(n)
    BY <2>2, <2>4, <2>5, <2>6, <2>9 DEF Consistent, SlotsMatch
  <2>11. SeqsOrdered(n)
    <3>1. \A k \in Live(n.pages) : k = i \/ (k # i /\ k \in Live(m.pages) /\ k \in Index)
      BY Zenon, <2>6 DEF Live
    <3>2. \A k \in Live(n.pages) : n.pages[k].seq < n.next_fifo_seq
      BY <3>1, <2>4, <2>5 DEF Consistent, SeqsOrdered
    <3>3. ASSUME NEW a \in Live(n.pages), NEW b \in Live(n.pages),
                 n.pages[a].seq = n.pages[b].seq
          PROVE  a = b
      <4>1. CASE a # i /\ b # i
        BY Zenon, <4>1, <3>1, <3>3, <2>5 DEF Consistent, SeqsOrdered
      <4>2. CASE a = i /\ b # i
        BY <4>2, <3>1, <3>3, <2>5
      <4>3. CASE a # i /\ b = i
        BY <4>3, <3>1, <3>3, <2>5
      <4> QED BY Zenon, <4>1, <4>2, <4>3
    <3> QED BY Zenon, <3>2, <3>3 DEF SeqsOrdered
  <2> QED BY Zenon, <2>4, <2>8, <2>10, <2>11 DEF Consistent, n
<1> QED BY Zenon, <1>1, <1>2

\* usertrap() recording a store, by either of its loops, keeps the tables
\* consistent.
LEMMA MarkDirty ==
  ASSUME NEW m, Consistent(m), NEW va
  PROVE  /\ Consistent(mark_dirty_first(m, va))
         /\ Consistent(mark_dirty_resident(m, va))
<1>1. Consistent(mark_dirty_first(m, va))
  <2> DEFINE S == {j \in Index : m.pages[j].va = uint(va)}
  <2>1. First(S) = -1 \/ First(S) \in Index
    BY Zenon, FirstIndex
  <2> QED BY <2>1, DirtyBit, Zenon DEF mark_dirty_first, first_with_va
<1>2. Consistent(mark_dirty_resident(m, va))
  <2> DEFINE S == {j \in Resident(m.pages) : m.pages[j].va = uint(va)}
  <2>1. S \subseteq Index
    BY Zenon DEF Resident
  <2>2. First(S) = -1 \/ First(S) \in Index
    BY Zenon, <2>1, FirstIndex
  <2> QED BY Zenon, <2>2, DirtyBit DEF mark_dirty_resident
<1> QED BY Zenon, <1>1, <1>2

\* The end of usertrap()'s fault path keeps the tables consistent when no
\* SWAPPED entry describes the page.
LEMMA BecameResident ==
  ASSUME NEW m, Consistent(m), NEW va \in Page, NEW dirty \in BOOLEAN,
         ~was_swapped(m.pages, va)
  PROVE  Consistent(became_resident(m, va, dirty))
<1> DEFINE b == [m EXCEPT !.next_fifo_seq = @ + 1]
           n == memstat_mark_resident(b, va, m.next_fifo_seq)
           d == IF dirty THEN mark_dirty_first(n, va) ELSE n
           r == [d EXCEPT !.resident_pages = @ + 1]
<1>1. m \in VMState /\ m.next_fifo_seq \in Nat
  BY Zenon DEF Consistent, VMState
<1>2. /\ b \in VMState /\ b.pages = m.pages /\ b.swap_table = m.swap_table
      /\ b.next_fifo_seq = m.next_fifo_seq + 1
  BY <1>1 DEF VMState
<1> HIDE DEF b
<1>3. Consistent(b)
  <2>1. b.next_fifo_seq >= m.next_fifo_seq
    BY <1>1, <1>2
  <2> QED BY Zenon, <1>2, <2>1, SameTables
<1>4. \A k \in Live(b.pages) : b.pages[k].seq # m.next_fifo_seq
  BY <1>1, <1>2 DEF Consistent, SeqsOrdered
<1>5. Consistent(n)
  BY <1>1, <1>2, <1>3, <1>4, MarkResident
<1> HIDE DEF n
<1>6. Consistent(d)
  BY Zenon, <1>5, MarkDirty
<1> HIDE DEF d
<1>7. /\ r \in VMState /\ r.pages = d.pages /\ r.swap_table = d.swap_table
      /\ r.next_fifo_seq = d.next_fifo_seq /\ d.next_fifo_seq \in Nat
  BY <1>6 DEF Consistent, VMState
<1> HIDE DEF r
<1>8. Consistent(r)
  <2>1. r.next_fifo_seq >= d.next_fifo_seq
    BY <1>7
  <2> QED BY Zenon, <1>6, <1>7, <2>1, SameTables
<1> QED BY Zenon, <1>8 DEF became_resident, r, d, n, b

\* swapin_page(): the slot is given up, the entry is RESIDENT again.
LEMMA SwapIn ==
  ASSUME NEW m, Consistent(m), NEW va \in Page,
         NEW s \in Slot, s = swapin_slot(m, va)
  PROVE  /\ Consistent(swapin_page(m, va, s))
         /\ ~was_swapped(swapin_page(m, va, s).pages, va)
<1> DEFINE n == swapin_page(m, va, s)
<1>1. m \in VMState /\ m.pages \in [Index -> page_stat]
        /\ m.swap_table \in [Slot -> swap_entry]
  BY Zenon DEF Consistent, VMState
<1>2. s \in UsedSlots(m) /\ m.swap_table[s].va = va
  <2> DEFINE S == {t \in UsedSlots(m) : m.swap_table[t].va = va}
  <2>1. S \subseteq Slot /\ s = First(S) /\ s # -1
    BY SizesAssumption DEF UsedSlots, swapin_slot, Slot
  <2> HIDE DEF S
  <2>2. s \in S
    BY Zenon, <2>1, FirstSlot
  <2> QED BY Zenon, <2>2 DEF S
<1>3. va \in UVa /\ uint(va) = va
  BY Zenon, <1>1, <1>2, UintOfUVa DEF swap_entry
<1>4. PICK i \in Index : /\ m.pages[i].state = "SWAPPED"
                         /\ m.pages[i].va = va /\ m.pages[i].swap_slot = s
  BY <1>2 DEF Consistent, SlotsMatch
<1>5. i \in Live(m.pages) /\ i # -1 /\ first_with_va(m.pages, va) = i
  <2>1. i \in Live(m.pages)
    BY Zenon, <1>4 DEF Live
  <2> QED BY Zenon, <2>1, <1>1, <1>4, LiveEntryFound DEF Consistent
<1>6. \A k \in Live(m.pages) : m.pages[k].va = va => k = i
  BY <1>4, <1>5, SizesAssumption DEF Consistent, LiveFirst, Live, Index
<1> DEFINE e == [m.pages[i] EXCEPT !.state = "RESIDENT", !.swap_slot = -1,
                                   !.is_dirty = FALSE]
           f == [used |-> FALSE, va |-> 0]
<1>7. e \in page_stat /\ f \in swap_entry
  <2>1. m.pages[i] \in page_stat /\ 0 \in UVa
    BY <1>1, SizesAssumption DEF UVa, Page
  <2> QED BY <2>1, Zenon DEF page_stat, swap_entry, PageState
<1>8. /\ n.pages = [m.pages EXCEPT ![i] = e]
      /\ n.swap_table = [m.swap_table EXCEPT ![s] = f]
      /\ n.next_fifo_seq = m.next_fifo_seq
      /\ n \in VMState
  <2> DEFINE c == IF m.num_swapped_pages > 0 THEN m.num_swapped_pages - 1
                                             ELSE m.num_swapped_pages
             d == IF m.swapped_pages > 0 THEN m.swapped_pages - 1
                                         ELSE m.swapped_pages
  <2>1. n = [m EXCEPT !.swap_table = [m.swap_table EXCEPT ![s] = f],
                      !.num_swapped_pages = c, !.swapped_pages = d,
                      !.resident_pages = m.resident_pages + 1,
                      !.pages = [m.pages EXCEPT ![i] = e]]
    BY Zenon, <1>1, <1>5 DEF swapin_page, VMState
  <2>2. /\ [m.pages EXCEPT ![i] = e] \in [Index -> page_stat]
        /\ [m.swap_table EXCEPT ![s] = f] \in [Slot -> swap_entry]
    <3> HIDE DEF e, f
    <3> QED BY Zenon, <1>1, <1>7
  <2>3. c \in Nat /\ d \in Nat /\ m.resident_pages + 1 \in Nat
    BY <1>1 DEF VMState
  <2> HIDE DEF n, e, f, c, d
  <2> QED BY <2>1, <2>2, <2>3, <1>1, Zenon DEF VMState
<1>9. /\ n.pages[i].va = va /\ n.pages[i].state = "RESIDENT"
      /\ n.pages[i].seq = m.pages[i].seq
      /\ \A k \in Index : k # i => n.pages[k] = m.pages[k]
  <2>1. m.pages[i] \in page_stat
    BY Zenon, <1>1
  <2>2. e.va = va /\ e.state = "RESIDENT" /\ e.seq = m.pages[i].seq
    BY Zenon, <2>1, <1>4 DEF page_stat
  <2> HIDE DEF e, n
  <2> QED BY Zenon, <1>1, <1>8, <2>2
<1>10. /\ n.swap_table[s].used = FALSE
       /\ \A t \in Slot : t # s => n.swap_table[t] = m.swap_table[t]
  <2> HIDE DEF n
  <2> QED BY <1>1, <1>8
<1> HIDE DEF n, e, f
<1>11. /\ Live(n.pages) = Live(m.pages)
       /\ UsedSlots(n) = UsedSlots(m) \ {s}
  BY Zenon, <1>4, <1>9, <1>10 DEF Live, UsedSlots
<1>12. LiveFirst(n)
  <2>1. \A k \in Index : n.pages[k].va = m.pages[k].va
    BY Zenon, <1>4, <1>9
  <2> QED BY Zenon, <2>1, <1>11 DEF Consistent, LiveFirst, Live
<1>13. SlotsMatch(n)
  <2>1. ASSUME NEW t \in UsedSlots(n)
        PROVE  \E k \in Index : /\ n.pages[k].state = "SWAPPED"
                                /\ n.pages[k].va = n.swap_table[t].va
                                /\ n.pages[k].swap_slot = t
    <3>1. t \in UsedSlots(m) /\ t # s /\ t \in Slot
      BY Zenon, <1>11 DEF UsedSlots
    <3>2. PICK k \in Index : /\ m.pages[k].state = "SWAPPED"
                             /\ m.pages[k].va = m.swap_table[t].va
                             /\ m.pages[k].swap_slot = t
      BY Zenon, <3>1 DEF Consistent, SlotsMatch
    <3>3. k # i
      BY Zenon, <3>1, <3>2, <1>4
    <3> QED BY Zenon, <3>1, <3>2, <3>3, <1>9, <1>10
  <2>2. ASSUME NEW k \in Index, n.pages[k].state = "SWAPPED"
        PROVE  /\ n.pages[k].swap_slot \in UsedSlots(n)
               /\ n.swap_table[n.pages[k].swap_slot].va = n.pages[k].va
    <3>1. k # i /\ n.pages[k] = m.pages[k]
      BY Zenon, <2>2, <1>9
    <3> DEFINE t == m.pages[k].swap_slot
    <3>2. t \in UsedSlots(m) /\ t \in Slot /\ m.swap_table[t].va = m.pages[k].va
      BY Zenon, <2>2, <3>1 DEF Consistent, SlotsMatch, UsedSlots
    <3>3. t # s
      BY Zenon, <2>2, <3>1, <3>2, <1>2, <1>6 DEF Live
    <3> QED BY Zenon, <3>1, <3>2, <3>3, <1>10, <1>11
  <2> QED BY Zenon, <2>1, <2>2 DEF SlotsMatch
<1>14. SeqsOrdered(n)
  <2>1. \A k \in Index : n.pages[k].seq = m.pages[k].seq
    BY Zenon, <1>9
  <2> QED BY Zenon, <2>1, <1>8, <1>11 DEF Consistent, SeqsOrdered, Live
<1>15. ~was_swapped(n.pages, va)
  <2> SUFFICES ASSUME NEW k \in Index, n.pages[k].state = "SWAPPED",
                      n.pages[k].va = va
               PROVE  FALSE
    BY Zenon, <1>3 DEF was_swapped
  <2>1. k # i /\ m.pages[k].state = "SWAPPED" /\ m.pages[k].va = va
    BY Zenon, <1>9
  <2> QED BY Zenon, <2>1, <1>6 DEF Live
<1> QED BY Zenon, <1>8, <1>12, <1>13, <1>14, <1>15 DEF Consistent, n

\* memstat_mark_unmapped() of a resident page.
LEMMA MarkUnmapped ==
  ASSUME NEW m, Consistent(m), NEW i \in Resident(m.pages)
  PROVE  /\ Consistent(memstat_mark_unmapped(m, m.pages[i].va))
         /\ \A k \in Index :
              memstat_mark_unmapped(m, m.pages[i].va).pages[k].state = "SWAPPED"
                => /\ m.pages[k].state = "SWAPPED"
                   /\ memstat_mark_unmapped(m, m.pages[i].va).pages[k].va
                        = m.pages[k].va
         /\ \A k \in Index : k # i =>
              memstat_mark_unmapped(m, m.pages[i].va).pages[k] = m.pages[k]
<1> DEFINE va == m.pages[i].va
           n == memstat_mark_unmapped(m, va)
           e == [m.pages[i] EXCEPT !.va = uint(va), !.state = "UNMAPPED",
                                   !.swap_slot = -1]
<1>1. m \in VMState /\ m.pages \in [Index -> page_stat]
  BY Zenon DEF Consistent, VMState
<1>2. /\ i \in Index /\ i \in Live(m.pages) /\ i # -1
      /\ memstat_find_index(m.pages, va) = i /\ va \in UVa
  <2>1. i \in Live(m.pages)
    BY Zenon DEF Resident, Live
  <2> QED BY Zenon, <2>1, <1>1, LiveEntryFound DEF Consistent
<1>3. uint(va) = va
  BY Zenon, <1>2, UintOfUVa
<1>4. e \in page_stat /\ e.va = va /\ e.state = "UNMAPPED"
  <2>1. m.pages[i] \in page_stat
    BY Zenon, <1>1, <1>2
  <2> QED BY <2>1, <1>2, <1>3, Zenon DEF page_stat, PageState
<1>5. /\ n.pages = [m.pages EXCEPT ![i] = e]
      /\ n.swap_table = m.swap_table
      /\ n.next_fifo_seq = m.next_fifo_seq
      /\ n \in VMState
  <2> DEFINE c == IF m.pages[i].state = "RESIDENT" /\ m.num_resident_pages > 0
                  THEN m.num_resident_pages - 1 ELSE m.num_resident_pages
  <2>1. n = [m EXCEPT !.pages = [m.pages EXCEPT ![i] = e],
                      !.num_resident_pages = c]
    BY Zenon, <1>1, <1>2 DEF memstat_mark_unmapped, LeaveResident, VMState
  <2>2. [m.pages EXCEPT ![i] = e] \in [Index -> page_stat]
    <3> HIDE DEF e
    <3> QED BY <1>1, <1>4, Zenon
  <2>3. c \in Nat
    BY <1>1 DEF VMState
  <2> HIDE DEF n, e, c
  <2> QED BY <2>1, <2>2, <2>3, <1>1, Zenon DEF VMState
<1> HIDE DEF n, e
<1>6. /\ n.pages[i] = e
      /\ \A k \in Index : k # i => n.pages[k] = m.pages[k]
  BY Zenon, <1>1, <1>2, <1>5
<1>7. /\ Live(n.pages) = Live(m.pages) \ {i}
      /\ UsedSlots(n) = UsedSlots(m)
  BY Zenon, <1>2, <1>4, <1>5, <1>6 DEF Live, UsedSlots
<1>8. LiveFirst(n)
  <2>1. \A k \in Index : n.pages[k].va = m.pages[k].va
    BY Zenon, <1>4, <1>6
  <2> QED BY Zenon, <2>1, <1>7 DEF Consistent, LiveFirst, Live
<1>9. m.pages[i].state = "RESIDENT"
  BY Zenon DEF Resident
<1>10. SlotsMatch(n)
  BY <1>2, <1>4, <1>5, <1>6, <1>7, <1>9 DEF Consistent, SlotsMatch
<1>11. SeqsOrdered(n)
  <2>1. \A k \in Live(n.pages) : k \in Live(m.pages) /\ n.pages[k] = m.pages[k]
    BY Zenon, <1>6, <1>7 DEF Live
  <2> QED BY Zenon, <2>1, <1>5 DEF Consistent, SeqsOrdered
<1>12. \A k \in Index : n.pages[k].state = "SWAPPED" =>
         m.pages[k].state = "SWAPPED" /\ n.pages[k].va = m.pages[k].va
  BY Zenon, <1>4, <1>6
<1> QED BY Zenon, <1>5, <1>6, <1>8, <1>10, <1>11, <1>12 DEF Consistent, n

\* try_kalloc_or_replace() discards a clean victim.
LEMMA EvictedClean ==
  ASSUME NEW m, Consistent(m), NEW i \in Resident(m.pages)
  PROVE  /\ Consistent(evict_clean(m, m.pages[i].va))
         /\ \A b : was_swapped(evict_clean(m, m.pages[i].va).pages, b)
                     => was_swapped(m.pages, b)
         /\ \A k \in Index : k # i =>
              evict_clean(m, m.pages[i].va).pages[k] = m.pages[k]
<1> DEFINE u == memstat_mark_unmapped(m, m.pages[i].va)
           c == IF u.resident_pages > 0 THEN u.resident_pages - 1
                                        ELSE u.resident_pages
           n == [u EXCEPT !.resident_pages = c]
<1>1. Consistent(u)
  BY Zenon, MarkUnmapped
<1>2. \A k \in Index : u.pages[k].state = "SWAPPED" =>
        m.pages[k].state = "SWAPPED" /\ u.pages[k].va = m.pages[k].va
  BY Zenon, MarkUnmapped
<1>3. evict_clean(m, m.pages[i].va) = n
  BY Zenon DEF evict_clean
<1> HIDE DEF u
<1>4. c \in Nat
  BY <1>1 DEF Consistent, VMState
<1> HIDE DEF c
<1>5. /\ n \in VMState /\ n.pages = u.pages /\ n.swap_table = u.swap_table
      /\ n.next_fifo_seq = u.next_fifo_seq /\ u.next_fifo_seq \in Nat
  BY Zenon, <1>1, <1>4 DEF Consistent, VMState
<1> HIDE DEF n
<1>6. n.next_fifo_seq >= u.next_fifo_seq
  BY <1>5
<1>7. Consistent(n)
  BY Zenon, <1>1, <1>5, <1>6, SameTables
<1>8. \A b : was_swapped(n.pages, b) => was_swapped(m.pages, b)
  BY Zenon, <1>2, <1>5 DEF was_swapped
<1>9. \A k \in Index : k # i => n.pages[k] = m.pages[k]
  BY Zenon, <1>5, MarkUnmapped DEF u
<1> QED BY Zenon, <1>3, <1>7, <1>8, <1>9

\* proc_swapout_page() and the rest of an eviction of a dirty victim.
LEMMA EvictedDirty ==
  ASSUME NEW m, Consistent(m), NEW i \in Resident(m.pages),
         NEW s \in Slot, s = free_slot(m)
  PROVE  /\ Consistent(evict_dirty(m, m.pages[i].va, s))
         /\ \A b : was_swapped(evict_dirty(m, m.pages[i].va, s).pages, b)
                     => was_swapped(m.pages, b) \/ uint(b) = m.pages[i].va
         /\ \A k \in Index : k # i =>
              evict_dirty(m, m.pages[i].va, s).pages[k] = m.pages[k]
<1> DEFINE va == m.pages[i].va
           e == [m.pages[i] EXCEPT !.state = "SWAPPED", !.swap_slot = s,
                                   !.is_dirty = FALSE]
           f == [used |-> TRUE, va |-> uint(va)]
           q == [proc_swapout_page(m, va, s) EXCEPT
                   !.resident_pages = IF @ > 0 THEN @ - 1 ELSE @,
                   !.swapped_pages = @ + 1]
           n == memstat_mark_swapped(q, va, s)
<1>1. m \in VMState /\ m.pages \in [Index -> page_stat]
        /\ m.swap_table \in [Slot -> swap_entry]
  BY Zenon DEF Consistent, VMState
<1>2. /\ i \in Index /\ i \in Live(m.pages) /\ i # -1
      /\ first_with_va(m.pages, va) = i /\ va \in UVa
  <2>1. i \in Live(m.pages)
    BY Zenon DEF Resident, Live
  <2> QED BY Zenon, <2>1, <1>1, LiveEntryFound DEF Consistent
<1>3. uint(va) = va
  BY Zenon, <1>2, UintOfUVa
<1>4. s \notin UsedSlots(m)
  <2> DEFINE S == Slot \ UsedSlots(m)
  <2>1. S \subseteq Slot /\ s = First(S) /\ s # -1
    BY SizesAssumption DEF free_slot, Slot
  <2> HIDE DEF S
  <2>2. s \in S
    BY Zenon, <2>1, FirstSlot
  <2> QED BY Zenon, <2>2 DEF S
<1>5. /\ e \in page_stat /\ e.va = va /\ e.state = "SWAPPED"
      /\ e.swap_slot = s /\ e.seq = m.pages[i].seq
      /\ f \in swap_entry
  <2>1. m.pages[i] \in page_stat
    BY Zenon, <1>1, <1>2
  <2> QED BY <2>1, <1>2, <1>3, Zenon DEF page_stat, swap_entry, PageState
<1>6. /\ q.pages = [m.pages EXCEPT ![i] = e]
      /\ q.swap_table = [m.swap_table EXCEPT ![s] = f]
      /\ q.next_fifo_seq = m.next_fifo_seq
      /\ q \in VMState
  <2> DEFINE c == IF m.resident_pages > 0 THEN m.resident_pages - 1
                                          ELSE m.resident_pages
  <2>1. q = [m EXCEPT !.swap_table = [m.swap_table EXCEPT ![s] = f],
                      !.num_swapped_pages = m.num_swapped_pages + 1,
                      !.pages = [m.pages EXCEPT ![i] = e],
                      !.resident_pages = c,
                      !.swapped_pages = m.swapped_pages + 1]
    BY Zenon, <1>1, <1>2 DEF proc_swapout_page, VMState
  <2>2. /\ [m.pages EXCEPT ![i] = e] \in [Index -> page_stat]
        /\ [m.swap_table EXCEPT ![s] = f] \in [Slot -> swap_entry]
    <3> HIDE DEF e, f
    <3> QED BY Zenon, <1>1, <1>2, <1>5
  <2>3. c \in Nat /\ m.num_swapped_pages + 1 \in Nat /\ m.swapped_pages + 1 \in Nat
    BY <1>1 DEF VMState
  <2> HIDE DEF q, e, f, c
  <2> QED BY <2>1, <2>2, <2>3, <1>1, Zenon DEF VMState
<1> HIDE DEF e, q
<1>7. /\ q.pages[i] = e
      /\ \A k \in Index : k # i => q.pages[k] = m.pages[k]
      /\ q.swap_table[s] = f
      /\ \A t \in Slot : t # s => q.swap_table[t] = m.swap_table[t]
  <2> HIDE DEF f
  <2> QED BY Zenon, <1>1, <1>2, <1>6
<1>8. /\ Live(q.pages) = Live(m.pages)
      /\ UsedSlots(q) = UsedSlots(m) \cup {s}
  BY <1>2, <1>5, <1>7 DEF Live, UsedSlots
<1>9. LiveFirst(q)
  <2>1. \A k \in Index : q.pages[k].va = m.pages[k].va
    BY Zenon, <1>5, <1>7
  <2> QED BY Zenon, <2>1, <1>8 DEF Consistent, LiveFirst, Live
<1>10. SlotsMatch(q)
  <2>1. ASSUME NEW t \in UsedSlots(q)
        PROVE  \E k \in Index : /\ q.pages[k].state = "SWAPPED"
                                /\ q.pages[k].va = q.swap_table[t].va
                                /\ q.pages[k].swap_slot = t
    <3>1. CASE t = s
      BY <3>1, <1>2, <1>3, <1>5, <1>7
    <3>2. CASE t # s
      <4>1. t \in UsedSlots(m) /\ t \in Slot
        BY Zenon, <3>2, <1>8 DEF UsedSlots
      <4>2. PICK k \in Index : /\ m.pages[k].state = "SWAPPED"
                               /\ m.pages[k].va = m.swap_table[t].va
                               /\ m.pages[k].swap_slot = t
        BY Zenon, <4>1 DEF Consistent, SlotsMatch
      <4>3. k # i
        BY Zenon, <4>2 DEF Resident
      <4> QED BY Zenon, <3>2, <4>1, <4>2, <4>3, <1>7
    <3> QED BY Zenon, <3>1, <3>2
  <2>2. ASSUME NEW k \in Index, q.pages[k].state = "SWAPPED"
        PROVE  /\ q.pages[k].swap_slot \in UsedSlots(q)
               /\ q.swap_table[q.pages[k].swap_slot].va = q.pages[k].va
    <3>1. CASE k = i
      BY <3>1, <1>3, <1>5, <1>7, <1>8
    <3>2. CASE k # i
      <4> DEFINE t == m.pages[k].swap_slot
      <4>1. t \in UsedSlots(m) /\ t \in Slot /\ m.swap_table[t].va = m.pages[k].va
        BY Zenon, <2>2, <3>2, <1>7 DEF Consistent, SlotsMatch, UsedSlots
      <4>2. t # s
        BY Zenon, <4>1, <1>4
      <4> QED BY Zenon, <3>2, <4>1, <4>2, <1>7, <1>8
    <3> QED BY Zenon, <3>1, <3>2
  <2> QED BY Zenon, <2>1, <2>2 DEF SlotsMatch
<1>11. SeqsOrdered(q)
  <2>1. \A k \in Index : q.pages[k].seq = m.pages[k].seq
    BY Zenon, <1>5, <1>7
  <2> QED BY Zenon, <2>1, <1>6, <1>8 DEF Consistent, SeqsOrdered, Live
<1>12. Consistent(q)
  BY Zenon, <1>6, <1>9, <1>10, <1>11 DEF Consistent
<1>13. n = q
  <2>1. q.pages[i].va = va /\ i \in Live(q.pages)
    BY Zenon, <1>2, <1>5, <1>7, <1>8
  <2>2. memstat_find_index(q.pages, va) = i
    BY <2>1, <1>6, <1>9, LiveEntryFound, Zenon
  <2> DEFINE g == [q.pages[i] EXCEPT !.va = uint(va), !.state = "SWAPPED",
                                     !.swap_slot = s]
             c == IF q.pages[i].state = "RESIDENT" /\ q.num_resident_pages > 0
                  THEN q.num_resident_pages - 1 ELSE q.num_resident_pages
  <2>3. g = q.pages[i]
    BY <1>3, <1>5, <1>7, Zenon DEF page_stat
  <2>4. q.pages[i].state # "RESIDENT"
    BY Zenon, <1>5, <1>7
  <2>5. q.pages \in [Index -> page_stat] /\ q \in VMState
    BY <1>6, Zenon DEF VMState
  <2>6. [q.pages EXCEPT ![i] = q.pages[i]] = q.pages
    BY Zenon, <2>5, <1>2
  <2>7. n = [q EXCEPT !.pages = [q.pages EXCEPT ![i] = g],
                      !.num_resident_pages = c]
    BY Zenon, <1>2, <2>2, <2>5 DEF memstat_mark_swapped, LeaveResident, VMState
  <2>8. c = q.num_resident_pages
    BY Zenon, <2>4
  <2> HIDE DEF n, g, c
  <2> QED BY <2>3, <2>5, <2>6, <2>7, <2>8, Zenon DEF VMState
<1>14. \A b : was_swapped(q.pages, b) => was_swapped(m.pages, b) \/ uint(b) = va
  BY Zenon, <1>5, <1>7 DEF was_swapped
<1>15. evict_dirty(m, va, s) = n
  BY Zenon DEF evict_dirty, q
<1> HIDE DEF n
<1> QED BY Zenon, <1>7, <1>12, <1>13, <1>14, <1>15

-----------------------------------------------------------------------------
(* The helpers keep the types, also where Consistent may fail. *)

\* The loops over memstat.pages return an index of the array or -1.
LEMMA IndexFound ==
  ASSUME NEW pages, NEW va
  PROVE  /\ first_with_va(pages, va) \in Index \cup {-1}
         /\ memstat_find_index(pages, va) \in Index \cup {-1}
<1>1. first_with_va(pages, va) \in Index \cup {-1}
  BY Zenon, FirstIndex DEF first_with_va
<1>2. memstat_find_index(pages, va) \in Index \cup {-1}
  <2> DEFINE live == {i \in Live(pages) : pages[i].va = uint(va)}
  <2>1. live \subseteq Index /\ Index \ Live(pages) \subseteq Index
    BY Zenon DEF Live
  <2>2. First(live) \in Index \cup {-1} /\ First(Index \ Live(pages)) \in Index \cup {-1}
    <3> HIDE DEF live
    <3> QED BY Zenon, <2>1, FirstIndex
  <2> QED BY Zenon, <2>2 DEF memstat_find_index
<1> QED BY Zenon, <1>1, <1>2

\* memstat_mark_resident() keeps the types.
LEMMA MarkResidentType ==
  ASSUME NEW m \in VMState, NEW va \in Page, NEW seq \in Nat
  PROVE  memstat_mark_resident(m, va, seq) \in VMState
<1> DEFINE i == memstat_find_index(m.pages, va)
           e == [va |-> uint(va), state |-> "RESIDENT", is_dirty |-> FALSE,
                 seq |-> seq, swap_slot |-> -1]
           c == IF m.pages[i].state # "RESIDENT"
                THEN m.num_resident_pages + 1 ELSE m.num_resident_pages
<1>1. i \in Index \cup {-1}
  BY Zenon, IndexFound
<1>2. e \in page_stat
  BY Zenon, UintInUVa DEF page_stat, PageState
<1>3. CASE i = -1
  BY Zenon, <1>3 DEF memstat_mark_resident
<1>4. CASE i # -1
  <2>1. m.pages \in [Index -> page_stat]
    BY Zenon DEF VMState
  <2>2. memstat_mark_resident(m, va, seq)
          = [m EXCEPT !.pages = [m.pages EXCEPT ![i] = e],
                      !.num_resident_pages = c]
    BY Zenon, <1>4, <2>1 DEF memstat_mark_resident, VMState
  <2>3. c \in Nat
    BY DEF VMState
  <2> HIDE DEF i, e, c
  <2>4. [m.pages EXCEPT ![i] = e] \in [Index -> page_stat]
    BY Zenon, <2>1, <1>1, <1>2, <1>4
  <2> QED BY <2>2, <2>3, <2>4, Zenon DEF VMState
<1> QED BY Zenon, <1>3, <1>4

\* memstat_mark_unmapped() and memstat_mark_swapped() keep the types.
LEMMA LeaveResidentType ==
  ASSUME NEW m \in VMState, NEW va \in Page, NEW state \in PageState,
         NEW slot \in Slot \cup {-1}
  PROVE  LeaveResident(m, va, state, slot) \in VMState
<1> DEFINE i == memstat_find_index(m.pages, va)
           e == [m.pages[i] EXCEPT !.va = uint(va), !.state = state,
                                   !.swap_slot = slot]
           c == IF m.pages[i].state = "RESIDENT" /\ m.num_resident_pages > 0
                THEN m.num_resident_pages - 1 ELSE m.num_resident_pages
<1>1. i \in Index \cup {-1}
  BY Zenon, IndexFound
<1>2. CASE i = -1
  BY Zenon, <1>2 DEF LeaveResident
<1>3. CASE i # -1
  <2>1. m.pages \in [Index -> page_stat]
    BY Zenon DEF VMState
  <2>2. m.pages[i] \in page_stat
    BY Zenon, <1>1, <1>3, <2>1
  <2>3. e \in page_stat
    <3> HIDE DEF i
    <3> QED BY <2>2, UintInUVa, Zenon DEF page_stat
  <2>4. LeaveResident(m, va, state, slot)
          = [m EXCEPT !.pages = [m.pages EXCEPT ![i] = e],
                      !.num_resident_pages = c]
    BY Zenon, <1>3, <2>1 DEF LeaveResident, VMState
  <2>5. c \in Nat
    BY DEF VMState
  <2> HIDE DEF i, e, c
  <2>6. [m.pages EXCEPT ![i] = e] \in [Index -> page_stat]
    BY Zenon, <2>1, <1>1, <2>3, <1>3
  <2> QED BY <2>4, <2>5, <2>6, Zenon DEF VMState
<1> QED BY Zenon, <1>2, <1>3

\* Setting is_dirty in an entry keeps the types.
LEMMA DirtyBitType ==
  ASSUME NEW m \in VMState, NEW i \in Index
  PROVE  [m EXCEPT !.pages[i].is_dirty = TRUE] \in VMState
<1> DEFINE e == [m.pages[i] EXCEPT !.is_dirty = TRUE]
<1>1. m.pages \in [Index -> page_stat] /\ m.pages[i] \in page_stat
  BY Zenon DEF VMState
<1>2. e \in page_stat
  BY <1>1, Zenon DEF page_stat
<1>3. [m EXCEPT !.pages[i].is_dirty = TRUE]
        = [m EXCEPT !.pages = [m.pages EXCEPT ![i] = e]]
  BY Zenon, <1>1 DEF VMState
<1> HIDE DEF e
<1>4. [m.pages EXCEPT ![i] = e] \in [Index -> page_stat]
  BY Zenon, <1>1, <1>2
<1> QED BY <1>3, <1>4, Zenon DEF VMState

\* usertrap() recording a store keeps the types.
LEMMA MarkDirtyType ==
  ASSUME NEW m \in VMState, NEW va
  PROVE  /\ mark_dirty_first(m, va) \in VMState
         /\ mark_dirty_resident(m, va) \in VMState
<1>1. mark_dirty_first(m, va) \in VMState
  BY Zenon, IndexFound, DirtyBitType DEF mark_dirty_first
<1>2. mark_dirty_resident(m, va) \in VMState
  <2> DEFINE S == {j \in Resident(m.pages) : m.pages[j].va = uint(va)}
  <2>1. S \subseteq Index
    BY Zenon DEF Resident
  <2>2. First(S) = -1 \/ First(S) \in Index
    BY Zenon, <2>1, FirstIndex
  <2> QED BY <2>2, DirtyBitType, Zenon DEF mark_dirty_resident
<1> QED BY Zenon, <1>1, <1>2

\* The end of usertrap()'s fault path keeps the types.
LEMMA BecameResidentType ==
  ASSUME NEW m \in VMState, NEW va \in Page, NEW dirty \in BOOLEAN
  PROVE  became_resident(m, va, dirty) \in VMState
<1> DEFINE b == [m EXCEPT !.next_fifo_seq = @ + 1]
           n == memstat_mark_resident(b, va, m.next_fifo_seq)
           d == IF dirty THEN mark_dirty_first(n, va) ELSE n
           r == [d EXCEPT !.resident_pages = @ + 1]
<1>1. b \in VMState /\ m.next_fifo_seq \in Nat
  BY DEF VMState
<1> HIDE DEF b
<1>2. n \in VMState
  BY Zenon, <1>1, MarkResidentType
<1> HIDE DEF n
<1>3. d \in VMState
  BY Zenon, <1>2, MarkDirtyType
<1> HIDE DEF d
<1>4. r \in VMState
  BY <1>3 DEF VMState
<1> QED BY Zenon, <1>4 DEF became_resident, r, d, n, b

\* proc_swapout_page() keeps the types.
LEMMA SwapoutType ==
  ASSUME NEW m \in VMState, NEW va \in Page, NEW s \in Slot
  PROVE  proc_swapout_page(m, va, s) \in VMState
<1> DEFINE i == first_with_va(m.pages, va)
           f == [used |-> TRUE, va |-> uint(va)]
           w == [m.swap_table EXCEPT ![s] = f]
           c == m.num_swapped_pages + 1
           t == [m EXCEPT !.swap_table = w, !.num_swapped_pages = c]
           e == [m.pages[i] EXCEPT !.state = "SWAPPED", !.swap_slot = s,
                                   !.is_dirty = FALSE]
<1>1. i \in Index \cup {-1}
  BY Zenon, IndexFound
<1>2. f \in swap_entry
  BY Zenon, UintInUVa DEF swap_entry
<1>3. m.pages \in [Index -> page_stat] /\ m.swap_table \in [Slot -> swap_entry]
  BY Zenon DEF VMState
<1>4. w \in [Slot -> swap_entry] /\ c \in Nat
  <2> HIDE DEF f
  <2> QED BY <1>2, <1>3 DEF VMState
<1>5. t \in VMState /\ t.pages = m.pages
  <2> HIDE DEF w, c
  <2> QED BY <1>4, Zenon DEF VMState
<1>6. CASE i = -1
  <2>1. proc_swapout_page(m, va, s) = t
    BY Zenon, <1>6 DEF proc_swapout_page, VMState
  <2> QED BY Zenon, <2>1, <1>5
<1>7. CASE i # -1
  <2>1. m.pages[i] \in page_stat
    BY Zenon, <1>1, <1>3, <1>7
  <2>2. e \in page_stat
    <3> HIDE DEF i
    <3> QED BY <2>1, Zenon DEF page_stat, PageState
  <2>3. proc_swapout_page(m, va, s)
          = [t EXCEPT !.pages = [m.pages EXCEPT ![i] = e]]
    BY Zenon, <1>3, <1>7 DEF proc_swapout_page, VMState
  <2> HIDE DEF i, e, t
  <2>4. [m.pages EXCEPT ![i] = e] \in [Index -> page_stat]
    BY Zenon, <1>1, <1>3, <1>7, <2>2
  <2> QED BY Zenon, <2>3, <2>4, <1>5 DEF VMState
<1> QED BY Zenon, <1>6, <1>7

\* swapin_page() keeps the types.
LEMMA SwapinType ==
  ASSUME NEW m \in VMState, NEW va \in Page, NEW s \in Slot
  PROVE  swapin_page(m, va, s) \in VMState
<1> DEFINE i == first_with_va(m.pages, va)
           f == [used |-> FALSE, va |-> 0]
           c == IF m.num_swapped_pages > 0 THEN m.num_swapped_pages - 1
                                           ELSE m.num_swapped_pages
           d == IF m.swapped_pages > 0 THEN m.swapped_pages - 1
                                       ELSE m.swapped_pages
           w == [m.swap_table EXCEPT ![s] = f]
           g == m.resident_pages + 1
           t == [m EXCEPT !.swap_table = w, !.num_swapped_pages = c,
                          !.swapped_pages = d, !.resident_pages = g]
           e == [m.pages[i] EXCEPT !.state = "RESIDENT", !.swap_slot = -1,
                                   !.is_dirty = FALSE]
<1>1. i \in Index \cup {-1}
  BY Zenon, IndexFound
<1>2. f \in swap_entry
  BY SizesAssumption DEF swap_entry, UVa, Page
<1>3. m.pages \in [Index -> page_stat] /\ m.swap_table \in [Slot -> swap_entry]
  BY Zenon DEF VMState
<1>4. w \in [Slot -> swap_entry] /\ c \in Nat /\ d \in Nat /\ g \in Nat
  <2> HIDE DEF f
  <2> QED BY <1>2, <1>3 DEF VMState
<1>5. t \in VMState /\ t.pages = m.pages
  <2> HIDE DEF w, c, d, g
  <2> QED BY <1>4, Zenon DEF VMState
<1>6. CASE i = -1
  <2>1. swapin_page(m, va, s) = t
    BY Zenon, <1>6 DEF swapin_page, VMState
  <2> QED BY Zenon, <2>1, <1>5
<1>7. CASE i # -1
  <2>1. m.pages[i] \in page_stat
    BY Zenon, <1>1, <1>3, <1>7
  <2>2. e \in page_stat
    <3> HIDE DEF i
    <3> QED BY <2>1, Zenon DEF page_stat, PageState
  <2>3. swapin_page(m, va, s) = [t EXCEPT !.pages = [m.pages EXCEPT ![i] = e]]
    BY Zenon, <1>3, <1>7 DEF swapin_page, VMState
  <2> HIDE DEF i, e, t
  <2>4. [m.pages EXCEPT ![i] = e] \in [Index -> page_stat]
    BY Zenon, <1>1, <1>3, <1>7, <2>2
  <2> QED BY Zenon, <2>3, <2>4, <1>5 DEF VMState
<1> QED BY Zenon, <1>6, <1>7

\* memstat_mark_unmapped() keeps the types.
LEMMA MarkUnmappedType ==
  ASSUME NEW m \in VMState, NEW va \in Page
  PROVE  memstat_mark_unmapped(m, va) \in VMState
BY Zenon, LeaveResidentType DEF memstat_mark_unmapped, PageState

\* try_kalloc_or_replace() discarding a clean page keeps the types.
LEMMA EvictCleanType ==
  ASSUME NEW m \in VMState, NEW va \in Page
  PROVE  evict_clean(m, va) \in VMState
<1> DEFINE n == memstat_mark_unmapped(m, va)
<1>1. n \in VMState
  BY Zenon, MarkUnmappedType
<1> HIDE DEF n
<1>2. [n EXCEPT !.resident_pages = IF @ > 0 THEN @ - 1 ELSE @] \in VMState
  BY <1>1 DEF VMState
<1> QED BY Zenon, <1>2 DEF evict_clean, n

\* try_kalloc_or_replace() swapping a dirty page out keeps the types.
LEMMA EvictDirtyType ==
  ASSUME NEW m \in VMState, NEW va \in Page, NEW s \in Slot
  PROVE  evict_dirty(m, va, s) \in VMState
<1> DEFINE q == proc_swapout_page(m, va, s)
           r == IF q.resident_pages > 0 THEN q.resident_pages - 1
                                        ELSE q.resident_pages
           o == q.swapped_pages + 1
           n == [q EXCEPT !.resident_pages = r, !.swapped_pages = o]
<1>1. q \in VMState
  BY Zenon, SwapoutType
<1> HIDE DEF q
<1>2. r \in Nat /\ o \in Nat
  BY <1>1 DEF VMState
<1> HIDE DEF r, o
<1>3. n \in VMState
  BY <1>1, <1>2, Zenon DEF VMState
<1> HIDE DEF n
<1>4. memstat_mark_swapped(n, va, s) \in VMState
  BY Zenon, <1>3, LeaveResidentType DEF memstat_mark_swapped, PageState
<1> QED BY Zenon, <1>4 DEF evict_dirty, n, r, o, q

\* Creating and cleaning up the swap file keeps the types.
LEMMA SwapfileTypes ==
  ASSUME NEW m \in VMState
  PROVE  swapfile_create(m) \in VMState /\ swapfile_cleanup(m) \in VMState
<1>1. [s \in Slot |-> [used |-> FALSE, va |-> 0]] \in [Slot -> swap_entry]
  BY SizesAssumption DEF swap_entry, UVa, Page
<1> QED BY <1>1, Zenon DEF swapfile_create, swapfile_cleanup, VMState

\* Every victim that either policy may choose is a RESIDENT entry.
LEMMA VictimResident ==
  ASSUME NEW pages, NEW i \in select_victim(pages)
  PROVE  i \in Resident(pages)
BY Zenon DEF select_victim, select_victim_fifo_index,
   select_victim_cleanfifo_index,
       OldestOf

\* The victim is the oldest candidate: under FIFO every other resident entry
\* is younger; under clean-first every other clean one is, or every other one
\* when none is clean.
LEMMA VictimOldest ==
  ASSUME NEW m, Consistent(m), NEW i \in select_victim(m.pages),
         NEW j \in Resident(m.pages), j # i
  PROVE  LET x == m.pages[i]
             y == m.pages[j]
         IN  IF Policy = "FIFO" \/ x.is_dirty = y.is_dirty
             THEN x.seq < y.seq ELSE ~x.is_dirty
<1>1. i \in Resident(m.pages)
  BY Zenon, VictimResident
<1>2. /\ i \in Live(m.pages) /\ j \in Live(m.pages)
      /\ m.pages[i] \in page_stat /\ m.pages[j] \in page_stat
  BY Zenon, <1>1 DEF Resident, Live, Consistent, VMState
<1>3. m.pages[i].seq # m.pages[j].seq
  BY Zenon, <1>2 DEF Consistent, SeqsOrdered
<1>4. Older(m.pages, i, j) => m.pages[i].seq < m.pages[j].seq
  BY Zenon, <1>3 DEF Older
<1>5. Policy = "FIFO" => Older(m.pages, i, j)
  BY Zenon DEF select_victim, select_victim_fifo_index, OldestOf
<1>6. ASSUME Policy # "FIFO"
      PROVE  IF m.pages[i].is_dirty = m.pages[j].is_dirty
             THEN Older(m.pages, i, j) ELSE ~m.pages[i].is_dirty
  <2> DEFINE clean == {k \in Resident(m.pages) : ~m.pages[k].is_dirty}
  <2>1. i \in OldestOf(m.pages, IF clean # {} THEN clean ELSE Resident(m.pages))
    BY <1>6, Zenon DEF select_victim, select_victim_cleanfifo_index
  <2>2. m.pages[i].is_dirty \in BOOLEAN /\ m.pages[j].is_dirty \in BOOLEAN
    BY Zenon, <1>2 DEF page_stat
  <2> QED BY <2>1, <2>2, Zenon DEF OldestOf
<1> QED BY Zenon, <1>4, <1>5, <1>6

-----------------------------------------------------------------------------
(* The slots in use. *)

\* Updates of memstat and of the counters use and free no slot.
LEMMA SlotsKept ==
  ASSUME NEW m \in VMState, NEW va \in Page, NEW dirty \in BOOLEAN
  PROVE  /\ UsedSlots(mark_dirty_first(m, va)) = UsedSlots(m)
         /\ UsedSlots(mark_dirty_resident(m, va)) = UsedSlots(m)
         /\ UsedSlots(memstat_mark_unmapped(m, va)) = UsedSlots(m)
         /\ UsedSlots(evict_clean(m, va)) = UsedSlots(m)
         /\ UsedSlots(became_resident(m, va, dirty)) = UsedSlots(m)
         /\ UsedSlots(swapfile_create(m)) = UsedSlots(m)
<1>1. \A n \in VMState : mark_dirty_first(n, va).swap_table = n.swap_table
  BY Zenon DEF mark_dirty_first, VMState
<1>2. mark_dirty_resident(m, va).swap_table = m.swap_table
  BY Zenon DEF mark_dirty_resident, VMState
<1>3. memstat_mark_unmapped(m, va).swap_table = m.swap_table
  BY Zenon DEF memstat_mark_unmapped, LeaveResident, VMState
<1>4. evict_clean(m, va).swap_table = m.swap_table
  <2> DEFINE n == memstat_mark_unmapped(m, va)
  <2>1. n \in VMState
    BY Zenon, MarkUnmappedType
  <2> HIDE DEF n
  <2>2. [n EXCEPT !.resident_pages = IF @ > 0 THEN @ - 1 ELSE @].swap_table
          = n.swap_table
    BY Zenon, <2>1 DEF VMState
  <2> QED BY Zenon, <1>3, <2>2 DEF evict_clean, n
<1>5. became_resident(m, va, dirty).swap_table = m.swap_table
  <2> DEFINE b == [m EXCEPT !.next_fifo_seq = @ + 1]
             n == memstat_mark_resident(b, va, m.next_fifo_seq)
             d == IF dirty THEN mark_dirty_first(n, va) ELSE n
  <2>1. b \in VMState /\ m.next_fifo_seq \in Nat /\ b.swap_table = m.swap_table
    BY DEF VMState
  <2> HIDE DEF b
  <2>2. n.swap_table = b.swap_table
    BY Zenon, <2>1 DEF memstat_mark_resident, VMState
  <2>3. n \in VMState
    BY Zenon, <2>1, MarkResidentType
  <2> HIDE DEF n
  <2>4. d \in VMState /\ d.swap_table = n.swap_table
    BY <1>1, <2>3, MarkDirtyType, Zenon
  <2> HIDE DEF d
  <2>5. [d EXCEPT !.resident_pages = @ + 1].swap_table = d.swap_table
    BY Zenon, <2>4 DEF VMState
  <2> QED BY Zenon, <2>1, <2>2, <2>4, <2>5 DEF became_resident, d, n, b
<1>6. swapfile_create(m).swap_table = m.swap_table
  BY Zenon DEF swapfile_create, VMState
<1> QED BY Zenon, <1>1, <1>2, <1>3, <1>4, <1>5, <1>6 DEF UsedSlots

\* Eviction of a dirty page takes at most the one slot it wrote.
LEMMA EvictDirtySlots ==
  ASSUME NEW m \in VMState, NEW va \in Page, NEW s \in Slot
  PROVE  UsedSlots(evict_dirty(m, va, s)) \subseteq UsedSlots(m) \cup {s}
<1> DEFINE q == proc_swapout_page(m, va, s)
           r == IF q.resident_pages > 0 THEN q.resident_pages - 1
                                        ELSE q.resident_pages
           o == q.swapped_pages + 1
           n == [q EXCEPT !.resident_pages = r, !.swapped_pages = o]
<1>1. q.swap_table
        = [m.swap_table EXCEPT ![s] = [used |-> TRUE, va |-> uint(va)]]
  BY Zenon DEF proc_swapout_page, VMState
<1>2. q \in VMState
  BY Zenon, SwapoutType
<1> HIDE DEF q
<1>3. n \in VMState /\ n.swap_table = q.swap_table
  <2>1. r \in Nat /\ o \in Nat
    BY <1>2 DEF VMState
  <2> HIDE DEF r, o
  <2> QED BY <1>2, <2>1, Zenon DEF VMState
<1> HIDE DEF n
<1>4. memstat_mark_swapped(n, va, s).swap_table = n.swap_table
  BY Zenon, <1>3 DEF memstat_mark_swapped, LeaveResident, VMState
<1>5. evict_dirty(m, va, s).swap_table = q.swap_table
  BY Zenon, <1>3, <1>4 DEF evict_dirty, n, r, o, q
<1>6. \A t \in Slot : t # s => q.swap_table[t] = m.swap_table[t]
  BY Zenon, <1>1 DEF VMState
<1> QED BY Zenon, <1>5, <1>6 DEF UsedSlots

\* A swap-in, a cleanup and allocproc() take no slot, and swapin_page() reads
\* a slot that is in use.
LEMMA SwapinSlots ==
  ASSUME NEW m \in VMState, NEW va \in Page
  PROVE  /\ \A s \in Slot : UsedSlots(swapin_page(m, va, s)) \subseteq UsedSlots(m)
         /\ UsedSlots(swapfile_cleanup(m)) = {}
         /\ UsedSlots(FreshVM) = {}
         /\ swapin_slot(m, va) \in Slot => swapin_slot(m, va) \in UsedSlots(m)
<1>1. ASSUME NEW s \in Slot
      PROVE  UsedSlots(swapin_page(m, va, s)) \subseteq UsedSlots(m)
  <2>1. swapin_page(m, va, s).swap_table
          = [m.swap_table EXCEPT ![s] = [used |-> FALSE, va |-> 0]]
    BY Zenon DEF swapin_page, VMState
  <2>2. swapin_page(m, va, s).swap_table[s].used = FALSE
    BY <2>1 DEF VMState
  <2>3. \A t \in Slot : t # s =>
          swapin_page(m, va, s).swap_table[t] = m.swap_table[t]
    BY Zenon, <2>1 DEF VMState
  <2> QED BY Zenon, <2>2, <2>3 DEF UsedSlots
<1>2. UsedSlots(swapfile_cleanup(m)) = {}
  BY Zenon DEF UsedSlots, swapfile_cleanup, VMState
<1>3. UsedSlots(FreshVM) = {}
  BY Zenon DEF UsedSlots, FreshVM
<1>4. ASSUME swapin_slot(m, va) \in Slot
      PROVE  swapin_slot(m, va) \in UsedSlots(m)
  <2> DEFINE S == {s \in UsedSlots(m) : m.swap_table[s].va = va}
  <2>1. S \subseteq Slot /\ swapin_slot(m, va) = First(S)
    BY Zenon DEF UsedSlots, swapin_slot
  <2>2. First(S) # -1
    BY <1>4, <2>1 DEF Slot
  <2> HIDE DEF S
  <2>3. First(S) \in S
    BY Zenon, <2>1, <2>2, FirstSlot
  <2> QED BY Zenon, <2>1, <2>3 DEF S
<1> QED BY Zenon, <1>1, <1>2, <1>3, <1>4
=============================================================================
