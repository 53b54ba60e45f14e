------------------------------- MODULE ProcVM -------------------------------
(***************************************************************************)
(* The demand-paging bookkeeping that struct proc carries (kernel/proc.h): *)
(* the page table of statistics memstat.pages, the FIFO sequence counter,  *)
(* the table of swap slots and the counters beside them, together with the *)
(* helpers of kernel/vm.c and kernel/swap.c that update them.              *)
(*                                                                         *)
(* The bookkeeping of one process is a record m.  A helper of the C code   *)
(* that assigns fields of *p is an operator from m to the updated m.       *)
(* Addresses are page numbers.  Index -1 stands for "not found".           *)
(***************************************************************************)
EXTENDS Integers, FiniteSets

CONSTANTS
  NPAGES,           \* user pages 0 .. NPAGES-1 (TRAPFRAME/PGSIZE in the code)
  UINT_PAGES,       \* pages an unsigned 32-bit address can name (2^20)
  MAX_PAGES_INFO,   \* entries of memstat.pages (128)
  MAX_SWAP_PAGES,   \* entries of swap_table (1024)
  SWAPFILE_PAGES,   \* pages a file can hold (MAXFILE*BSIZE/PGSIZE = 67)
  Policy            \* "FIFO" in vm.c, "CLEANFIFO" in vm_bonus.c

ASSUME SizesAssumption ==
  /\ NPAGES \in Nat \ {0}
  /\ UINT_PAGES \in Nat \ {0}
  /\ MAX_PAGES_INFO \in Nat
  /\ MAX_SWAP_PAGES \in Nat
  /\ SWAPFILE_PAGES \in Nat

ASSUME PolicyAssumption == Policy \in {"FIFO", "CLEANFIFO"}

Page == 0 .. NPAGES - 1
Index == 0 .. MAX_PAGES_INFO - 1
Slot == 0 .. MAX_SWAP_PAGES - 1

\* An address stored in a field of C type uint keeps its low 32 bits.
uint(va) == va % UINT_PAGES

UVa == {a \in Page : a < UINT_PAGES}

PageState == {"UNMAPPED", "RESIDENT", "SWAPPED"}

page_stat ==
  [va : UVa, state : PageState, is_dirty : BOOLEAN, seq : Nat,
   swap_slot : Slot \cup {-1}]

swap_entry == [used : BOOLEAN, va : UVa]

VMState ==
  [pages : [Index -> page_stat],
   next_fifo_seq : Nat,
   num_resident_pages : Nat,
   swap_table : [Slot -> swap_entry],
   num_swapped_pages : Nat,
   swapped_pages : Nat,
   resident_pages : Nat,
   swapfile : BOOLEAN]

\* What allocproc() stores in a process slot before it is used.
FreshVM ==
  [pages |-> [i \in Index |-> [va |-> 0, state |-> "UNMAPPED",
                               is_dirty |-> FALSE, seq |-> 0,
                               swap_slot |-> -1]],
   next_fifo_seq |-> 0,
   num_resident_pages |-> 0,
   swap_table |-> [s \in Slot |-> [used |-> FALSE, va |-> 0]],
   num_swapped_pages |-> 0,
   swapped_pages |-> 0,
   resident_pages |-> 0,
   swapfile |-> FALSE]

-----------------------------------------------------------------------------
(* Lookups. *)

\* The element a loop counting up from 0 meets first.
First(S) == IF S = {} THEN -1 ELSE CHOOSE i \in S : \A j \in S : i <= j

Live(pages) == {i \in Index : pages[i].state # "UNMAPPED"}
Resident(pages) == {i \in Index : pages[i].state = "RESIDENT"}
UsedSlots(m) == {s \in Slot : m.swap_table[s].used}

\* The loops of trap.c and swap.c that stop at the first entry with the
\* address, whatever its state.
first_with_va(pages, va) == First({i \in Index : pages[i].va = va})

memstat_find_index(pages, va) ==
  LET live == {i \in Live(pages) : pages[i].va = uint(va)}
  IN  First(IF live # {} THEN live ELSE Index \ Live(pages))

was_swapped(pages, va) ==
  \E i \in Index : pages[i].state = "SWAPPED" /\ pages[i].va = uint(va)

\* Mutant: the loop compares addresses only.
Older_ByAddress(pages, i, j) == pages[i].va <= pages[j].va

\* Entry i is evicted no later than entry j by a loop that keeps the
\* smallest (seq, va).
Older(pages, i, j) ==
  \/ pages[i].seq < pages[j].seq
  \/ pages[i].seq = pages[j].seq /\ pages[i].va <= pages[j].va

OldestOf(pages, S) ==
  {i \in S : \A j \in S : Older(pages, i, j)}

select_victim_fifo_index(pages) == OldestOf(pages, Resident(pages))

\* Mutant: clean pages are not preferred.
select_victim_cleanfifo_index_Plain(pages) ==
  OldestOf(pages, Resident(pages))

select_victim_cleanfifo_index(pages) ==
  LET clean == {i \in Resident(pages) : ~pages[i].is_dirty}
  IN  OldestOf(pages, IF clean # {} THEN clean ELSE Resident(pages))

\* The indices the configured kernel may pick: none when nothing is
\* resident.
select_victim(pages) ==
  IF Policy = "FIFO" THEN select_victim_fifo_index(pages)
                     ELSE select_victim_cleanfifo_index(pages)

-----------------------------------------------------------------------------
(* Updates. *)

memstat_mark_resident(m, va, seq) ==
  LET i == memstat_find_index(m.pages, va)
  IN  IF i = -1 THEN m
      ELSE [m EXCEPT
              !.pages[i] = [va |-> uint(va), state |-> "RESIDENT",
                            is_dirty |-> FALSE, seq |-> seq,
                            swap_slot |-> -1],
              !.num_resident_pages =
                 IF m.pages[i].state # "RESIDENT" THEN @ + 1 ELSE @]

\* The common part of memstat_mark_unmapped and memstat_mark_swapped.
LeaveResident(m, va, state, slot) ==
  LET i == memstat_find_index(m.pages, va)
  IN  IF i = -1 THEN m
      ELSE [m EXCEPT
              !.pages[i] = [@ EXCEPT !.va = uint(va), !.state = state,
                                     !.swap_slot = slot],
              !.num_resident_pages =
                 IF m.pages[i].state = "RESIDENT" /\ @ > 0 THEN @ - 1 ELSE @]

memstat_mark_unmapped(m, va) == LeaveResident(m, va, "UNMAPPED", -1)

memstat_mark_swapped(m, va, slot) == LeaveResident(m, va, "SWAPPED", slot)

\* is_dirty = 1 in the first entry with the address, if there is one.
mark_dirty_first(m, va) ==
  LET i == first_with_va(m.pages, uint(va))
  IN  IF i = -1 THEN m ELSE [m EXCEPT !.pages[i].is_dirty = TRUE]

\* is_dirty = 1 in the first RESIDENT entry with the address.
mark_dirty_resident(m, va) ==
  LET i == First({j \in Resident(m.pages) : m.pages[j].va = uint(va)})
  IN  IF i = -1 THEN m ELSE [m EXCEPT !.pages[i].is_dirty = TRUE]

\* Mutant: the store that faulted does not make the page dirty.
became_resident_Clean(m, va, dirty) ==
  LET n == memstat_mark_resident(
             [m EXCEPT !.next_fifo_seq = @ + 1], va, m.next_fifo_seq)
  IN  [n EXCEPT !.resident_pages = @ + 1]

\* The tail of the fault handler once the page is mapped: next sequence
\* number, RESIDENT, dirty when a store to an anonymous page faulted.
became_resident(m, va, dirty) ==
  LET n == memstat_mark_resident(
             [m EXCEPT !.next_fifo_seq = @ + 1], va, m.next_fifo_seq)
      d == IF dirty THEN mark_dirty_first(n, va) ELSE n
  IN  [d EXCEPT !.resident_pages = @ + 1]

\* proc_swapout_page looks for the first slot that is not in use.
free_slot(m) == First(Slot \ UsedSlots(m))

\* proc_swapout_page after the page has been written to the slot.
proc_swapout_page(m, va, slot) ==
  LET i == first_with_va(m.pages, va)
      t == [m EXCEPT !.swap_table[slot] = [used |-> TRUE, va |-> uint(va)],
                     !.num_swapped_pages = @ + 1]
  IN  IF i = -1 THEN t
      ELSE [t EXCEPT !.pages[i] = [@ EXCEPT !.state = "SWAPPED",
                                            !.swap_slot = slot,
                                            !.is_dirty = FALSE]]

\* swapin_page compares the 32-bit field with the full address.
swapin_slot(m, va) ==
  First({s \in UsedSlots(m) : m.swap_table[s].va = va})

\* Mutant: the slot stays in use.
swapin_page_KeepsSlot(m, va, slot) ==
  LET i == first_with_va(m.pages, va)
  IN  IF i = -1 THEN m
      ELSE [m EXCEPT !.pages[i] = [@ EXCEPT !.state = "RESIDENT",
                                            !.swap_slot = -1,
                                            !.is_dirty = FALSE],
                     !.resident_pages = @ + 1]

\* swapin_page after the slot has been read.
swapin_page(m, va, slot) ==
  LET i == first_with_va(m.pages, va)
      t == [m EXCEPT
              !.swap_table[slot] = [used |-> FALSE, va |-> 0],
              !.num_swapped_pages = IF @ > 0 THEN @ - 1 ELSE @,
              !.swapped_pages = IF @ > 0 THEN @ - 1 ELSE @,
              !.resident_pages = @ + 1]
  IN  IF i = -1 THEN t
      ELSE [t EXCEPT !.pages[i] = [@ EXCEPT !.state = "RESIDENT",
                                            !.swap_slot = -1,
                                            !.is_dirty = FALSE]]

\* try_kalloc_or_replace: the victim's frame is mapped and dirty.
evict_dirty(m, va, slot) ==
  LET n == [proc_swapout_page(m, va, slot) EXCEPT
              !.resident_pages = IF @ > 0 THEN @ - 1 ELSE @,
              !.swapped_pages = @ + 1]
  IN  memstat_mark_swapped(n, va, slot)

\* try_kalloc_or_replace: the victim's frame is mapped and clean.
evict_clean(m, va) ==
  LET n == memstat_mark_unmapped(m, va)
  IN  [n EXCEPT !.resident_pages = IF @ > 0 THEN @ - 1 ELSE @]

swapfile_create(m) == [m EXCEPT !.swapfile = TRUE]

swapfile_cleanup(m) ==
  [m EXCEPT !.swap_table = [s \in Slot |-> [used |-> FALSE, va |-> 0]],
            !.num_swapped_pages = 0,
            !.swapfile = FALSE]

-----------------------------------------------------------------------------
(* What the bookkeeping of a live process must satisfy. *)

\* memstat: an entry in use is the first one of the array with its address.
\* So the helpers that take the first match whatever its state (trap.c,
\* swap.c) and those that skip UNMAPPED entries (memstat_find_index) agree
\* on the entry of a page, although UNMAPPED entries keep old addresses.
LiveFirst(m) ==
  \A i \in Live(m.pages), j \in Index :
    m.pages[j].va = m.pages[i].va => i <= j

\* swap_table and memstat describe the same pages: a used slot belongs to
\* the one SWAPPED entry with its address, and a SWAPPED entry names the
\* used slot that holds its page.
SlotsMatch(m) ==
  /\ \A s \in UsedSlots(m) : \E i \in Index :
       /\ m.pages[i].state = "SWAPPED"
       /\ m.pages[i].va = m.swap_table[s].va
       /\ m.pages[i].swap_slot = s
  /\ \A i \in Index : m.pages[i].state = "SWAPPED" =>
       /\ m.pages[i].swap_slot \in UsedSlots(m)
       /\ m.swap_table[m.pages[i].swap_slot].va = m.pages[i].va

\* The residence order is total: entries in use carry different sequence
\* numbers, all of them already handed out.  (A SWAPPED entry keeps its
\* number, and gets it back when its swap-in succeeds but mappages fails.)
SeqsOrdered(m) ==
  /\ \A i \in Live(m.pages) : m.pages[i].seq < m.next_fifo_seq
  /\ \A i, j \in Live(m.pages) :
       m.pages[i].seq = m.pages[j].seq => i = j
=============================================================================
