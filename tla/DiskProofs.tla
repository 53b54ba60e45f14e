----------------------------- MODULE DiskProofs -----------------------------
(***************************************************************************)
(* Theorems about the disk driver and the buffer cache, for any number of  *)
(* threads, buffers, blocks and descriptors and any range of the ring      *)
(* indices that is a multiple of the ring size: completions reach the      *)
(* request they belong to and no sleeping request is forgotten.            *)
(***************************************************************************)
EXTENDS Bcache, TLAPS

-----------------------------------------------------------------------------
(* The inductive invariant. *)

RingIndex == 0 .. IDXMOD - 1
Ring == [ring : [Desc -> Desc], idx : RingIndex]
Op == [write : BOOLEAN, sector : BlockNo \cup {NoBlock}]
Descriptor == [op : Op, addr : Buf \cup {NoBuf}, next : Desc, more : BOOLEAN]
Info == [b : Buf \cup {NoBuf}, status : {0, 255}]
Rw == [at : {"none", "try", "no_desc", "asleep", "awake"},
       buf : Buf \cup {NoBuf}, write : BOOLEAN, idx : Desc]

\* Types of the driver's and the device's state.
DiskTypes ==
  /\ free \in [Desc -> BOOLEAN]
  /\ desc \in [Desc -> Descriptor] /\ info \in [Desc -> Info]
  /\ avail \in Ring /\ used \in Ring /\ used_idx \in RingIndex
  /\ rw \in [Proc -> Rw] /\ busy \in [Buf -> BOOLEAN]
  /\ device \in [seen : RingIndex, work : SUBSET Desc, intr : BOOLEAN]

\* Types of what the cache says about a buffer; its list holds every one.
CacheTypes ==
  /\ bno \in [Buf -> BlockNo \cup {NoBlock}]
  /\ lru \in [Buf -> Buf] /\ \A b \in Buf : \E i \in Buf : lru[i] = b
  /\ lock \in [Buf -> Proc \cup {Nobody}]
  /\ pc \in [Proc -> {"idle", "lock", "reading", "writing", "have", "drop"}]
  /\ cur \in [Proc -> Buf \cup {NoBuf}]

\* A request is made by the thread that has locked the buffer.
Locking ==
  /\ \A p \in Proc : pc[p] = "idle" <=> cur[p] = NoBuf
  /\ \A p \in Proc, b \in Buf :
       lock[b] = p <=> pc[p] \in {"reading", "writing", "have"} /\ cur[p] = b
  /\ \A p \in Proc : rw[p].at # "none" <=> pc[p] \in {"reading", "writing"}
  /\ \A p \in Proc : rw[p].at # "none" => rw[p].buf = cur[p]

\* A request in progress has a chain of three descriptors.
HasChain(p) ==
  \E i, j, k \in Desc :
    /\ i = rw[p].idx /\ j = desc[i].next /\ k = desc[j].next
    /\ desc[i].more /\ desc[j].more /\ i # j /\ j # k /\ i # k
    /\ ~free[i] /\ ~free[j] /\ ~free[k]

\* Descriptors: those in use are the chains of the requests, three each.
Chained ==
  /\ \A i \in Desc : ~free[i] => \E p \in Requests : i \in ChainOf(p)
  /\ \A p \in Requests : HasChain(p)
  /\ \A p, q \in Requests : p # q => ChainOf(p) \cap ChainOf(q) = {}

\* Where a request that the device or the handler has yet to deal with is.
InFlight == Announced \cup device.work \cup Unseen

\* No two entries of a ring between the two indices are equal.
DistinctEntries(ring, from, to) ==
  \A k, l \in 0 .. Ahead(from, to) - 1 :
    ring[(from + k) % NUM] = ring[(from + l) % NUM] => k = l

\* A request is in one place at a time.
Rings ==
  /\ DistinctEntries(avail.ring, device.seen, avail.idx)
  /\ DistinctEntries(used.ring, used_idx, used.idx)
  /\ Announced \cap device.work = {} /\ Announced \cap Unseen = {}
  /\ device.work \cap Unseen = {}

\* It is in flight exactly as long as b->disk is set.
Flights ==
  /\ \A i \in InFlight : \E p \in Requests : rw[p].idx = i /\ busy[rw[p].buf]
  /\ \A p \in Requests : busy[rw[p].buf] => rw[p].idx \in InFlight

\* What the handler finds about a request in progress.
Formatted ==
  /\ \A p \in Requests : info[rw[p].idx].b = rw[p].buf
  /\ \A i \in Unseen : info[i].status = 0

\* What a sleeping thread relies on.
Waking ==
  /\ used_idx # used.idx => device.intr \/ handling
  /\ \A p \in Proc : rw[p].at = "asleep" => busy[rw[p].buf]
  /\ \A p \in Proc : rw[p].at = "no_desc" => Requests # {}

DiskInv ==
  /\ DiskTypes /\ CacheTypes /\ Locking /\ Chained /\ Rings /\ Flights
  /\ Formatted /\ Waking

-----------------------------------------------------------------------------
(* Rings. *)

\* Remainders: the only r below m that differs from x by a multiple of m.
LEMMA ModUnique ==
  ASSUME NEW m \in Nat, m > 0, NEW q \in Int, NEW r \in 0 .. m - 1
  PROVE  (m * q + r) % m = r
  OBVIOUS

\* The small cases: no wrap, and one.
LEMMA ModSmall ==
  ASSUME NEW m \in Nat, m > 0, NEW x \in 0 .. 2 * m - 1
  PROVE  x % m = IF x < m THEN x ELSE x - m
  OBVIOUS

\* A ring index may wrap without moving its place in the ring.
LEMMA WrapKeepsPlace ==
  ASSUME NEW x \in Nat
  PROVE  (x + IDXMOD) % NUM = x % NUM
<1> DEFINE c == IDXMOD \div NUM
           q == x \div NUM
           r == x % NUM
<1>1. NUM \in Nat /\ NUM > 0 /\ IDXMOD \in Nat
  BY DiskAssumption
<1>2. IDXMOD = NUM * c /\ c \in Int
  BY DiskAssumption
<1>3. x = NUM * q + r /\ q \in Int /\ r \in 0 .. NUM - 1
  BY <1>1
<1>4. x + IDXMOD = NUM * (q + c) + r
  <2> HIDE DEF c, q, r
  <2> QED BY <1>1, <1>2, <1>3
<1>5. (NUM * (q + c) + r) % NUM = r
  <2> HIDE DEF c, q, r
  <2> QED BY <1>1, <1>2, <1>3, ModUnique
<1> QED BY <1>4, <1>5, Zenon

\* Places are those of the descriptors.
LEMMA PlaceIsDesc ==
  ASSUME NEW x \in Nat
  PROVE  x % NUM \in Desc
  BY DiskAssumption DEF Desc

\* How far apart two indices are.
LEMMA AheadValue ==
  ASSUME NEW from \in RingIndex, NEW to \in RingIndex
  PROVE  /\ Ahead(from, to) = IF from <= to THEN to - from
                              ELSE to + IDXMOD - from
         /\ Ahead(from, to) \in RingIndex
<1>1. IDXMOD \in Nat /\ IDXMOD > 0
  BY Zenon, DiskAssumption
<1> DEFINE x == to + IDXMOD - from
<1>2. x \in 0 .. 2 * IDXMOD - 1 /\ (x < IDXMOD <=> to < from)
  BY <1>1 DEF RingIndex
<1>3. x % IDXMOD = IF x < IDXMOD THEN x ELSE x - IDXMOD
  <2> HIDE DEF x
  <2> QED BY Zenon, <1>1, <1>2, ModSmall
<1> QED BY <1>1, <1>2, <1>3 DEF Ahead, RingIndex

\* Different positions below NUM are different places in the ring.
LEMMA PlacesDiffer ==
  ASSUME NEW x \in Nat, NEW k \in Nat, NEW l \in Nat, k < l, l < NUM
  PROVE  (x + k) % NUM # (x + l) % NUM
<1>1. NUM \in Nat /\ NUM > 0
  BY DiskAssumption
<1> DEFINE q == (x + k) \div NUM
           r == (x + k) % NUM
           s == r + (l - k)
<1>2. x + k = NUM * q + r /\ q \in Int /\ r \in 0 .. NUM - 1
  BY <1>1
<1>3. CASE s < NUM
  <2>1. (NUM * q + s) % NUM = s
    <3>1. s \in 0 .. NUM - 1
      BY <1>1, <1>2, <1>3
    <3> HIDE DEF q, s
    <3> QED BY Zenon, <1>1, <1>2, <3>1, ModUnique
  <2>2. x + l = NUM * q + s
    <3> HIDE DEF q, r
    <3> QED BY <1>1, <1>2
  <2> QED BY <1>2, <2>1, <2>2
<1>4. CASE s >= NUM
  <2> DEFINE t == s - NUM
  <2>1. (NUM * (q + 1) + t) % NUM = t
    <3>1. t \in 0 .. NUM - 1
      BY <1>1, <1>2, <1>4
    <3>2. q + 1 \in Int
      BY <1>2
    <3> HIDE DEF q, t
    <3> QED BY <1>1, <3>1, <3>2, ModUnique, Zenon
  <2>2. x + l = NUM * (q + 1) + t
    <3> HIDE DEF q, r
    <3> QED BY <1>1, <1>2
  <2>3. t # r
    BY <1>1, <1>2
  <2> QED BY Zenon, <2>1, <2>2, <2>3
<1> QED BY <1>1, <1>2, <1>3, <1>4

\* The place after the last entry.
LEMMA PlaceOf ==
  ASSUME NEW from \in RingIndex, NEW to \in RingIndex
  PROVE  to % NUM = (from + Ahead(from, to)) % NUM
<1>1. IDXMOD \in Nat /\ IDXMOD > 0
  BY Zenon, DiskAssumption
<1>2. CASE from <= to
  BY <1>1, <1>2, AheadValue DEF RingIndex
<1>3. CASE from > to
  <2>1. from + Ahead(from, to) = to + IDXMOD /\ to \in Nat
    BY <1>1, <1>3, AheadValue DEF RingIndex
  <2> QED BY Zenon, <2>1, WrapKeepsPlace
<1> QED BY <1>1, <1>2, <1>3 DEF RingIndex

\* A new entry goes to a place that no entry between the indices has.
LEMMA PushEntry ==
  ASSUME NEW ring \in [Desc -> Desc], NEW from \in RingIndex,
         NEW to \in RingIndex, NEW i \in Desc,
         Ahead(from, to) + 1 < NUM, DistinctEntries(ring, from, to),
         i \notin Entries(ring, from, to)
  PROVE  LET r == [ring EXCEPT ![to % NUM] = i]
             u == (to + 1) % IDXMOD
         IN  /\ u \in RingIndex /\ r \in [Desc -> Desc] /\ u # from
             /\ Entries(r, from, u) = Entries(ring, from, to) \cup {i}
             /\ DistinctEntries(r, from, u)
<1> DEFINE r == [ring EXCEPT ![to % NUM] = i]
           u == (to + 1) % IDXMOD
           d == Ahead(from, to)
           at(k) == (from + k) % NUM
<1>1. IDXMOD \in Nat /\ NUM \in Nat /\ NUM >= 3 /\ IDXMOD >= NUM
  BY DiskAssumption
<1>2. d \in Nat /\ d + 1 < NUM /\ from \in Nat
  BY <1>1, AheadValue DEF RingIndex
<1>3. u \in RingIndex /\ Ahead(from, u) = d + 1
  <2>1. to + 1 \in 0 .. 2 * IDXMOD - 1
    BY <1>1 DEF RingIndex
  <2>2. u = IF to + 1 < IDXMOD THEN to + 1 ELSE 0
    BY <1>1, <2>1, ModSmall DEF RingIndex
  <2>3. u \in RingIndex
    BY <1>1, <2>2 DEF RingIndex
  <2> HIDE DEF u
  <2>4. Ahead(from, u) = IF from <= u THEN u - from ELSE u + IDXMOD - from
    BY Zenon, <2>3, AheadValue
  <2>5. d = IF from <= to THEN to - from ELSE to + IDXMOD - from
    BY Zenon, AheadValue
  <2> HIDE DEF d
  <2> QED BY <1>1, <1>2, <2>2, <2>3, <2>4, <2>5 DEF RingIndex
<1>4. \A k \in 0 .. d : at(k) \in Desc
  <2> HIDE DEF d
  <2> QED BY <1>1, <1>2, PlaceIsDesc
<1>5. to % NUM = at(d) /\ at(d) \in Desc
  BY <1>2, <1>4, PlaceOf
<1>6. r[at(d)] = i /\ r \in [Desc -> Desc]
  BY Zenon, <1>5
<1>7. \A k \in 0 .. d - 1 : at(k) # at(d)
  <2> HIDE DEF d
  <2> SUFFICES ASSUME NEW k \in 0 .. d - 1 PROVE at(k) # at(d)
    BY Zenon
  <2>1. k \in Nat /\ k < d /\ d < NUM
    BY <1>1, <1>2
  <2> QED BY <1>2, <2>1, PlacesDiffer, Zenon
<1>8. \A k \in 0 .. d - 1 : r[at(k)] = ring[at(k)]
  BY <1>2, <1>4, <1>5, <1>7
<1> HIDE DEF r, u
<1>9. Entries(r, from, u) = {r[at(k)] : k \in 0 .. d}
  BY <1>2, <1>3 DEF Entries
<1>10. Entries(ring, from, to) = {ring[at(k)] : k \in 0 .. d - 1}
  BY Zenon DEF Entries
<1> HIDE DEF d, at
<1>11. Entries(r, from, u) = Entries(ring, from, to) \cup {i}
  BY <1>2, <1>6, <1>8, <1>9, <1>10
<1>12. \A k, l \in 0 .. d : r[at(k)] = r[at(l)] => k = l
  <2>1. \A k, l \in 0 .. d - 1 : ring[at(k)] = ring[at(l)] => k = l
    BY Zenon DEF DistinctEntries, d, at
  <2>2. \A k \in 0 .. d - 1 : ring[at(k)] # i
    BY Zenon, <1>10
  <2> QED BY <1>2, <1>6, <1>8, <2>1, <2>2
<1>13. DistinctEntries(r, from, u)
  BY <1>2, <1>3, <1>12 DEF DistinctEntries, at
<1>14. u # from
  <2>1. Ahead(from, from) = 0
    BY <1>2, AheadValue
  <2> QED BY <1>2, <1>3, <2>1
<1> QED BY <1>3, <1>6, <1>11, <1>13, <1>14, Zenon DEF r, u

\* The oldest entry is taken out.
LEMMA PopEntry ==
  ASSUME NEW ring \in [Desc -> Desc], NEW from \in RingIndex,
         NEW to \in RingIndex, from # to, DistinctEntries(ring, from, to)
  PROVE  LET i == ring[from % NUM]
             f == (from + 1) % IDXMOD
         IN  /\ f \in RingIndex
             /\ i \in Entries(ring, from, to)
             /\ Entries(ring, f, to) = Entries(ring, from, to) \ {i}
             /\ DistinctEntries(ring, f, to)
<1> DEFINE f == (from + 1) % IDXMOD
           d == Ahead(from, to)
           at(k) == (from + k) % NUM
<1>1. IDXMOD \in Nat /\ NUM \in Nat /\ NUM >= 3 /\ IDXMOD >= NUM
  BY DiskAssumption
<1>2. d \in Nat /\ d > 0 /\ d < IDXMOD /\ from \in Nat
  <2>1. /\ d = IF from <= to THEN to - from ELSE to + IDXMOD - from
        /\ d \in RingIndex
    BY Zenon, AheadValue
  <2> HIDE DEF d
  <2> QED BY <1>1, <2>1 DEF RingIndex
<1>3. /\ f \in RingIndex /\ Ahead(f, to) = d - 1
      /\ f = IF from + 1 < IDXMOD THEN from + 1 ELSE 0
  <2>1. from + 1 \in 0 .. 2 * IDXMOD - 1
    BY <1>1 DEF RingIndex
  <2>2. f = IF from + 1 < IDXMOD THEN from + 1 ELSE 0
    BY <1>1, <2>1, ModSmall DEF RingIndex
  <2>3. f \in RingIndex
    BY <1>1, <2>2 DEF RingIndex
  <2> HIDE DEF f
  <2>4. Ahead(f, to) = IF f <= to THEN to - f ELSE to + IDXMOD - f
    BY Zenon, <2>3, AheadValue
  <2>5. d = IF from <= to THEN to - from ELSE to + IDXMOD - from
    BY Zenon, AheadValue
  <2> HIDE DEF d
  <2> QED BY <1>1, <1>2, <2>2, <2>3, <2>4, <2>5 DEF RingIndex
<1>4. \A k \in 0 .. d - 2 : (f + k) % NUM = at(k + 1)
  <2> SUFFICES ASSUME NEW k \in 0 .. d - 2 PROVE (f + k) % NUM = at(k + 1)
    BY Zenon
  <2>1. CASE from + 1 < IDXMOD
    <3>1. f + k = from + (k + 1)
      BY <1>2, <1>3, <2>1
    <3> QED BY <3>1, Zenon
  <2>2. CASE from + 1 = IDXMOD
    <3>1. f + k = k /\ from + (k + 1) = k + IDXMOD /\ k \in Nat
      BY <1>1, <1>2, <1>3, <2>2
    <3>2. (k + IDXMOD) % NUM = k % NUM
      BY Zenon, <3>1, WrapKeepsPlace
    <3> QED BY <3>1, <3>2, Zenon
  <2> QED BY <1>1, <2>1, <2>2 DEF RingIndex
<1> HIDE DEF f
<1>5. Entries(ring, f, to) = {ring[(f + k) % NUM] : k \in 0 .. d - 2}
  BY <1>2, <1>3 DEF Entries
<1>6. Entries(ring, from, to) = {ring[at(k)] : k \in 0 .. d - 1}
  BY Zenon DEF Entries
<1>7. at(0) = from % NUM
  BY <1>2
<1>8. \A k, l \in 0 .. d - 1 : ring[at(k)] = ring[at(l)] => k = l
  BY Zenon DEF DistinctEntries
<1> HIDE DEF d, at
<1>9. Entries(ring, f, to) = {ring[at(k)] : k \in 1 .. d - 1}
  <2>1. ASSUME NEW k \in 1 .. d - 1
        PROVE  k - 1 \in 0 .. d - 2 /\ at(k) = (f + (k - 1)) % NUM
    <3>1. k - 1 \in 0 .. d - 2 /\ (k - 1) + 1 = k
      BY <1>2
    <3> QED BY Zenon, <1>4, <3>1
  <2>2. ASSUME NEW k \in 0 .. d - 2
        PROVE  k + 1 \in 1 .. d - 1 /\ at(k + 1) = (f + k) % NUM
    BY <1>2, <1>4
  <2> QED BY Zenon, <1>5, <2>1, <2>2
<1>10. ring[at(0)] \in Entries(ring, from, to)
  BY <1>2, <1>6
<1>11. Entries(ring, f, to) = Entries(ring, from, to) \ {ring[at(0)]}
  <2>1. \A k \in 0 .. d - 1 : k = 0 \/ k \in 1 .. d - 1
    BY <1>2
  <2>2. \A k \in 1 .. d - 1 : k \in 0 .. d - 1 /\ ring[at(k)] # ring[at(0)]
    BY <1>2, <1>8
  <2> QED BY Zenon, <1>6, <1>9, <2>1, <2>2
<1>12. DistinctEntries(ring, f, to)
  <2> SUFFICES ASSUME NEW k \in 0 .. d - 2, NEW l \in 0 .. d - 2,
                      ring[(f + k) % NUM] = ring[(f + l) % NUM]
               PROVE  k = l
    BY <1>2, <1>3 DEF DistinctEntries
  <2>1. ring[at(k + 1)] = ring[at(l + 1)]
    BY Zenon, <1>4
  <2> QED BY <1>2, <1>8, <2>1
<1> QED BY Zenon, <1>3, <1>7, <1>10, <1>11, <1>12 DEF f

\* An empty window, and what it means that two indices are equal.
LEMMA NoEntries ==
  ASSUME NEW ring, NEW from \in RingIndex, NEW to \in RingIndex
  PROVE  /\ from = to => Entries(ring, from, to) = {}
                         /\ DistinctEntries(ring, from, to)
         /\ from # to => Entries(ring, from, to) # {}
<1>1. IDXMOD \in Nat /\ IDXMOD > 0
  BY Zenon, DiskAssumption
<1> DEFINE d == Ahead(from, to)
<1>2. /\ d = IF from <= to THEN to - from ELSE to + IDXMOD - from
      /\ d \in RingIndex
  BY Zenon, AheadValue
<1> HIDE DEF d
<1>3. (from = to => d = 0) /\ (from # to => 0 \in 0 .. d - 1)
  BY <1>1, <1>2 DEF RingIndex
<1> QED BY <1>3 DEF Entries, DistinctEntries, d

-----------------------------------------------------------------------------
(* The list of buffers. *)

\* brelse() moves a buffer to the front and loses none.
LEMMA ListKept ==
  ASSUME CacheTypes, NEW b \in Buf
  PROVE  /\ ToFront(b) \in [Buf -> Buf]
         /\ \A c \in Buf : \E i \in Buf : ToFront(b)[i] = c
<1> DEFINE k == CHOOSE i \in Buf : lru[i] = b
<1>1. k \in Buf /\ lru[k] = b /\ lru \in [Buf -> Buf]
  BY Zenon DEF CacheTypes
<1>2. ToFront(b) = [i \in Buf |-> IF i = 1 THEN b
                      ELSE IF i <= k THEN lru[i - 1] ELSE lru[i]]
  BY Zenon DEF ToFront
<1> HIDE DEF k
<1>3. ToFront(b) \in [Buf -> Buf]
  <2>1. \A i \in Buf : i # 1 => i - 1 \in Buf
    BY DiskAssumption DEF Buf
  <2> QED BY Zenon, <1>1, <1>2, <2>1
<1>4. ASSUME NEW c \in Buf PROVE \E i \in Buf : ToFront(b)[i] = c
  <2>1. PICK j \in Buf : lru[j] = c
    BY Zenon DEF CacheTypes
  <2>2. CASE j = k
    <3>1. 1 \in Buf
      BY DiskAssumption DEF Buf
    <3> QED BY Zenon, <1>1, <1>2, <2>1, <2>2, <3>1
  <2>3. CASE j < k
    <3>1. j + 1 \in Buf /\ ~(j + 1 = 1) /\ j + 1 <= k /\ (j + 1) - 1 = j
      BY <1>1, <2>3, DiskAssumption DEF Buf
    <3>2. ToFront(b)[j + 1] = lru[j]
      BY Zenon, <1>2, <3>1
    <3> QED BY Zenon, <2>1, <3>1, <3>2
  <2>4. CASE j > k
    <3>1. ~(j = 1) /\ ~(j <= k)
      BY <1>1, <2>4, DiskAssumption DEF Buf
    <3> QED BY Zenon, <1>2, <2>1, <3>1
  <2> QED BY <1>1, <2>2, <2>3, <2>4, DiskAssumption DEF Buf
<1> QED BY Zenon, <1>3, <1>4

-----------------------------------------------------------------------------
(* What the steps need to know about finite sets.  It is proved at the end,  *)
(* where the theorems about finite sets come in.                             *)

\* There is room for one more entry on a ring when three descriptors are not
\* on it: entries are different descriptors.
RingRoom ==
  \A ring \in [Desc -> Desc], from, to \in RingIndex, i, j, k \in Desc :
    /\ DistinctEntries(ring, from, to) /\ i # j /\ j # k /\ i # k
    /\ {i, j, k} \cap Entries(ring, from, to) = {}
    => Ahead(from, to) + 1 < NUM

\* alloc3_desc() finds three different free descriptors when there are
\* three, and otherwise some descriptor is in use.
DescsFound ==
  LET i0 == Lowest(FreeDescs)
      i1 == Lowest(FreeDescs \ {i0})
      i2 == Lowest(FreeDescs \ {i0, i1})
  IN  /\ Cardinality(FreeDescs) >= 3 =>
           {i0, i1, i2} \subseteq FreeDescs /\ i0 # i1 /\ i1 # i2 /\ i0 # i2
      /\ Cardinality(FreeDescs) < 3 => \E i \in Desc : ~free[i]

\* bget() finds a buffer in the list when there is one.
BuffersFound ==
  \A S \in SUBSET Buf : S # {} => First(S) \in S /\ Oldest(S) \in S

-----------------------------------------------------------------------------
(* Steps that leave the requests in progress alone. *)

\* A request in progress has its buffer locked, and for itself.
LEMMA RequestBuffer ==
  ASSUME DiskInv
  PROVE  /\ NoBuf \notin Buf
         /\ \A p \in Proc : pc[p] # "idle" => cur[p] \in Buf
         /\ \A p \in Requests :
              /\ p \in Proc /\ rw[p].idx \in Desc /\ rw[p].at # "none"
              /\ rw[p].buf = cur[p] /\ cur[p] \in Buf /\ lock[cur[p]] = p
<1>1. NoBuf \notin Buf
  BY DiskAssumption DEF Buf, NoBuf
<1>2. \A p \in Proc : pc[p] # "idle" => cur[p] \in Buf
  <2>1. cur \in [Proc -> Buf \cup {NoBuf}]
    BY Zenon DEF DiskInv, CacheTypes
  <2>2. \A p \in Proc : pc[p] # "idle" => cur[p] # NoBuf
    BY Zenon DEF DiskInv, Locking
  <2> QED BY Zenon, <2>1, <2>2
<1>3. \A p \in Requests :
        p \in Proc /\ rw[p].idx \in Desc /\ rw[p].at # "none"
  BY Zenon DEF Requests, DiskInv, DiskTypes, Rw
<1> QED BY Zenon, <1>1, <1>2, <1>3 DEF DiskInv, Locking

\* And so has one that is being submitted.
LEMMA CallerBuffer ==
  ASSUME DiskInv, NEW p \in Proc, rw[p].at # "none"
  PROVE  \E b \in Buf : b = rw[p].buf /\ b = cur[p] /\ lock[b] = p
<1>1. pc[p] \in {"reading", "writing"} /\ rw[p].buf = cur[p]
  BY Zenon DEF DiskInv, Locking
<1>2. cur[p] \in Buf
  BY Zenon, <1>1, RequestBuffer
<1>3. lock[cur[p]] = p
  BY Zenon, <1>1, <1>2 DEF DiskInv, Locking
<1> QED BY Zenon, <1>1, <1>2, <1>3

\* Chains stay as they are as long as nobody writes descriptors.
LEMMA SameChains ==
  ASSUME DiskInv, UNCHANGED <<free, desc>>, Requests' = Requests,
         \A q \in Requests : rw'[q].idx = rw[q].idx
  PROVE  Chained'
<1>1. \A q \in Requests : ChainOf(q)' = ChainOf(q)
  BY Zenon DEF ChainOf, Chain
<1>2. /\ \A i \in Desc : ~free'[i] => \E p \in Requests' : i \in ChainOf(p)'
      /\ \A p, q \in Requests' : p # q => ChainOf(p)' \cap ChainOf(q)' = {}
  BY <1>1 DEF DiskInv, Chained
<1>3. ASSUME NEW p \in Requests PROVE HasChain(p)'
  <2>1. HasChain(p) /\ rw'[p].idx = rw[p].idx
    BY Zenon DEF DiskInv, Chained
  <2> QED BY <2>1, Zenon DEF HasChain
<1> QED BY <1>2, <1>3, Zenon DEF Chained

\* Nothing about them changes.
Keeps ==
  /\ UNCHANGED <<free, desc, info, avail, used, used_idx, busy>>
  /\ device'.seen = device.seen /\ device'.work = device.work
  /\ Requests' = Requests
  /\ \A p \in Requests : rw'[p].idx = rw[p].idx /\ rw'[p].buf = rw[p].buf

LEMMA KeptRequests ==
  ASSUME DiskInv, Keeps
  PROVE  Chained' /\ Rings' /\ Flights' /\ Formatted'
<1>1. Announced' = Announced /\ Unseen' = Unseen /\ InFlight' = InFlight
  BY Zenon DEF Keeps, Announced, Unseen, InFlight, Entries, Ahead
<1>2. Chained'
  BY Zenon, SameChains DEF Keeps
<1>3. Rings'
  BY <1>1 DEF DiskInv, Rings, DistinctEntries, Ahead, Keeps
<1>4. Flights' /\ Formatted'
  BY <1>1, Zenon DEF DiskInv, Flights, Formatted, Keeps
<1> QED BY Zenon, <1>2, <1>3, <1>4

\* A step that leaves the driver and the device alone.
LEMMA KeptDisk ==
  ASSUME DiskInv, UNCHANGED diskVars, CacheTypes', Locking'
  PROVE  DiskInv'
<1>1. Requests' = Requests
  BY Zenon DEF Requests, diskVars
<1>2. Keeps
  BY Zenon, <1>1 DEF Keeps, diskVars, queueVars
<1>3. DiskTypes'
  BY Zenon DEF DiskInv, DiskTypes, diskVars, queueVars
<1>4. Waking'
  BY Zenon, <1>1 DEF DiskInv, Waking, diskVars, queueVars
<1> QED BY Zenon, <1>2, <1>3, <1>4, KeptRequests DEF DiskInv

\* A step that hands a request to virtio_disk_rw().
LEMMA RequestMade ==
  ASSUME DiskInv, NEW p \in Proc, NEW b \in Buf, NEW w \in BOOLEAN,
         rw[p].at = "none", Request(p, b, w),
         UNCHANGED <<queueVars, used, used_idx, busy, device, handling>>,
         CacheTypes', Locking'
  PROVE  DiskInv'
<1>1. /\ rw' \in [Proc -> Rw] /\ rw'[p].at = "try"
      /\ \A q \in Proc : q # p => rw'[q] = rw[q]
  <2>1. 0 \in Desc
    BY DiskAssumption DEF Desc
  <2> QED BY Zenon, <2>1 DEF Request, DiskInv, DiskTypes, Rw
<1>2. Requests' = Requests /\ p \notin Requests
  BY Zenon, <1>1 DEF Requests
<1>3. Keeps
  BY Zenon, <1>1, <1>2 DEF Keeps, queueVars, Requests
<1>4. DiskTypes'
  BY Zenon, <1>1 DEF DiskInv, DiskTypes, queueVars
<1>5. Waking'
  BY Zenon, <1>1, <1>2 DEF DiskInv, Waking, queueVars
<1> QED BY Zenon, <1>3, <1>4, <1>5, KeptRequests DEF DiskInv

\* bget() and brelse().
LEMMA CacheInv ==
  ASSUME DiskInv, BuffersFound, NEW p \in Proc,
         Bget(p) \/ LogWrite(p) \/ ReleaseSleep(p) \/ Drop(p)
  PROVE  DiskInv'
<1> USE DEF Here, Goto
<1>0. CacheTypes /\ Locking
  BY Zenon DEF DiskInv
<1>1. CASE Bget(p)
  <2>1. PICK n \in BlockNo : Hit(p, n) \/ Recycle(p, n) \/ NoBuffers(p, n)
    BY <1>1, Zenon DEF Bget
  <2>2. UNCHANGED <<diskVars, lru, lock, rw>> /\ pc[p] = "idle"
    BY <1>1, Zenon DEF Bget, diskVars
  <2>3. \/ UNCHANGED <<bno, pc, cur>>
        \/ \E b \in Buf : /\ cur' = [cur EXCEPT ![p] = b]
                          /\ pc' = [pc EXCEPT ![p] = "lock"]
                          /\ bno' = bno \/ bno' = [bno EXCEPT ![b] = n]
    <3>1. CASE Hit(p, n)
      <4>1. Cached(n) \in SUBSET Buf /\ Cached(n) # {}
        BY Zenon, <3>1 DEF Hit, Cached
      <4>2. First(Cached(n)) \in Buf
        BY <4>1, Zenon DEF BuffersFound
      <4> QED BY <3>1, <4>2, Zenon DEF Hit
    <3>2. CASE Recycle(p, n)
      <4>1. Unused \in SUBSET Buf /\ Unused # {}
        BY Zenon, <3>2 DEF Recycle, Unused
      <4>2. Oldest(Unused) \in Buf
        BY <4>1, Zenon DEF BuffersFound
      <4> QED BY <3>2, <4>2, Zenon DEF Recycle
    <3> QED BY <2>1, <3>1, <3>2, Zenon DEF NoBuffers
  <2>4. CacheTypes'
    BY <1>0, <2>2, <2>3 DEF CacheTypes
  <2>5. Locking'
    BY <1>0, <2>2, <2>3, RequestBuffer DEF Locking, CacheTypes
  <2> QED BY Zenon, <2>2, <2>4, <2>5, KeptDisk
<1>2. CASE LogWrite(p)
  BY <1>0, <1>2, KeptDisk DEF LogWrite, CacheTypes, Locking, diskVars,
     threadVars
<1>3. CASE ReleaseSleep(p)
  <2>1. /\ UNCHANGED <<diskVars, rw, bno, lru, cur>> /\ pc[p] = "have"
        /\ lock' = [lock EXCEPT ![cur[p]] = Nobody]
        /\ pc' = [pc EXCEPT ![p] = "drop"]
    BY <1>3, Zenon DEF ReleaseSleep, diskVars
  <2>2. CacheTypes'
    BY Zenon, <1>0, <2>1 DEF CacheTypes
  <2>3. Locking'
    BY <1>0, <2>1, CacheAssumption DEF Locking, CacheTypes
  <2> QED BY Zenon, <2>1, <2>2, <2>3, KeptDisk
<1>4. CASE Drop(p)
  <2>1. /\ UNCHANGED <<diskVars, rw, bno, lock>> /\ pc[p] = "drop"
        /\ lru' = ToFront(cur[p]) \/ lru' = lru
        /\ pc' = [pc EXCEPT ![p] = "idle"]
        /\ cur' = [cur EXCEPT ![p] = NoBuf]
    BY <1>4, Zenon DEF Drop, diskVars
  <2>2. lru' \in [Buf -> Buf] /\ \A c \in Buf : \E i \in Buf : lru'[i] = c
    <3>1. lru \in [Buf -> Buf] /\ \A c \in Buf : \E i \in Buf : lru[i] = c
      BY <1>0, Zenon DEF CacheTypes
    <3>2. /\ ToFront(cur[p]) \in [Buf -> Buf]
          /\ \A c \in Buf : \E i \in Buf : ToFront(cur[p])[i] = c
      BY Zenon, <1>0, <2>1, RequestBuffer, ListKept
    <3> QED BY <2>1, <3>1, <3>2, Zenon
  <2>3. CacheTypes'
    BY Zenon, <1>0, <2>1, <2>2 DEF CacheTypes
  <2>4. Locking'
    BY <1>0, <2>1, RequestBuffer DEF Locking, CacheTypes
  <2> QED BY Zenon, <2>1, <2>3, <2>4, KeptDisk
<1> QED BY Zenon, <1>1, <1>2, <1>3, <1>4

\* bread() and bwrite().
LEMMA ReadWriteInv ==
  ASSUME DiskInv, NEW p \in Proc, Bread(p) \/ Bwrite(p)
  PROVE  DiskInv'
<1> USE DEF Here, Goto
<1>0. CacheTypes /\ Locking
  BY Zenon DEF DiskInv
<1>1. PICK b \in Buf : b = cur[p] /\ pc[p] \in {"lock", "have"}
  BY RequestBuffer, Zenon DEF Bread, Bwrite
<1>2. rw[p].at = "none"
  BY Zenon, <1>0, <1>1 DEF Locking
<1>3. \/ /\ UNCHANGED <<diskVars, rw>> /\ lock[b] = Nobody
         /\ lock' = [lock EXCEPT ![b] = p] /\ pc' = [pc EXCEPT ![p] = "have"]
      \/ /\ \E w \in BOOLEAN : Request(p, b, w)
         /\ UNCHANGED <<queueVars, used, used_idx, busy, device, handling>>
         /\ \/ /\ pc[p] = "lock" /\ lock[b] = Nobody
               /\ lock' = [lock EXCEPT ![b] = p]
               /\ pc' = [pc EXCEPT ![p] = "reading"]
            \/ /\ pc[p] = "have" /\ lock' = lock
               /\ pc' = [pc EXCEPT ![p] = "writing"]
  BY Zenon, <1>1 DEF Bread, Bwrite, diskVars
<1>4. UNCHANGED <<bno, lru, cur>>
  BY Zenon DEF Bread, Bwrite
<1>5. CacheTypes'
  BY <1>0, <1>3, <1>4 DEF CacheTypes
<1>6. CASE UNCHANGED <<diskVars, rw>>
  <2>1. Locking'
    BY <1>0, <1>1, <1>2, <1>3, <1>4, <1>6, CacheAssumption
       DEF Locking, CacheTypes, Request, DiskInv, DiskTypes
  <2> QED BY Zenon, <1>5, <1>6, <2>1, KeptDisk
<1>7. CASE \E w \in BOOLEAN : Request(p, b, w)
  <2>1. PICK w \in BOOLEAN : Request(p, b, w)
    BY Zenon, <1>7
  <2>2. /\ rw'[p].at = "try" /\ rw'[p].buf = b
        /\ \A q \in Proc : q # p => rw'[q] = rw[q]
    BY Zenon, <2>1 DEF Request, DiskInv, DiskTypes
  <2>3. Locking'
    BY <1>0, <1>1, <1>2, <1>3, <1>4, <2>2, CacheAssumption
       DEF Locking, CacheTypes
  <2> QED BY Zenon, <1>2, <1>3, <1>5, <2>1, <2>2, <2>3, RequestMade
      DEF diskVars
<1> QED BY Zenon, <1>3, <1>6, <1>7

-----------------------------------------------------------------------------
(* Steps of the driver. *)

\* The driver moves requests on and leaves the cache alone.
LEMMA DriverKeepsCache ==
  ASSUME DiskInv, UNCHANGED <<bno, lru, lock, pc, cur>>,
         \A q \in Proc : /\ rw'[q].buf = rw[q].buf
                         /\ rw'[q].at = "none" <=> rw[q].at = "none"
  PROVE  CacheTypes' /\ Locking'
  BY DEF DiskInv, CacheTypes, Locking

\* NoDescs, SleepAgain and the two ends of the handler.
LEMMA WaitingInv ==
  ASSUME DiskInv,
         UNCHANGED <<queueVars, used, used_idx, busy, bno, lru, lock, pc, cur>>,
         device'.seen = device.seen, device'.work = device.work,
         DiskTypes', Waking', Requests' = Requests,
         \A q \in Proc : /\ rw'[q].buf = rw[q].buf /\ rw'[q].idx = rw[q].idx
                         /\ rw'[q].at = "none" <=> rw[q].at = "none"
  PROVE  DiskInv'
<1>1. Keeps
  BY Zenon DEF Keeps, queueVars, Requests
<1>2. Chained' /\ Rings' /\ Flights' /\ Formatted'
  BY Zenon, <1>1, KeptRequests
<1>3. CacheTypes' /\ Locking'
  BY Zenon, DriverKeepsCache
<1> QED BY Zenon, <1>2, <1>3 DEF DiskInv

\* A thread goes to sleep for want of descriptors: some are in use.
LEMMA NoDescsInv ==
  ASSUME DiskInv, DescsFound, NEW p \in Proc, NoDescs(p),
         UNCHANGED <<bno, lru, lock, pc, cur>>
  PROVE  DiskInv'
<1>1. /\ UNCHANGED <<queueVars, used, used_idx, busy, device, handling>>
      /\ rw[p].at = "try" /\ Cardinality(FreeDescs) < 3
  BY Zenon DEF NoDescs, At
<1>2. /\ DOMAIN rw' = Proc
      /\ \A q \in Proc : rw'[q] = rw[q]
           \/ /\ rw[q].at \in {"try", "no_desc"}
              /\ \/ rw'[q] = [rw[q] EXCEPT !.at = "no_desc"]
                 \/ rw'[q] = [rw[q] EXCEPT !.at = "try"]
  BY Zenon DEF NoDescs, At, WakeFree, DiskInv, DiskTypes
<1>3. \A q \in Proc :
        /\ rw'[q].buf = rw[q].buf /\ rw'[q].idx = rw[q].idx
        /\ rw'[q].at = "none" <=> rw[q].at = "none"
        /\ rw'[q].at = "asleep" <=> rw[q].at = "asleep"
        /\ rw'[q].at = "awake" <=> rw[q].at = "awake"
  BY <1>2 DEF DiskInv, DiskTypes, Rw
<1>4. Requests' = Requests
  BY Zenon, <1>3 DEF Requests
<1>5. DiskTypes'
  <2>1. rw' \in [Proc -> Rw]
    BY DEF NoDescs, WakeFree, DiskInv, DiskTypes, Rw
  <2> QED BY Zenon, <1>1, <2>1 DEF DiskInv, DiskTypes, queueVars
<1>6. Waking'
  <2>1. Requests # {}
    BY Zenon, <1>1 DEF DescsFound, DiskInv, Chained
  <2> QED BY Zenon, <1>1, <1>3, <1>4, <2>1 DEF DiskInv, Waking
<1> QED BY Zenon, <1>1, <1>3, <1>4, <1>5, <1>6, WaitingInv

\* A thread woken too early sleeps on.
LEMMA SleepAgainInv ==
  ASSUME DiskInv, NEW p \in Proc, SleepAgain(p),
         UNCHANGED <<bno, lru, lock, pc, cur>>
  PROVE  DiskInv'
<1>1. /\ UNCHANGED <<queueVars, used, used_idx, busy, device, handling>>
      /\ rw[p].at = "awake" /\ busy[rw[p].buf]
      /\ rw' = [rw EXCEPT ![p].at = "asleep"]
  BY Zenon DEF SleepAgain, At
<1>2. \A q \in Proc :
        /\ rw'[q].buf = rw[q].buf /\ rw'[q].idx = rw[q].idx
        /\ rw'[q].at = IF q = p THEN "asleep" ELSE rw[q].at
  BY Zenon, <1>1 DEF DiskInv, DiskTypes, Rw
<1>3. Requests' = Requests
  BY <1>1, <1>2 DEF Requests
<1>4. DiskTypes'
  <2>1. [rw[p] EXCEPT !.at = "asleep"] \in Rw /\ rw \in [Proc -> Rw]
    BY Zenon DEF DiskInv, DiskTypes, Rw
  <2> QED BY Zenon, <1>1, <2>1 DEF DiskInv, DiskTypes, queueVars
<1>5. Waking'
  BY <1>1, <1>2, <1>3 DEF DiskInv, Waking
<1> QED BY <1>1, <1>2, <1>3, <1>4, <1>5, WaitingInv

\* The handler is entered and left.
LEMMA IntrEndsInv ==
  ASSUME DiskInv, IntrAck \/ IntrDone, UNCHANGED <<bno, lru, lock, pc, cur>>
  PROVE  DiskInv'
<1>1. /\ UNCHANGED <<queueVars, used, used_idx, rw, busy>>
      /\ device' \in [seen : {device.seen}, work : {device.work},
                      intr : BOOLEAN]
  BY Zenon DEF IntrAck, IntrDone, DiskInv, DiskTypes
<1>2. Requests' = Requests
  BY Zenon, <1>1 DEF Requests
<1>3. DiskTypes'
  BY Zenon, <1>1 DEF DiskInv, DiskTypes, queueVars
<1>4. Waking'
  BY Zenon, <1>1, <1>2 DEF DiskInv, Waking, IntrAck, IntrDone
<1> QED BY Zenon, <1>1, <1>2, <1>3, <1>4, WaitingInv

-----------------------------------------------------------------------------
(* Steps that move a request between the rings. *)

\* The chain of a request in progress: three descriptors, the first of which
\* names it.  No other request has the same name or the same buffer.
LEMMA ChainShape ==
  ASSUME DiskInv
  PROVE  /\ \A p \in Requests : \E i, j, k \in Desc :
              /\ i = rw[p].idx /\ j = desc[i].next /\ k = desc[j].next
              /\ desc[i].more /\ desc[j].more
              /\ ChainOf(p) = {i, j, k} /\ i # j /\ j # k /\ i # k
              /\ ~free[i] /\ ~free[j] /\ ~free[k]
         /\ \A p, q \in Requests : p # q =>
              rw[p].idx \notin ChainOf(q) /\ rw[p].buf # rw[q].buf
<1>1. ASSUME NEW p \in Requests
      PROVE  \E i, j, k \in Desc :
               /\ i = rw[p].idx /\ j = desc[i].next /\ k = desc[j].next
               /\ desc[i].more /\ desc[j].more
               /\ ChainOf(p) = {i, j, k} /\ i # j /\ j # k /\ i # k
               /\ ~free[i] /\ ~free[j] /\ ~free[k]
  <2>1. PICK i, j, k \in Desc :
          /\ i = rw[p].idx /\ j = desc[i].next /\ k = desc[j].next
          /\ desc[i].more /\ desc[j].more /\ i # j /\ j # k /\ i # k
          /\ ~free[i] /\ ~free[j] /\ ~free[k]
    BY Zenon DEF DiskInv, Chained, HasChain
  <2>2. ChainOf(p) = {i, j, k}
    BY <2>1, Zenon DEF ChainOf, Chain
  <2> QED BY <2>1, <2>2, Zenon
<1>2. ASSUME NEW p \in Requests, NEW q \in Requests, p # q
      PROVE  rw[p].idx \notin ChainOf(q) /\ rw[p].buf # rw[q].buf
  <2>1. rw[p].idx \in ChainOf(p)
    BY Zenon, <1>1
  <2>2. ChainOf(p) \cap ChainOf(q) = {}
    BY <1>2, Zenon DEF DiskInv, Chained
  <2>3. rw[p].buf # rw[q].buf
    BY <1>2, RequestBuffer
  <2> QED BY Zenon, <2>1, <2>2, <2>3
<1> QED BY <1>1, <1>2, Zenon

\* What is in flight is the first descriptor of one request.
LEMMA FlightOf ==
  ASSUME DiskInv, NEW i \in InFlight
  PROVE  \E p \in Requests :
           /\ rw[p].idx = i /\ i \in Desc /\ ~free[i] /\ busy[rw[p].buf]
           /\ \A q \in Requests : rw[q].idx = i => q = p
<1>1. PICK p \in Requests : rw[p].idx = i /\ busy[rw[p].buf]
  BY Zenon DEF DiskInv, Flights
<1>2. i \in ChainOf(p) /\ i \in Desc /\ ~free[i]
  BY Zenon, <1>1, ChainShape
<1>3. \A q \in Requests : q # p => rw[q].idx \notin ChainOf(p)
  BY Zenon, ChainShape
<1> QED BY <1>1, <1>2, <1>3, Zenon

\* A chain stays as it is when its descriptors do.
LEMMA ChainKept ==
  ASSUME DiskInv, NEW q \in Requests, rw'[q].idx = rw[q].idx,
         \A l \in ChainOf(q) : desc'[l] = desc[l] /\ ~free'[l]
  PROVE  HasChain(q)' /\ ChainOf(q)' = ChainOf(q)
<1>1. PICK i, j, k \in Desc :
        /\ i = rw[q].idx /\ j = desc[i].next /\ k = desc[j].next
        /\ desc[i].more /\ desc[j].more
        /\ ChainOf(q) = {i, j, k} /\ i # j /\ j # k /\ i # k
  BY ChainShape, Zenon
<1>2. /\ desc'[i] = desc[i] /\ desc'[j] = desc[j]
      /\ ~free'[i] /\ ~free'[j] /\ ~free'[k]
  BY <1>1, Zenon
<1>3. HasChain(q)'
  BY <1>1, <1>2, Zenon DEF HasChain
<1>4. ChainOf(q)' = {i, j, k}
  <2>1. /\ rw'[q].idx = i /\ desc'[i].more /\ desc'[i].next = j
        /\ desc'[j].more /\ desc'[j].next = k
    BY <1>1, <1>2, Zenon
  <2> QED BY <2>1, Zenon DEF ChainOf, Chain
<1> QED BY Zenon, <1>1, <1>3, <1>4

\* A request is added, with three free descriptors.
NewChain(p, i, j, k) ==
  /\ Requests' = Requests \cup {p} /\ rw'[p].idx = i
  /\ i # j /\ j # k /\ i # k /\ free[i] /\ free[j] /\ free[k]
  /\ desc'[i].more /\ desc'[i].next = j /\ desc'[j].more /\ desc'[j].next = k
  /\ \A q \in Requests : q # p /\ rw'[q] = rw[q]
  /\ \A l \in Desc : /\ free'[l] <=> free[l] /\ l \notin {i, j, k}
                     /\ l \notin {i, j, k} => desc'[l] = desc[l]

LEMMA ChainAdded ==
  ASSUME DiskInv, NEW p \in Proc, NEW i \in Desc, NEW j \in Desc,
         NEW k \in Desc, NewChain(p, i, j, k)
  PROVE  /\ Chained' /\ \A q \in Requests : rw[q].idx \in Desc \ {i}
<1> USE DEF NewChain
<1>1. ASSUME NEW q \in Requests
      PROVE  \A l \in ChainOf(q) : /\ l \in Desc \ {i, j, k}
                                   /\ desc'[l] = desc[l] /\ ~free'[l]
  <2>1. \A l \in ChainOf(q) : l \in Desc /\ ~free[l]
    BY ChainShape
  <2> QED BY <2>1
<1>2. \A q \in Requests : /\ HasChain(q)' /\ ChainOf(q)' = ChainOf(q)
                          /\ ChainOf(q) \cap {i, j, k} = {}
  BY Zenon, <1>1, ChainKept
<1>3. ~free'[i] /\ ~free'[j] /\ ~free'[k]
  BY Zenon
<1>4. HasChain(p)'
  BY <1>3, Zenon DEF HasChain
<1>5. ChainOf(p)' = {i, j, k}
  BY Zenon DEF ChainOf, Chain
<1>6. ASSUME NEW l \in Desc, ~free'[l]
      PROVE  \E q \in Requests' : l \in ChainOf(q)'
  <2>1. CASE l \in {i, j, k}
    BY Zenon, <1>5, <2>1
  <2>2. CASE ~free[l]
    <3>1. PICK q \in Requests : l \in ChainOf(q)
      BY <2>2, Zenon DEF DiskInv, Chained
    <3> QED BY <1>2, <3>1
  <2> QED BY Zenon, <1>6, <2>1, <2>2
<1>7. ASSUME NEW q \in Requests, NEW s \in Requests, q # s
      PROVE  ChainOf(q)' \cap ChainOf(s)' = {}
  <2>1. ChainOf(q) \cap ChainOf(s) = {}
    BY <1>7, Zenon DEF DiskInv, Chained
  <2>2. ChainOf(q)' = ChainOf(q) /\ ChainOf(s)' = ChainOf(s)
    BY <1>2, Zenon
  <2> QED BY <2>1, <2>2, Zenon
<1>8. \A q, s \in Requests' : q # s => ChainOf(q)' \cap ChainOf(s)' = {}
  BY <1>2, <1>5, <1>7
<1>9. Chained'
  BY Zenon, <1>2, <1>4, <1>6, <1>8 DEF Chained
<1> QED BY <1>1, <1>9, ChainShape

\* A request goes, and its descriptors with it.
LEMMA ChainGone ==
  ASSUME DiskInv, NEW p \in Requests, Requests' = Requests \ {p},
         \A q \in Requests' : rw'[q].idx = rw[q].idx,
         \A l \in Desc : /\ free'[l] <=> free[l] \/ l \in ChainOf(p)
                         /\ l \notin ChainOf(p) => desc'[l] = desc[l]
  PROVE  Chained'
<1>1. ASSUME NEW q \in Requests'
      PROVE  HasChain(q)' /\ ChainOf(q)' = ChainOf(q)
  <2>1. \A l \in ChainOf(q) : l \in Desc /\ ~free[l]
    BY ChainShape
  <2>2. ChainOf(q) \cap ChainOf(p) = {}
    BY Zenon DEF DiskInv, Chained
  <2>3. \A l \in ChainOf(q) : desc'[l] = desc[l] /\ ~free'[l]
    BY Zenon, <2>1, <2>2
  <2> QED BY Zenon, <2>3, ChainKept
<1>2. ASSUME NEW l \in Desc, ~free'[l]
      PROVE  \E q \in Requests' : l \in ChainOf(q)'
  <2>1. ~free[l] /\ l \notin ChainOf(p)
    BY Zenon, <1>2
  <2>2. PICK q \in Requests : l \in ChainOf(q)
    BY <2>1, Zenon DEF DiskInv, Chained
  <2> QED BY Zenon, <1>1, <2>1, <2>2
<1>3. \A q, s \in Requests' : q # s => ChainOf(q)' \cap ChainOf(s)' = {}
  BY <1>1 DEF DiskInv, Chained
<1> QED BY <1>1, <1>2, <1>3, Zenon DEF Chained

\* The device takes the next announced request.
Taken(i) ==
  /\ UNCHANGED <<queueVars, used, used_idx, rw, busy, bno, data, disk, handling>>
  /\ device'.seen \in RingIndex /\ device'.work = device.work \cup {i}
  /\ device' = [device EXCEPT !.seen = device'.seen, !.work = device'.work]
  /\ i \in Announced /\ Announced' = Announced \ {i}
  /\ DistinctEntries(avail.ring, device.seen, avail.idx)'

LEMMA TakeShape ==
  ASSUME DiskInv, DeviceTake
  PROVE  Taken(avail.ring[device.seen % NUM])
<1> DEFINE i == avail.ring[device.seen % NUM]
<1>1. /\ UNCHANGED <<queueVars, used, used_idx, rw, busy, bno, data, disk,
                     handling>>
      /\ device.seen # avail.idx
      /\ device'.seen = (device.seen + 1) % IDXMOD
      /\ device'.work = device.work \cup {i}
      /\ device' = [device EXCEPT !.seen = device'.seen, !.work = device'.work]
  BY Zenon DEF DeviceTake, DiskInv, DiskTypes
<1>2. /\ avail.ring \in [Desc -> Desc] /\ avail.idx \in RingIndex
      /\ device.seen \in RingIndex
      /\ DistinctEntries(avail.ring, device.seen, avail.idx)
  BY Zenon DEF DiskInv, DiskTypes, Ring, Rings
<1>3. /\ (device.seen + 1) % IDXMOD \in RingIndex /\ i \in Announced
      /\ Entries(avail.ring, (device.seen + 1) % IDXMOD, avail.idx)
           = Announced \ {i}
      /\ DistinctEntries(avail.ring, (device.seen + 1) % IDXMOD, avail.idx)
  BY <1>1, <1>2, PopEntry, Zenon DEF Announced
<1>4. avail' = avail
  BY Zenon, <1>1 DEF queueVars
<1>5. /\ Announced' = Entries(avail.ring, device'.seen, avail.idx)
      /\ DistinctEntries(avail.ring, device.seen, avail.idx)'
           = DistinctEntries(avail.ring, device'.seen, avail.idx)
  BY Zenon, <1>4 DEF Announced, Entries, DistinctEntries, Ahead
<1> QED BY <1>1, <1>3, <1>5, Zenon DEF Taken

LEMMA DeviceTakeInv ==
  ASSUME DiskInv, DeviceTake, UNCHANGED <<lru, lock, pc, cur>>
  PROVE  DiskInv'
<1> DEFINE i == avail.ring[device.seen % NUM]
<1>0. Taken(i)
  BY Zenon, TakeShape
<1>1. /\ UNCHANGED <<queueVars, used, used_idx, rw, busy, bno, handling>>
      /\ device'.work = device.work \cup {i} /\ device'.intr = device.intr
      /\ device' = [device EXCEPT !.seen = device'.seen, !.work = device'.work]
  BY Zenon, <1>0 DEF Taken, DiskInv, DiskTypes
<1>2. /\ device'.seen \in RingIndex /\ i \in Announced
      /\ Announced' = Announced \ {i}
      /\ DistinctEntries(avail.ring, device.seen, avail.idx)'
  BY Zenon, <1>0 DEF Taken
<1>3. PICK p \in Requests : rw[p].idx = i /\ i \in Desc
  BY <1>2, FlightOf, Zenon DEF InFlight
<1> HIDE DEF i
<1>4. Unseen' = Unseen /\ Requests' = Requests
  BY Zenon, <1>1 DEF Unseen, Requests
<1>5. InFlight' = InFlight
  BY Zenon, <1>1, <1>2, <1>4 DEF InFlight
<1>6. Chained'
  BY Zenon, <1>1, <1>4, SameChains DEF queueVars
<1>7. DiskTypes'
  <2>1. device' \in [seen : RingIndex, work : SUBSET Desc, intr : BOOLEAN]
    BY Zenon, <1>1, <1>2, <1>3 DEF DiskInv, DiskTypes
  <2> QED BY Zenon, <1>1, <2>1 DEF DiskInv, DiskTypes, queueVars
<1>8. Rings'
  <2>1. DistinctEntries(used.ring, used_idx, used.idx)'
    BY Zenon, <1>1 DEF DiskInv, Rings, DistinctEntries, Ahead
  <2> QED BY Zenon, <1>1, <1>2, <1>4, <2>1 DEF DiskInv, Rings
<1>9. Flights' /\ Formatted' /\ Waking'
  BY Zenon, <1>1, <1>4, <1>5 DEF DiskInv, Flights, Formatted, Waking, queueVars
<1>10. CacheTypes' /\ Locking'
  BY Zenon, <1>1, DriverKeepsCache
<1> QED BY Zenon, <1>6, <1>7, <1>8, <1>9, <1>10 DEF DiskInv

\* The device completes a request: there is room on the used ring, since no
\* entry of it is one of the three descriptors of this one.
LEMMA DeviceDoneInv ==
  ASSUME DiskInv, RingRoom, NEW i \in Desc, DeviceDone(i),
         UNCHANGED <<lru, lock, pc, cur>>
  PROVE  DiskInv'
<1>1. /\ UNCHANGED <<free, desc, avail, used_idx, rw, busy, bno, handling>>
      /\ i \in device.work
      /\ info' = [info EXCEPT ![i].status = 0]
      /\ used'.ring = [used.ring EXCEPT ![used.idx % NUM] = i]
      /\ used'.idx = (used.idx + 1) % IDXMOD
      /\ used' = [ring |-> used'.ring, idx |-> used'.idx]
      /\ device' = [device EXCEPT !.work = @ \ {i}, !.intr = TRUE]
  BY Zenon DEF DeviceDone
<1>2. i \notin Unseen /\ i \in InFlight
  BY Zenon, <1>1 DEF DiskInv, Rings, InFlight
<1>3. PICK p \in Requests : rw[p].idx = i
  BY <1>2, FlightOf, Zenon
<1>4. PICK j, k \in Desc :
        /\ ChainOf(p) = {i, j, k} /\ i # j /\ j # k /\ i # k
  BY <1>3, ChainShape
<1>5. \A l \in Unseen : l \notin {j, k}
  <2>1. ASSUME NEW l \in Unseen PROVE l \notin {j, k}
    <3>1. PICK q \in Requests : rw[q].idx = l
      BY FlightOf, Zenon DEF InFlight
    <3>2. CASE q = p
      BY Zenon, <1>3, <1>4, <3>1, <3>2
    <3>3. CASE q # p
      <4>1. l \notin ChainOf(p)
        BY Zenon, <3>1, <3>3, ChainShape
      <4> QED BY Zenon, <1>4, <4>1
    <3> QED BY Zenon, <3>2, <3>3
  <2> QED BY Zenon, <2>1
<1>6. /\ used'.idx \in RingIndex /\ used'.ring \in [Desc -> Desc]
      /\ Unseen' = Unseen \cup {i}
      /\ DistinctEntries(used.ring, used_idx, used.idx)'
  <2>1. /\ used.ring \in [Desc -> Desc] /\ used.idx \in RingIndex
        /\ used_idx \in RingIndex
        /\ DistinctEntries(used.ring, used_idx, used.idx)
    BY Zenon DEF DiskInv, DiskTypes, Ring, Rings
  <2>2. Ahead(used_idx, used.idx) + 1 < NUM
    <3>1. {i, j, k} \cap Entries(used.ring, used_idx, used.idx) = {}
      BY Zenon, <1>2, <1>5 DEF Unseen
    <3> QED BY <1>4, <2>1, <3>1, Zenon DEF RingRoom
  <2> DEFINE r == [used.ring EXCEPT ![used.idx % NUM] = i]
             u == (used.idx + 1) % IDXMOD
  <2>3. /\ u \in RingIndex /\ r \in [Desc -> Desc]
        /\ Entries(r, used_idx, u) = Unseen \cup {i}
        /\ DistinctEntries(r, used_idx, u)
    <3>1. i \notin Entries(used.ring, used_idx, used.idx)
      BY Zenon, <1>2 DEF Unseen
    <3>2. /\ u \in RingIndex /\ r \in [Desc -> Desc]
          /\ Entries(r, used_idx, u) = Entries(used.ring, used_idx, used.idx)
                                         \cup {i}
          /\ DistinctEntries(r, used_idx, u)
      BY <2>1, <2>2, <3>1, PushEntry
    <3> QED BY <3>2, Zenon DEF Unseen
  <2>4. used'.ring = r /\ used'.idx = u /\ used_idx' = used_idx
    BY Zenon, <1>1
  <2> HIDE DEF r, u
  <2>5. /\ Unseen' = Entries(r, used_idx, u)
        /\ DistinctEntries(used.ring, used_idx, used.idx)'
             = DistinctEntries(r, used_idx, u)
    BY Zenon, <2>4 DEF Unseen, Entries, DistinctEntries, Ahead
  <2> QED BY <2>3, <2>4, <2>5, Zenon
<1>7. /\ device'.seen = device.seen /\ device'.work = device.work \ {i}
      /\ device'.intr /\ device' \in [seen : RingIndex, work : SUBSET Desc,
                                      intr : BOOLEAN]
  BY Zenon, <1>1 DEF DiskInv, DiskTypes
<1>8. Announced' = Announced /\ Requests' = Requests
  BY Zenon, <1>1, <1>7 DEF Announced, Requests
<1>9. InFlight' = InFlight
  BY <1>1, <1>6, <1>7, <1>8 DEF InFlight
<1>10. /\ info' \in [Desc -> Info] /\ info'[i].status = 0
       /\ \A l \in Desc : /\ info'[l].b = info[l].b
                          /\ l # i => info'[l] = info[l]
  BY <1>1 DEF DiskInv, DiskTypes, Info
<1>11. Chained'
  BY Zenon, <1>1, <1>8, SameChains
<1>12. DiskTypes'
  BY Zenon, <1>1, <1>6, <1>7, <1>10 DEF DiskInv, DiskTypes, Ring
<1>13. Rings'
  <2>1. DistinctEntries(avail.ring, device.seen, avail.idx)'
    BY Zenon, <1>1, <1>7 DEF DiskInv, Rings, DistinctEntries, Ahead
  <2>2. i \notin Announced
    BY Zenon, <1>1 DEF DiskInv, Rings
  <2> QED BY Zenon, <1>6, <1>7, <1>8, <2>1, <2>2 DEF DiskInv, Rings
<1>14. Flights'
  BY Zenon, <1>1, <1>8, <1>9 DEF DiskInv, Flights
<1>15. Formatted'
  <2>1. \A l \in Unseen : l \in Desc
    BY FlightOf, Zenon DEF InFlight
  <2>2. \A q \in Requests : rw[q].idx \in Desc
    BY Zenon, RequestBuffer
  <2> QED BY Zenon, <1>1, <1>6, <1>8, <1>10, <2>1, <2>2 DEF DiskInv, Formatted
<1>16. Waking'
  BY Zenon, <1>1, <1>7, <1>8 DEF DiskInv, Waking
<1>17. CacheTypes' /\ Locking'
  BY Zenon, <1>1, DriverKeepsCache
<1> QED BY Zenon, <1>11, <1>12, <1>13, <1>14, <1>15, <1>16, <1>17 DEF DiskInv

\* The handler looks at one entry: only the request it belongs to is told.
LEMMA IntrEntryInv ==
  ASSUME DiskInv, IntrEntry, UNCHANGED <<bno, lru, lock, pc, cur>>
  PROVE  DiskInv'
<1> DEFINE i == used.ring[used_idx % NUM]
<1>1. /\ UNCHANGED <<queueVars, used, device, handling>>
      /\ handling /\ used_idx # used.idx
      /\ used_idx' = (used_idx + 1) % IDXMOD
      /\ busy' = [busy EXCEPT ![info[i].b] = FALSE]
      /\ rw' = WakeBuf(info[i].b, rw)
  BY Zenon DEF IntrEntry
<1>2. /\ used_idx' \in RingIndex /\ i \in Unseen
      /\ Unseen' = Unseen \ {i}
      /\ DistinctEntries(used.ring, used_idx, used.idx)'
  <2>1. /\ used.ring \in [Desc -> Desc] /\ used.idx \in RingIndex
        /\ used_idx \in RingIndex
        /\ DistinctEntries(used.ring, used_idx, used.idx)
    BY Zenon DEF DiskInv, DiskTypes, Ring, Rings
  <2>2. /\ (used_idx + 1) % IDXMOD \in RingIndex /\ i \in Unseen
        /\ Entries(used.ring, (used_idx + 1) % IDXMOD, used.idx)
             = Unseen \ {i}
        /\ DistinctEntries(used.ring, (used_idx + 1) % IDXMOD, used.idx)
    BY <1>1, <2>1, PopEntry, Zenon DEF Unseen
  <2>3. used' = used
    BY Zenon, <1>1
  <2>4. /\ Unseen' = Entries(used.ring, used_idx', used.idx)
        /\ DistinctEntries(used.ring, used_idx, used.idx)'
             = DistinctEntries(used.ring, used_idx', used.idx)
    BY Zenon, <2>3 DEF Unseen, Entries, DistinctEntries, Ahead
  <2> QED BY <1>1, <2>2, <2>4, Zenon
<1>3. PICK p \in Requests : rw[p].idx = i /\ i \in Desc /\ busy[rw[p].buf]
  BY <1>2, FlightOf, Zenon DEF InFlight
<1> HIDE DEF i
<1>4. PICK b \in Buf : b = info[i].b /\ b = rw[p].buf
  BY Zenon, <1>3, RequestBuffer DEF DiskInv, Formatted
<1>5. /\ rw' \in [Proc -> Rw]
      /\ \A q \in Proc :
           /\ rw'[q].buf = rw[q].buf /\ rw'[q].idx = rw[q].idx
           /\ rw'[q].at = IF rw[q].at = "asleep" /\ rw[q].buf = b
                          THEN "awake" ELSE rw[q].at
  BY <1>1, <1>4 DEF WakeBuf, DiskInv, DiskTypes, Rw
<1>6. /\ busy' \in [Buf -> BOOLEAN] /\ ~busy'[b]
      /\ \A c \in Buf : c # b => busy'[c] = busy[c]
  BY Zenon, <1>1, <1>4 DEF DiskInv, DiskTypes
<1>7. Requests' = Requests /\ Announced' = Announced
  BY Zenon, <1>1, <1>5 DEF Requests, Announced, queueVars
<1>8. InFlight' = InFlight \ {i}
  BY Zenon, <1>1, <1>2, <1>7 DEF InFlight, DiskInv, Rings
<1>9. \A q \in Requests : /\ rw[q].idx = i <=> q = p
                          /\ rw[q].buf = b <=> q = p
                          /\ rw[q].buf \in Buf /\ q \in Proc
  <2>1. i \in ChainOf(p)
    BY Zenon, <1>3, ChainShape
  <2> QED BY <1>3, <1>4, <2>1, ChainShape, RequestBuffer
<1>10. Chained'
  BY Zenon, <1>1, <1>5, <1>7, <1>9, SameChains DEF queueVars
<1>11. DiskTypes'
  BY Zenon, <1>1, <1>2, <1>5, <1>6 DEF DiskInv, DiskTypes, queueVars
<1>12. Rings'
  <2>1. DistinctEntries(avail.ring, device.seen, avail.idx)'
    BY Zenon, <1>1 DEF DiskInv, Rings, DistinctEntries, Ahead, queueVars
  <2> QED BY Zenon, <1>1, <1>2, <1>7, <2>1 DEF DiskInv, Rings
<1>13. Flights'
  BY <1>5, <1>6, <1>7, <1>8, <1>9 DEF DiskInv, Flights
<1>14. Formatted'
  BY Zenon, <1>1, <1>2, <1>5, <1>7, <1>9 DEF DiskInv, Formatted, queueVars
<1>15. Waking'
  <2>1. \A q \in Proc : rw[q].at = "asleep" => q \in Requests
    BY Zenon DEF Requests
  <2>2. \A q \in Proc : rw'[q].at = "asleep" => busy'[rw'[q].buf]
    BY Zenon, <1>5, <1>6, <1>9, <2>1 DEF DiskInv, Waking
  <2>3. \A q \in Proc : rw'[q].at = "no_desc" => rw[q].at = "no_desc"
    BY Zenon, <1>5
  <2> QED BY <1>1, <1>7, <2>2, <2>3, Zenon DEF DiskInv, Waking
<1>16. CacheTypes' /\ Locking'
  BY Zenon, <1>5, DriverKeepsCache
<1> QED BY Zenon, <1>10, <1>11, <1>12, <1>13, <1>14, <1>15, <1>16 DEF DiskInv

\* A request is put on the available ring.
LEMMA EntryAdded ==
  ASSUME DiskInv, RingRoom, UNCHANGED device,
         NEW i \in Desc, NEW j \in Desc, NEW k \in Desc, i # j, j # k, i # k,
         \A l \in {i, j, k} : l \notin Announced,
         avail' = [ring |-> [avail.ring EXCEPT ![avail.idx % NUM] = i],
                   idx |-> (avail.idx + 1) % IDXMOD]
  PROVE  /\ avail' \in Ring /\ Announced' = Announced \cup {i}
         /\ DistinctEntries(avail.ring, device.seen, avail.idx)'
<1> DEFINE r == [avail.ring EXCEPT ![avail.idx % NUM] = i]
           u == (avail.idx + 1) % IDXMOD
<1>1. /\ avail.ring \in [Desc -> Desc] /\ avail.idx \in RingIndex
      /\ device.seen \in RingIndex
      /\ DistinctEntries(avail.ring, device.seen, avail.idx)
  BY Zenon DEF DiskInv, DiskTypes, Ring, Rings
<1>2. \A l \in {i, j, k} : l \notin Entries(avail.ring, device.seen, avail.idx)
  BY Zenon DEF Announced
<1>3. Ahead(device.seen, avail.idx) + 1 < NUM
  <2>1. {i, j, k} \cap Entries(avail.ring, device.seen, avail.idx) = {}
    BY Zenon, <1>2
  <2> QED BY <1>1, <2>1, Zenon DEF RingRoom
<1>4. /\ u \in RingIndex /\ r \in [Desc -> Desc]
      /\ Entries(r, device.seen, u)
           = Entries(avail.ring, device.seen, avail.idx) \cup {i}
      /\ DistinctEntries(r, device.seen, u)
  BY <1>1, <1>2, <1>3, PushEntry
<1>5. avail' = [ring |-> r, idx |-> u]
  BY Zenon
<1> HIDE DEF r, u
<1>6. avail'.ring = r /\ avail'.idx = u /\ avail' \in Ring
  <2>1. [ring |-> r, idx |-> u] \in Ring
    BY <1>4, Zenon DEF Ring
  <2>2. [ring |-> r, idx |-> u].ring = r /\ [ring |-> r, idx |-> u].idx = u
    BY Zenon
  <2> QED BY <1>5, <2>1, <2>2, Zenon
<1>7. /\ Announced' = Entries(avail'.ring, device'.seen, avail'.idx)
      /\ DistinctEntries(avail.ring, device.seen, avail.idx)'
           = DistinctEntries(avail'.ring, device'.seen, avail'.idx)
  BY Zenon DEF Announced, Entries, DistinctEntries, Ahead
<1> QED BY <1>4, <1>6, <1>7, Zenon DEF Announced

\* Its descriptors are written.
LEMMA DescsWritten ==
  ASSUME DiskInv, NEW p \in Proc, NEW b \in Buf, b = rw[p].buf,
         NEW i \in Desc, NEW j \in Desc, NEW k \in Desc, i # j, j # k, i # k,
         free' = [free EXCEPT ![i] = FALSE, ![j] = FALSE, ![k] = FALSE],
         desc' = [desc EXCEPT
                   ![i] = [op |-> [write |-> rw[p].write,
                                   sector |-> bno[rw[p].buf]],
                           addr |-> NoBuf, next |-> j, more |-> TRUE],
                   ![j] = [op |-> NoOp, addr |-> rw[p].buf, next |-> k,
                           more |-> TRUE],
                   ![k] = NoDesc]
  PROVE  /\ desc' \in [Desc -> Descriptor] /\ free' \in [Desc -> BOOLEAN]
         /\ desc'[i].more /\ desc'[i].next = j
         /\ desc'[j].more /\ desc'[j].next = k
         /\ desc'[i].op = [write |-> rw[p].write, sector |-> bno[rw[p].buf]]
         /\ desc'[j].addr = rw[p].buf
         /\ \A l \in Desc : /\ free'[l] <=> free[l] /\ l \notin {i, j, k}
                            /\ l \notin {i, j, k} => desc'[l] = desc[l]
<1>1. desc \in [Desc -> Descriptor] /\ NoDesc \in Descriptor
  <2>1. 0 \in Desc
    BY DiskAssumption DEF Desc
  <2> QED BY <2>1, Zenon DEF NoDesc, Descriptor, NoOp, Op, DiskInv, DiskTypes
<1>2. [op |-> NoOp, addr |-> b, next |-> k, more |-> TRUE] \in Descriptor
  BY Zenon DEF Descriptor, NoOp, Op
<1>3. [op |-> [write |-> rw[p].write, sector |-> bno[b]],
       addr |-> NoBuf, next |-> j, more |-> TRUE] \in Descriptor
  BY Zenon DEF Descriptor, Op, DiskInv, DiskTypes, CacheTypes, Rw
<1>4. /\ desc' \in [Desc -> Descriptor] /\ desc'[i].next = j
      /\ desc'[j].next = k /\ desc'[i].more /\ desc'[j].more
      /\ \A l \in Desc : l \notin {i, j, k} => desc'[l] = desc[l]
  BY Zenon, <1>1, <1>2, <1>3
<1>5. /\ desc'[j].addr = rw[p].buf
      /\ desc'[i].op = [write |-> rw[p].write, sector |-> bno[rw[p].buf]]
  BY Zenon, <1>1
<1>6. /\ free' \in [Desc -> BOOLEAN]
      /\ \A l \in Desc : free'[l] <=> free[l] /\ l \notin {i, j, k}
  BY Zenon DEF DiskInv, DiskTypes
<1> QED BY <1>4, <1>5, <1>6, Zenon

\* What a submitted request is made of: three free descriptors, the first of
\* them announced.
Submitted(p, i, j, k) ==
  /\ NewChain(p, i, j, k)
  /\ rw' \in [Proc -> Rw] /\ rw[p].at = "try" /\ rw'[p].at = "asleep"
  /\ rw'[p].buf = rw[p].buf /\ rw'[p].write = rw[p].write
  /\ \A q \in Proc : q # p => rw'[q] = rw[q]
  /\ desc' \in [Desc -> Descriptor] /\ free' \in [Desc -> BOOLEAN]
  /\ desc'[i].op = [write |-> rw[p].write, sector |-> bno[rw[p].buf]]
  /\ desc'[j].addr = rw[p].buf
  /\ info' = [info EXCEPT ![i] = [b |-> rw[p].buf, status |-> 255]]
  /\ \A l \in InFlight : l \in Desc /\ l \notin {i, j, k}
  /\ avail' \in Ring /\ Announced' = Announced \cup {i}
  /\ DistinctEntries(avail.ring, device.seen, avail.idx)'

LEMMA SubmitShape ==
  ASSUME DiskInv, RingRoom, DescsFound, NEW p \in Proc, Submit(p)
  PROVE  \E i, j, k \in Desc : Submitted(p, i, j, k)
<1>1. PICK i, j, k \in Desc :
        /\ i # j /\ j # k /\ i # k /\ free[i] /\ free[j] /\ free[k]
        /\ free' = [free EXCEPT ![i] = FALSE, ![j] = FALSE, ![k] = FALSE]
        /\ desc' = [desc EXCEPT
                     ![i] = [op |-> [write |-> rw[p].write,
                                     sector |-> bno[rw[p].buf]],
                             addr |-> NoBuf, next |-> j, more |-> TRUE],
                     ![j] = [op |-> NoOp, addr |-> rw[p].buf, next |-> k,
                             more |-> TRUE],
                     ![k] = NoDesc]
        /\ info' = [info EXCEPT ![i] = [b |-> rw[p].buf, status |-> 255]]
        /\ avail' = [ring |-> [avail.ring EXCEPT ![avail.idx % NUM] = i],
                     idx |-> (avail.idx + 1) % IDXMOD]
        /\ rw' = [rw EXCEPT ![p].at = "asleep", ![p].idx = i]
  <2> DEFINE i0 == Lowest(FreeDescs)
             i1 == Lowest(FreeDescs \ {i0})
             i2 == Lowest(FreeDescs \ {i0, i1})
  <2>1. {i0, i1, i2} \subseteq FreeDescs /\ i0 # i1 /\ i1 # i2 /\ i0 # i2
    BY Zenon DEF DescsFound, Submit
  <2>2. \A l \in {i0, i1, i2} : l \in Desc /\ free[l]
    BY <2>1, Zenon DEF FreeDescs
  <2>3. i0 \in Desc /\ i1 \in Desc /\ i2 \in Desc
        /\ free[i0] /\ free[i1] /\ free[i2]
    BY Zenon, <2>2
  <2> QED BY <2>1, <2>3, Zenon DEF Submit
<1>2. rw[p].at = "try" /\ device' = device
  BY Zenon DEF Submit, At
<1>3. PICK b \in Buf : b = rw[p].buf
  <2>1. rw[p].at # "none"
    BY Zenon, <1>2
  <2> QED BY <2>1, CallerBuffer, Zenon
<1>4. /\ rw' \in [Proc -> Rw] /\ rw'[p].at = "asleep" /\ rw'[p].idx = i
      /\ rw'[p].buf = rw[p].buf /\ rw'[p].write = rw[p].write
      /\ \A q \in Proc : q # p => rw'[q] = rw[q]
  <2>1. rw \in [Proc -> Rw] /\ [[rw[p] EXCEPT !.at = "asleep"] EXCEPT !.idx = i] \in Rw
    BY Zenon DEF DiskInv, DiskTypes, Rw
  <2>2. rw' = [rw EXCEPT ![p] = [[rw[p] EXCEPT !.at = "asleep"] EXCEPT !.idx = i]]
    BY Zenon, <1>1, <2>1
  <2> QED BY Zenon, <2>1, <2>2 DEF Rw
<1>5. /\ Requests' = Requests \cup {p}
      /\ \A q \in Requests : q # p /\ rw'[q] = rw[q]
  BY Zenon, <1>2, <1>4 DEF Requests
<1>6. /\ desc' \in [Desc -> Descriptor] /\ free' \in [Desc -> BOOLEAN]
      /\ desc'[i].more /\ desc'[i].next = j
      /\ desc'[j].more /\ desc'[j].next = k
      /\ desc'[i].op = [write |-> rw[p].write, sector |-> bno[rw[p].buf]]
      /\ desc'[j].addr = rw[p].buf
      /\ \A l \in Desc : /\ free'[l] <=> free[l] /\ l \notin {i, j, k}
                         /\ l \notin {i, j, k} => desc'[l] = desc[l]
  BY <1>1, <1>3, DescsWritten, Zenon
<1>7. NewChain(p, i, j, k)
  <2>1. i # j /\ j # k /\ i # k /\ free[i] /\ free[j] /\ free[k]
    BY <1>1, Zenon
  <2> QED BY <1>4, <1>5, <1>6, <2>1, Zenon DEF NewChain
<1>8. \A l \in InFlight : l \in Desc /\ l \notin {i, j, k}
  BY <1>1, FlightOf, Zenon
<1>9. /\ avail' \in Ring /\ Announced' = Announced \cup {i}
      /\ DistinctEntries(avail.ring, device.seen, avail.idx)'
  <2>1. \A l \in {i, j, k} : l \notin Announced
    BY <1>8, Zenon DEF InFlight
  <2> QED BY <1>1, <1>2, <2>1, EntryAdded, Zenon
<1>10. info' = [info EXCEPT ![i] = [b |-> rw[p].buf, status |-> 255]]
  BY <1>1, Zenon
<1> QED BY <1>2, <1>4, <1>6, <1>7, <1>8, <1>9, <1>10, Zenon DEF Submitted

\* A request is formatted in three free descriptors and announced.
LEMMA SubmitInv ==
  ASSUME DiskInv, RingRoom, DescsFound, NEW p \in Proc, Submit(p),
         UNCHANGED <<bno, lru, lock, pc, cur>>
  PROVE  DiskInv'
<1>1. PICK i, j, k \in Desc : Submitted(p, i, j, k)
  BY SubmitShape, Zenon
<1>2. /\ UNCHANGED <<used, used_idx, device, handling>> /\ rw[p].at = "try"
      /\ busy' = [busy EXCEPT ![rw[p].buf] = TRUE]
  BY Zenon DEF Submit, At
<1>3. PICK b \in Buf : b = rw[p].buf /\ b = cur[p] /\ lock[b] = p
  <2>1. rw[p].at # "none"
    BY Zenon, <1>2
  <2> QED BY <2>1, CallerBuffer, Zenon
<1>4. /\ rw' \in [Proc -> Rw]
      /\ rw'[p].at = "asleep" /\ rw'[p].idx = i /\ rw'[p].buf = b
      /\ \A q \in Proc : q # p => rw'[q] = rw[q]
  BY Zenon, <1>1, <1>3 DEF Submitted, NewChain
<1>5. /\ Requests' = Requests \cup {p} /\ p \notin Requests
      /\ \A q \in Requests : q # p /\ rw'[q] = rw[q]
  BY Zenon, <1>1 DEF Submitted, NewChain
<1>6. \A q \in Requests : rw[q].buf # b /\ rw[q].buf \in Buf /\ q \in Proc
  BY <1>3, <1>5, RequestBuffer
<1>7. /\ Chained' /\ \A q \in Requests : rw[q].idx \in Desc \ {i}
  BY <1>1, ChainAdded, Zenon DEF Submitted
<1>8. /\ info' \in [Desc -> Info] /\ info'[i].b = b
      /\ \A l \in Desc \ {i} : info'[l] = info[l]
  <2>1. info' = [info EXCEPT ![i] = [b |-> b, status |-> 255]]
    BY <1>1, <1>3, Zenon DEF Submitted
  <2> QED BY <2>1 DEF DiskInv, DiskTypes, Info
<1>9. /\ busy' \in [Buf -> BOOLEAN] /\ busy'[b]
      /\ \A c \in Buf \ {b} : busy'[c] = busy[c]
  BY Zenon, <1>2, <1>3 DEF DiskInv, DiskTypes
<1>10. /\ desc' \in [Desc -> Descriptor] /\ free' \in [Desc -> BOOLEAN]
       /\ \A l \in InFlight : l \in Desc /\ l \notin {i, j, k}
       /\ avail' \in Ring /\ Announced' = Announced \cup {i}
       /\ DistinctEntries(avail.ring, device.seen, avail.idx)'
  BY <1>1, Zenon DEF Submitted
<1>11. Unseen' = Unseen /\ device' = device
  BY Zenon, <1>2 DEF Unseen
<1>12. InFlight' = InFlight \cup {i}
  BY Zenon, <1>10, <1>11 DEF InFlight
<1>13. DiskTypes'
  BY <1>2, <1>4, <1>8, <1>9, <1>10, Zenon DEF DiskInv, DiskTypes
<1>14. Rings'
  <2>1. DistinctEntries(used.ring, used_idx, used.idx)'
    BY Zenon, <1>2 DEF DiskInv, Rings, DistinctEntries, Ahead
  <2>2. i \notin device.work /\ i \notin Unseen
    BY Zenon, <1>10 DEF InFlight
  <2> QED BY Zenon, <1>10, <1>11, <2>1, <2>2 DEF DiskInv, Rings
<1>15. Flights'
  BY <1>4, <1>5, <1>6, <1>9, <1>12 DEF DiskInv, Flights
<1>16. Formatted'
  BY <1>4, <1>5, <1>7, <1>8, <1>10, <1>11 DEF DiskInv, Formatted, InFlight
<1>17. Waking'
  <2>1. \A q \in Proc : rw'[q].at = "asleep" => q \in Requests'
    BY Zenon DEF Requests
  <2>2. \A q \in Requests : rw[q].at = "asleep" => busy'[rw[q].buf]
    BY Zenon, <1>6, <1>9 DEF DiskInv, Waking
  <2>3. \A q \in Proc : rw'[q].at = "asleep" => busy'[rw'[q].buf]
    BY <1>4, <1>5, <1>9, <2>1, <2>2, Zenon
  <2> QED BY Zenon, <1>2, <1>5, <2>3 DEF DiskInv, Waking
<1>18. CacheTypes' /\ Locking'
  BY <1>2, <1>3, <1>4, DriverKeepsCache, Zenon
<1> QED BY Zenon, <1>7, <1>13, <1>14, <1>15, <1>16, <1>17, <1>18 DEF DiskInv

\* The caller of a finished request goes on with its buffer locked.
LEMMA RequestEnds ==
  ASSUME DiskInv, NEW p \in Proc, UNCHANGED <<bno, lru, lock, cur>>,
         pc[p] \in {"reading", "writing"}, pc' = [pc EXCEPT ![p] = "have"],
         rw'[p].at = "none",
         \A q \in Proc : q # p => /\ rw'[q].buf = rw[q].buf
                                  /\ rw'[q].at = "none" <=> rw[q].at = "none"
  PROVE  CacheTypes' /\ Locking'
<1>1. CacheTypes'
  BY Zenon DEF DiskInv, CacheTypes
<1>2. pc'[p] = "have" /\ \A q \in Proc : q # p => pc'[q] = pc[q]
  BY Zenon DEF DiskInv, CacheTypes
<1>3. \A q \in Proc :
        /\ pc'[q] = "idle" <=> pc[q] = "idle"
        /\ pc'[q] \in {"reading", "writing", "have"}
             <=> pc[q] \in {"reading", "writing", "have"}
  BY Zenon, <1>2
<1>4. \A q \in Proc :
        /\ rw'[q].at # "none" <=> pc'[q] \in {"reading", "writing"}
        /\ rw'[q].at # "none" => rw'[q].buf = cur[q]
  BY <1>2 DEF DiskInv, Locking
<1>5. \A q \in Proc, b \in Buf :
        lock[b] = q <=> pc'[q] \in {"reading", "writing", "have"} /\ cur[q] = b
  BY <1>3 DEF DiskInv, Locking
<1>6. \A q \in Proc : pc'[q] = "idle" <=> cur[q] = NoBuf
  BY Zenon, <1>3 DEF DiskInv, Locking
<1> QED BY <1>1, <1>4, <1>5, <1>6 DEF Locking

\* What is left of the requests when one has finished.
Finished(p) ==
  /\ UNCHANGED <<avail, used, used_idx, busy, disk, device, handling>>
  /\ p \in Requests /\ ~busy[rw[p].buf] /\ Requests' = Requests \ {p}
  /\ info' = [info EXCEPT ![rw[p].idx].b = NoBuf]
  /\ free' = [l \in Desc |-> free[l] \/ l \in ChainOf(p)]
  /\ desc' = [l \in Desc |-> IF l \in ChainOf(p) THEN NoDesc ELSE desc[l]]
  /\ rw' \in [Proc -> Rw] /\ rw'[p].at = "none"
  /\ \A q \in Proc : q # p =>
       /\ rw'[q].buf = rw[q].buf /\ rw'[q].idx = rw[q].idx
       /\ rw'[q].write = rw[q].write
       /\ rw'[q].at = IF rw[q].at = "no_desc" THEN "try" ELSE rw[q].at

LEMMA FinishShape ==
  ASSUME DiskInv, NEW p \in Proc, Finish(p) PROVE Finished(p)
<1>1. /\ UNCHANGED <<avail, used, used_idx, busy, disk, device, handling>>
      /\ rw[p].at = "awake" /\ ~busy[rw[p].buf]
      /\ info' = [info EXCEPT ![rw[p].idx].b = NoBuf]
      /\ free' = [l \in Desc |-> free[l] \/ l \in ChainOf(p)]
      /\ desc' = [l \in Desc |-> IF l \in ChainOf(p) THEN NoDesc ELSE desc[l]]
      /\ rw' = WakeFree(p, [rw EXCEPT ![p] = NoRequest])
  BY Zenon DEF Finish, At, FreeChain, ChainOf
<1>2. p \in Requests
  BY Zenon, <1>1 DEF Requests
<1>3. /\ rw' \in [Proc -> Rw] /\ rw'[p].at = "none"
      /\ \A q \in Proc : q # p =>
           /\ rw'[q].buf = rw[q].buf /\ rw'[q].idx = rw[q].idx
           /\ rw'[q].write = rw[q].write
           /\ rw'[q].at = IF rw[q].at = "no_desc" THEN "try" ELSE rw[q].at
  <2>1. 0 \in Desc
    BY DiskAssumption DEF Desc
  <2>2. NoRequest \in Rw /\ NoRequest.at = "none"
    BY Zenon, <2>1 DEF NoRequest, Rw
  <2>3. \A q \in Proc : [rw[q] EXCEPT !.at = "try"] \in Rw /\ rw[q] \in Rw
    BY Zenon DEF DiskInv, DiskTypes, Rw
  <2>4. rw' = [q \in Proc |-> IF q = p THEN NoRequest
                              ELSE IF rw[q].at = "no_desc"
                              THEN [rw[q] EXCEPT !.at = "try"] ELSE rw[q]]
    BY Zenon, <1>1 DEF WakeFree, DiskInv, DiskTypes
  <2> QED BY Zenon, <2>2, <2>3, <2>4 DEF Rw
<1>4. Requests' = Requests \ {p}
  BY Zenon, <1>3 DEF Requests
<1> QED BY Zenon, <1>1, <1>2, <1>3, <1>4 DEF Finished

\* A finished request gives its descriptors back; nobody else refers to
\* them, and those who wait for descriptors are woken.
LEMMA RwDoneInv ==
  ASSUME DiskInv, NEW p \in Proc, RwDone(p)
  PROVE  DiskInv'
<1>0. Finished(p)
  BY Zenon, FinishShape DEF RwDone
<1>1. /\ UNCHANGED <<avail, used, used_idx, busy, device, handling>>
      /\ UNCHANGED <<bno, lru, lock, cur>>
      /\ pc[p] \in {"reading", "writing"} /\ pc' = [pc EXCEPT ![p] = "have"]
      /\ ~busy[rw[p].buf] /\ info' = [info EXCEPT ![rw[p].idx].b = NoBuf]
      /\ free' = [l \in Desc |-> free[l] \/ l \in ChainOf(p)]
      /\ desc' = [l \in Desc |-> IF l \in ChainOf(p) THEN NoDesc ELSE desc[l]]
  BY Zenon, <1>0 DEF RwDone, Finished, Here, Goto
<1>2. p \in Requests
  BY Zenon, <1>0 DEF Finished
<1>3. PICK i, j, k \in Desc : i = rw[p].idx /\ ChainOf(p) = {i, j, k}
  BY <1>2, ChainShape
<1>4. /\ rw' \in [Proc -> Rw] /\ rw'[p].at = "none"
      /\ \A q \in Proc : q # p =>
           /\ rw'[q].buf = rw[q].buf /\ rw'[q].idx = rw[q].idx
           /\ rw'[q].at = IF rw[q].at = "no_desc" THEN "try" ELSE rw[q].at
  BY Zenon, <1>0 DEF Finished
<1>5. Requests' = Requests \ {p}
  BY Zenon, <1>0 DEF Finished
<1>6. i \notin InFlight
  <2>1. SUFFICES ASSUME i \in InFlight PROVE FALSE
    BY Zenon
  <2> QED BY Zenon, <1>1, <1>2, <1>3, <2>1, FlightOf
<1>7. DiskTypes'
  <2>1. NoDesc \in Descriptor
    <3>1. 0 \in Desc
      BY DiskAssumption DEF Desc
    <3> QED BY Zenon, <3>1 DEF NoDesc, Descriptor, NoOp, Op
  <2>2. desc' \in [Desc -> Descriptor] /\ free' \in [Desc -> BOOLEAN]
    BY Zenon, <1>1, <2>1 DEF DiskInv, DiskTypes
  <2>3. info' \in [Desc -> Info]
    <3>1. info \in [Desc -> Info] /\ [info[i] EXCEPT !.b = NoBuf] \in Info
      BY DEF DiskInv, DiskTypes, Info
    <3>2. info' = [info EXCEPT ![i] = [info[i] EXCEPT !.b = NoBuf]]
      BY Zenon, <1>1, <1>3
    <3> QED BY Zenon, <3>1, <3>2
  <2> QED BY Zenon, <1>1, <1>4, <2>2, <2>3 DEF DiskInv, DiskTypes
<1>8. \A q \in Requests' : rw'[q].idx = rw[q].idx
  BY Zenon, <1>4, <1>5 DEF Requests
<1>9. Chained'
  BY Zenon, <1>1, <1>2, <1>5, <1>8, ChainGone
<1>10. Announced' = Announced /\ Unseen' = Unseen /\ InFlight' = InFlight
  BY Zenon, <1>1 DEF Announced, Unseen, InFlight
<1>11. Rings'
  BY Zenon, <1>1, <1>10 DEF DiskInv, Rings, DistinctEntries, Ahead
<1>12. \A q \in Requests' : /\ q \in Requests /\ rw'[q].buf = rw[q].buf
                            /\ rw'[q].idx = rw[q].idx /\ rw[q].idx \in Desc \ {i}
  <2>1. \A q \in Requests : q # p => rw[q].idx # i
    BY Zenon, <1>2, <1>3, ChainShape
  <2> QED BY Zenon, <1>4, <1>5, <2>1, RequestBuffer
<1>13. Flights'
  <2>1. \A l \in InFlight : \E q \in Requests' : rw[q].idx = l /\ busy[rw[q].buf]
    BY Zenon, <1>1, <1>5 DEF DiskInv, Flights
  <2>2. \A q \in Requests' : busy[rw'[q].buf] => rw'[q].idx \in InFlight
    BY <1>12, Zenon DEF DiskInv, Flights
  <2>3. \A l \in InFlight : \E q \in Requests' :
          rw'[q].idx = l /\ busy[rw'[q].buf]
    BY <1>12, <2>1
  <2> QED BY <1>1, <1>10, <2>2, <2>3, Zenon DEF Flights
<1>14. Formatted'
  <2>1. \A l \in Desc \ {i} : info'[l] = info[l]
    BY Zenon, <1>1, <1>3 DEF DiskInv, DiskTypes
  <2>2. \A l \in Unseen : l \in Desc \ {i}
    BY <1>6, FlightOf, Zenon DEF InFlight
  <2> QED BY Zenon, <1>10, <1>12, <2>1, <2>2 DEF DiskInv, Formatted
<1>15. Waking'
  <2>1. \A q \in Proc : rw'[q].at # "no_desc"
    BY Zenon, <1>4
  <2>2. \A q \in Proc : rw'[q].at = "asleep" =>
          rw[q].at = "asleep" /\ rw'[q].buf = rw[q].buf
    BY Zenon, <1>4
  <2> QED BY <1>1, <2>1, <2>2, Zenon DEF DiskInv, Waking
<1>16. CacheTypes' /\ Locking'
  <2>1. \A q \in Proc : q # p => /\ rw'[q].buf = rw[q].buf
                                 /\ rw'[q].at = "none" <=> rw[q].at = "none"
    BY Zenon, <1>4
  <2> QED BY <1>1, <1>4, <2>1, RequestEnds, Zenon
<1> QED BY Zenon, <1>7, <1>9, <1>11, <1>13, <1>14, <1>15, <1>16 DEF DiskInv

-----------------------------------------------------------------------------
(* Finite sets.  Least and greatest elements: alloc_desc() and bget() scan   *)
(* in order.                                                                 *)

INSTANCE FiniteSetTheorems

\* The descriptors.
LEMMA DescsCounted == IsFiniteSet(Desc) /\ Cardinality(Desc) = NUM
<1>1. NUM \in Nat /\ NUM >= 3 /\ 0 \in Int /\ NUM - 1 \in Int
  BY DiskAssumption
<1>2. /\ IsFiniteSet(0 .. NUM - 1)
      /\ Cardinality(0 .. NUM - 1) = IF 0 > NUM - 1 THEN 0 ELSE NUM - 1 - 0 + 1
  BY <1>1, FS_Interval, Zenon
<1> QED BY <1>1, <1>2 DEF Desc

\* There is room for one more entry when three descriptors are not on the
\* ring: entries are different descriptors.
LEMMA RingHasRoom == RingRoom
<1> SUFFICES ASSUME NEW ring \in [Desc -> Desc], NEW from \in RingIndex,
                    NEW to \in RingIndex, DistinctEntries(ring, from, to),
                    NEW i \in Desc, NEW j \in Desc, NEW k \in Desc,
                    i # j, j # k, i # k,
                    {i, j, k} \cap Entries(ring, from, to) = {}
             PROVE  Ahead(from, to) + 1 < NUM
  BY Zenon DEF RingRoom
<1> DEFINE d == Ahead(from, to)
           D == 0 .. d - 1
           rest == ((Desc \ {i}) \ {j}) \ {k}
           f == [n \in D |-> ring[(from + n) % NUM]]
<1>1. NUM \in Nat /\ d \in Nat /\ from \in Nat
  BY DiskAssumption, AheadValue DEF RingIndex
<1>2. IsFiniteSet(Desc) /\ Cardinality(Desc) = NUM
  BY Zenon, DescsCounted
<1>3. IsFiniteSet(Desc \ {i}) /\ Cardinality(Desc \ {i}) = NUM - 1
  BY <1>2, FS_RemoveElement, Zenon
<1>4. /\ IsFiniteSet((Desc \ {i}) \ {j})
      /\ Cardinality((Desc \ {i}) \ {j}) = NUM - 2
  <2>1. j \in Desc \ {i}
    BY Zenon
  <2> QED BY <1>1, <1>3, <2>1, FS_RemoveElement
<1>5. IsFiniteSet(rest) /\ Cardinality(rest) = NUM - 3
  <2> DEFINE T == (Desc \ {i}) \ {j}
  <2>1. k \in T
    BY Zenon
  <2> HIDE DEF T
  <2>2. IsFiniteSet(T) /\ Cardinality(T) = NUM - 2
    BY Zenon, <1>4 DEF T
  <2>3. IsFiniteSet(T \ {k}) /\ Cardinality(T \ {k}) = Cardinality(T) - 1
    BY <2>1, <2>2, FS_RemoveElement, Zenon
  <2> QED BY <1>1, <2>2, <2>3 DEF T
<1>6. IsFiniteSet(D) /\ Cardinality(D) = d
  <2>1. 0 \in Int /\ d - 1 \in Int
    BY <1>1
  <2> HIDE DEF d
  <2>2. /\ IsFiniteSet(D)
        /\ Cardinality(D) = IF 0 > d - 1 THEN 0 ELSE d - 1 - 0 + 1
    BY Zenon, <2>1, FS_Interval
  <2> HIDE DEF D
  <2> QED BY <2>2, <1>1
<1>7. f \in Injection(D, rest)
  <2>1. \A n \in D : f[n] \in Entries(ring, from, to)
    BY Zenon DEF Entries
  <2>2. \A n \in D : f[n] \in Desc
    <3>1. \A n \in D : (from + n) % NUM \in Desc
      <4> HIDE DEF d
      <4> QED BY <1>1, PlaceIsDesc
    <3> QED BY Zenon, <3>1
  <2>3. f \in [D -> rest]
    BY Zenon, <2>1, <2>2
  <2>4. \A m, n \in D : f[m] = f[n] => m = n
    BY Zenon DEF DistinctEntries
  <2> HIDE DEF f, D, rest
  <2> QED BY Zenon, <2>3, <2>4 DEF Injection, IsInjective
<1>8. d <= NUM - 3
  <2> HIDE DEF f, D, rest, d
  <2>1. Cardinality(D) <= Cardinality(rest)
    BY Zenon, <1>5, <1>6, <1>7, FS_Injection
  <2> QED BY Zenon, <2>1, <1>5, <1>6
<1> QED BY <1>1, <1>8

\* Every nonempty set of numbers has a least element,
LEMMA LowestIn ==
  ASSUME NEW S \in SUBSET Nat, S # {}
  PROVE  Lowest(S) \in S /\ \A y \in S : Lowest(S) <= y
<1> DEFINE R == {ss \in Nat \X Nat : ss[1] < ss[2]}
<1>1. IsWellFoundedOn(R, Nat)
  BY Zenon, NatLessThanWellFounded DEF OpToRel
<1>2. PICK x \in S : \A y \in S : ~(<<y, x>> \in R)
  <2> HIDE DEF R
  <2> QED BY <1>1, WFMin, Zenon
<1>3. ASSUME NEW y \in S, y < x PROVE FALSE
  <2>1. <<y, x>> \in Nat \X Nat /\ <<y, x>>[1] < <<y, x>>[2]
    BY Zenon, <1>3
  <2> QED BY <1>2, <2>1, Zenon
<1>4. \A y \in S : x <= y
  BY <1>3
<1> QED BY <1>4, Zenon DEF Lowest

\* and a greatest one if it is bounded.
LEMMA HighestIn ==
  ASSUME NEW n \in Nat, NEW S \in SUBSET (1 .. n), S # {}
  PROVE  Highest(S) \in S
<1> DEFINE T == {n - y : y \in S}
<1>0. \A y \in S : y \in Nat /\ n - y \in Nat
  OBVIOUS
<1>1. T \in SUBSET Nat /\ T # {}
  BY <1>0, Zenon
<1>2. PICK m \in T : \A y \in T : m <= y
  <2> HIDE DEF T
  <2> QED BY <1>1, LowestIn, Zenon
<1>3. PICK x \in S : m = n - x
  BY Zenon
<1>4. \A y \in S : x >= y
  <2>1. \A y \in S : n - x <= n - y
    BY <1>2, <1>3, Zenon
  <2> QED BY <1>0, <2>1
<1> QED BY <1>4, Zenon DEF Highest

\* alloc3_desc() finds three different free descriptors when there are
\* three, and otherwise some descriptor is in use.
LEMMA ThreeDescs == DescsFound
<1> DEFINE F == FreeDescs
           i0 == Lowest(F)
           i1 == Lowest(F \ {i0})
           i2 == Lowest(F \ {i0, i1})
<1>1. /\ IsFiniteSet(Desc) /\ Cardinality(Desc) = NUM
      /\ Desc \in SUBSET Nat /\ F \subseteq Desc
  BY DescsCounted DEF Desc, FreeDescs
<1>2. /\ IsFiniteSet(F) /\ F \in SUBSET Nat /\ Cardinality(F) \in Nat
      /\ Cardinality({}) = 0
  BY <1>1, FS_Subset, FS_CardinalityType, FS_EmptySet, Zenon
<1>3. ASSUME Cardinality(F) < 3 PROVE \E i \in Desc : ~free[i]
  <2>1. Cardinality(F) # Cardinality(Desc)
    BY <1>1, <1>2, <1>3, DiskAssumption
  <2> QED BY <2>1, Zenon DEF FreeDescs
<1>4. ASSUME Cardinality(F) >= 3
      PROVE  {i0, i1, i2} \subseteq F /\ i0 # i1 /\ i1 # i2 /\ i0 # i2
  <2> HIDE DEF F
  <2>1. i0 \in F
    <3>1. Cardinality(F) # Cardinality({})
      BY <1>2, <1>4
    <3> QED BY <1>2, <3>1, LowestIn, Zenon
  <2> HIDE DEF i0
  <2>2. IsFiniteSet(F \ {i0}) /\ Cardinality(F \ {i0}) = Cardinality(F) - 1
    BY <1>2, <2>1, FS_RemoveElement, Zenon
  <2>3. i1 \in F \ {i0}
    <3>1. Cardinality(F \ {i0}) # Cardinality({})
      BY <1>2, <1>4, <2>2
    <3> QED BY <1>2, <3>1, LowestIn, Zenon
  <2> HIDE DEF i1
  <2>4. Cardinality((F \ {i0}) \ {i1}) = Cardinality(F \ {i0}) - 1
    BY <2>2, <2>3, FS_RemoveElement, Zenon
  <2>5. i2 \in F \ {i0, i1}
    <3>1. Cardinality((F \ {i0}) \ {i1}) # Cardinality({})
      BY <1>2, <1>4, <2>2, <2>4
    <3>2. (F \ {i0}) \ {i1} = F \ {i0, i1}
      BY Zenon
    <3> QED BY <1>2, <3>1, <3>2, LowestIn, Zenon
  <2> QED BY <2>1, <2>3, <2>5, Zenon
<1> QED BY <1>3, <1>4, Zenon DEF DescsFound

\* bget() scans a list that holds every buffer: it finds what there is.
LEMMA ListPicks ==
  ASSUME CacheTypes
  PROVE  BuffersFound
<1> SUFFICES ASSUME NEW S \in SUBSET Buf, S # {}
             PROVE  First(S) \in S /\ Oldest(S) \in S
  BY Zenon DEF BuffersFound
<1> DEFINE I == {i \in Buf : lru[i] \in S}
<1>1. I # {}
  <2>1. PICK b \in S : TRUE
    BY Zenon
  <2>2. PICK i \in Buf : lru[i] = b
    BY Zenon DEF CacheTypes
  <2> QED BY Zenon, <2>2
<1>2. I \in SUBSET Nat /\ I \in SUBSET (1 .. NBUF) /\ NBUF \in Nat
  BY DiskAssumption DEF Buf
<1>3. Lowest(I) \in I /\ Highest(I) \in I
  <2> HIDE DEF I
  <2> QED BY <1>1, <1>2, LowestIn, HighestIn, Zenon
<1> QED BY <1>3, Zenon DEF First, Oldest

-----------------------------------------------------------------------------
(* The theorems. *)

\* virtio_disk_init() and binit().
LEMMA DiskStart == Init => DiskInv
<1> SUFFICES ASSUME Init PROVE DiskInv
  BY Zenon
<1>1. 0 \in Desc /\ 0 \in RingIndex
  BY DiskAssumption DEF Desc, RingIndex
<1>2. DiskTypes
  <2>1. NoDesc \in Descriptor
    BY Zenon, <1>1 DEF NoDesc, Descriptor, NoOp, Op
  <2>2. NoRequest \in Rw
    BY Zenon, <1>1 DEF NoRequest, Rw
  <2> QED BY Zenon, <1>1, <2>1, <2>2 DEF Init, DiskInit, DiskTypes, Info, Ring
<1>3. CacheTypes
  <2>1. lru \in [Buf -> Buf] /\ \A b \in Buf : \E i \in Buf : lru[i] = b
    <3>1. \A b \in Buf : NBUF + 1 - b \in Buf /\ NBUF + 1 - (NBUF + 1 - b) = b
      BY DiskAssumption DEF Buf
    <3> QED BY Zenon, <3>1 DEF Init
  <2> QED BY Zenon, <2>1 DEF Init, CacheTypes
<1>4. Requests = {} /\ \A p \in Proc : rw[p] = NoRequest /\ NoRequest.at = "none"
  BY Zenon DEF Requests, Init, DiskInit, NoRequest
<1>5. Locking
  BY Zenon, <1>4, CacheAssumption DEF Init, Locking, NoBuf, Buf
<1>6. /\ Announced = {} /\ Unseen = {} /\ device.work = {}
      /\ DistinctEntries(avail.ring, device.seen, avail.idx)
      /\ DistinctEntries(used.ring, used_idx, used.idx)
  <2>1. /\ device.seen = 0 /\ avail.idx = 0 /\ used_idx = 0 /\ used.idx = 0
        /\ device.work = {}
    BY Zenon DEF Init, DiskInit
  <2>2. \A ring : Entries(ring, 0, 0) = {} /\ DistinctEntries(ring, 0, 0)
    BY Zenon, <1>1, NoEntries
  <2> QED BY <2>1, <2>2, Zenon DEF Announced, Unseen
<1>7. Chained
  BY Zenon, <1>4 DEF Chained, Init, DiskInit
<1>8. Rings /\ Flights /\ Formatted
  BY Zenon, <1>4, <1>6 DEF Rings, Flights, Formatted, InFlight
<1>9. Waking
  BY Zenon, <1>4 DEF Waking, Init, DiskInit
<1> QED BY Zenon, <1>2, <1>3, <1>5, <1>7, <1>8, <1>9 DEF DiskInv

\* Every step keeps the invariant.
LEMMA DiskStep == DiskInv /\ [Next]_vars => DiskInv'
<1> SUFFICES ASSUME DiskInv, [Next]_vars PROVE DiskInv'
  BY Zenon
<1>0. RingRoom /\ DescsFound /\ BuffersFound
  BY RingHasRoom, ThreeDescs, ListPicks, Zenon DEF DiskInv
<1>1. ASSUME NEW p \in Proc,
             \/ Bget(p) \/ Bread(p) \/ Bwrite(p) \/ LogWrite(p) \/ RwDone(p)
             \/ ReleaseSleep(p) \/ Drop(p)
      PROVE  DiskInv'
  BY <1>0, <1>1, CacheInv, ReadWriteInv, RwDoneInv, Zenon
<1>2. CASE Driver
  <2>1. UNCHANGED <<bno, lru, lock, pc, cur>>
    BY Zenon, <1>2 DEF Driver, cacheVars, threadVars
  <2> QED BY <1>0, <1>2, <2>1, NoDescsInv, SubmitInv, SleepAgainInv,
             IntrEndsInv,
             IntrEntryInv, Zenon DEF Driver
<1>3. CASE Device /\ UNCHANGED <<cacheVars, threadVars>>
  <2>1. UNCHANGED <<lru, lock, pc, cur>>
    BY Zenon, <1>3 DEF cacheVars, threadVars
  <2> QED BY <1>0, <1>3, <2>1, DeviceTakeInv, DeviceDoneInv, Zenon DEF Device
<1>4. CASE UNCHANGED vars
  <2>1. UNCHANGED diskVars /\ UNCHANGED <<bno, lru, lock, pc, cur, rw>>
    BY Zenon, <1>4 DEF vars, diskVars, cacheVars, threadVars
  <2>2. CacheTypes' /\ Locking'
    BY <2>1 DEF DiskInv, CacheTypes, Locking
  <2> QED BY Zenon, <2>1, <2>2, KeptDisk
<1> QED BY <1>1, <1>2, <1>3, <1>4, Zenon DEF Next

\* The inductive invariant holds throughout.
THEOREM DiskSafe == Spec => []DiskInv
<1> QED BY DiskStart, DiskStep, PTL DEF Spec

\* Completions reach the request they belong to: no descriptor is lost,
\* freed twice or shared (free_desc() never panics), what the handler finds
\* on the used ring is a request that still waits, with its own buffer and a
\* good status, and a request that is told it has finished has left the
\* device.  For any number of threads, buffers and descriptors, and across
\* the wrap of the ring indices.
THEOREM CompletionsMatched == Spec => []CompletionsMatch
<1>1. ASSUME DiskInv PROVE CompletionsMatch
  <2>1. {l \in Desc : ~free[l]} = UNION {ChainOf(p) : p \in Requests}
    <3>1. \A l \in Desc : ~free[l] => \E p \in Requests : l \in ChainOf(p)
      BY <1>1, Zenon DEF DiskInv, Chained
    <3>2. \A p \in Requests : \A l \in ChainOf(p) : l \in Desc /\ ~free[l]
      BY <1>1, ChainShape
    <3> QED BY Zenon, <3>1, <3>2
  <2>2. ASSUME NEW p \in Requests PROVE Cardinality(ChainOf(p)) = 3
    <3>1. PICK i, j, k \in Desc : ChainOf(p) = {i, j, k} /\ i # j /\ j # k /\ i # k
      BY <1>1, ChainShape
    <3>2. IsFiniteSet({i}) /\ Cardinality({i}) = 1
      BY FS_Singleton, Zenon
    <3>3. IsFiniteSet({i} \cup {j}) /\ Cardinality({i} \cup {j}) = 2
      <4>1. j \notin {i}
        BY Zenon, <3>1
      <4>2. /\ IsFiniteSet({i} \cup {j})
            /\ Cardinality({i} \cup {j}) = IF j \in {i} THEN Cardinality({i})
                                           ELSE Cardinality({i}) + 1
        BY <3>2, FS_AddElement, Zenon
      <4> QED BY <3>2, <4>1, <4>2
    <3>4. Cardinality(({i} \cup {j}) \cup {k}) = 3
      BY <3>1, <3>3, FS_AddElement
    <3>5. ({i} \cup {j}) \cup {k} = {i, j, k}
      BY Zenon
    <3> QED BY <3>1, <3>4, <3>5, Zenon
  <2>3. \A p, q \in Requests : p # q => ChainOf(p) \cap ChainOf(q) = {}
    BY <1>1, Zenon DEF DiskInv, Chained
  <2>4. \A i \in Unseen : \E p \in Requests :
          /\ rw[p].idx = i /\ busy[rw[p].buf]
          /\ info[i] = [b |-> rw[p].buf, status |-> 0]
    <3>1. ASSUME NEW i \in Unseen
          PROVE  \E p \in Requests :
                   /\ rw[p].idx = i /\ busy[rw[p].buf]
                   /\ info[i] = [b |-> rw[p].buf, status |-> 0]
      <4>1. PICK p \in Requests : rw[p].idx = i /\ busy[rw[p].buf] /\ i \in Desc
        BY <1>1, FlightOf, Zenon DEF InFlight
      <4>2. info[i].b = rw[p].buf /\ info[i].status = 0 /\ info[i] \in Info
        BY Zenon, <1>1, <4>1 DEF DiskInv, Formatted, DiskTypes
      <4>3. info[i] = [b |-> rw[p].buf, status |-> 0]
        BY Zenon, <4>2 DEF Info
      <4> QED BY Zenon, <4>1, <4>3
    <3> QED BY Zenon, <3>1
  <2>5. ASSUME NEW p \in Requests, ~busy[rw[p].buf]
        PROVE  rw[p].idx \notin device.work \cup Unseen
    BY Zenon, <1>1, <2>5, FlightOf DEF InFlight
  <2> QED BY Zenon, <2>1, <2>2, <2>3, <2>4, <2>5
      DEF CompletionsMatch, ChainsOwned
<1> QED BY <1>1, DiskSafe, PTL

\* No sleeping request is forgotten: one that waits for its transfer is with
\* the device, or on the used ring with an interrupt pending or a handler at
\* work; one that waits for descriptors waits for a request in progress.
THEOREM RequestsWoken == Spec => []SleepersWillWake
<1>1. ASSUME DiskInv PROVE SleepersWillWake
  <2> SUFFICES ASSUME NEW p \in Proc
               PROVE  /\ rw[p].at = "asleep" =>
                           \/ rw[p].idx \in Announced \cup device.work
                           \/ rw[p].idx \in Unseen /\ (device.intr \/ handling)
                      /\ rw[p].at = "no_desc" => Requests # {}
    BY Zenon DEF SleepersWillWake
  <2>1. ASSUME rw[p].at = "asleep" PROVE p \in Requests /\ rw[p].idx \in InFlight
    BY Zenon, <1>1, <2>1 DEF Requests, DiskInv, Flights, Waking
  <2>2. Unseen # {} => device.intr \/ handling
    <3>1. used.idx \in RingIndex /\ used_idx \in RingIndex
      BY Zenon, <1>1 DEF DiskInv, DiskTypes, Ring
    <3> QED BY <1>1, <3>1, NoEntries, Zenon DEF Unseen, DiskInv, Waking
  <2> QED BY Zenon, <1>1, <2>1, <2>2 DEF DiskInv, Waking, InFlight
<1> QED BY <1>1, DiskSafe, PTL
=============================================================================
