---------------------------- MODULE CacheProofs -----------------------------
(***************************************************************************)
(* The proof that the buffer cache implements the block store: whatever    *)
(* the order in which threads, interrupts and the device act, every block  *)
(* has one contents, which only its holder changes.                        *)
(***************************************************************************)
EXTENDS DiskProofs, CacheRefinement

-----------------------------------------------------------------------------
(* The inductive invariant. *)

StoreTypes ==
  /\ valid \in [Buf -> BOOLEAN] /\ refcnt \in [Buf -> Int]
  /\ data \in [Buf -> Val] /\ disk \in [BlockNo -> Val]

\* A block has at most one buffer; threads and the log refer to buffers
\* that have a block.
OneBuffer ==
  /\ \A b, c \in Buf : bno[b] = bno[c] /\ bno[b] # NoBlock => b = c
  /\ \A p \in Proc : cur[p] # NoBuf => bno[cur[p]] # NoBlock
  /\ \A n \in logged : n # NoBlock /\ \E b \in Buf : bno[b] = n

\* refcnt counts the threads that refer to the buffer, and the log.
Users(b) == {p \in Proc : cur[p] = b}
Pins(b) == IF bno[b] \in logged THEN 1 ELSE 0
Counted ==
  \A b \in Buf : /\ IsFiniteSet(Users(b))
                 /\ refcnt[b] = Cardinality(Users(b)) + Pins(b)

\* A thread looks at and writes valid buffers, and reads into invalid ones.
Validity ==
  /\ \A p \in Proc : /\ pc[p] \in {"have", "writing"} => valid[cur[p]]
                     /\ pc[p] = "reading" => ~valid[cur[p]]
  /\ \A b \in Buf : valid[b] => bno[b] # NoBlock

\* Only bwrite() writes.
Directed ==
  \A p \in Proc : rw[p].at # "none" => (rw[p].write <=> pc[p] = "writing")

\* The device is asked to do what the thread waits for, and has done it when
\* the request is no longer with it.
CarriedOut(p) ==
  /\ desc[rw[p].idx].op = [write |-> rw[p].write, sector |-> bno[rw[p].buf]]
  /\ desc[desc[rw[p].idx].next].addr = rw[p].buf
  /\ rw[p].idx \notin Announced \cup device.work =>
       data[cur[p]] = disk[bno[cur[p]]]

\* A valid buffer differs from the disk only while the log or a write that
\* is under way takes care of it.
Writing(b) == \E p \in Proc : pc[p] = "writing" /\ cur[p] = b
Clean ==
  \A b \in Buf : valid[b] /\ bno[b] \notin logged /\ ~Writing(b) =>
    data[b] = disk[bno[b]]

StoreInv ==
  /\ StoreTypes /\ OneBuffer /\ Counted /\ Validity /\ Directed /\ Clean
  /\ \A p \in Requests : CarriedOut(p)

-----------------------------------------------------------------------------
(* Steps of the driver. *)

\* Threads that have locked their buffer.
Holders == {p \in Proc : pc[p] \in {"reading", "writing", "have"}}

\* Buffers that threads refer to have a block, and two threads that hold
\* locks hold them on different buffers.
LEMMA ThreadBuffer ==
  ASSUME DiskInv, StoreInv
  PROVE  /\ \A c \in Buf : bno[c] # NoBlock => bno[c] \in BlockNo
         /\ \A p \in Proc : pc[p] # "idle" =>
              /\ cur[p] \in Buf /\ cur[p] # NoBuf
              /\ bno[cur[p]] \in BlockNo /\ bno[cur[p]] # NoBlock
         /\ \A p, q \in Holders : cur[p] = cur[q] => p = q
<1>1. \A c \in Buf : bno[c] # NoBlock => bno[c] \in BlockNo
  BY Zenon DEF DiskInv, CacheTypes
<1>2. \A p \in Proc : pc[p] # "idle" => cur[p] \in Buf /\ cur[p] # NoBuf
  BY RequestBuffer, Zenon
<1>3. \A p \in Proc : cur[p] # NoBuf => bno[cur[p]] # NoBlock
  BY Zenon DEF StoreInv, OneBuffer
<1>4. \A p \in Proc : pc[p] \in {"reading", "writing", "have"} =>
        lock[cur[p]] = p
  <2>1. \A p \in Proc, b \in Buf :
          lock[b] = p <=> pc[p] \in {"reading", "writing", "have"} /\ cur[p] = b
    BY Zenon DEF DiskInv, Locking
  <2>2. \A p \in Proc : pc[p] \in {"reading", "writing", "have"} => cur[p] \in Buf
    BY <1>2, Zenon
  <2> QED BY <2>1, <2>2, Zenon
<1>5. \A p, q \in Holders : cur[p] = cur[q] => p = q
  BY <1>4, Zenon DEF Holders
<1>6. \A p \in Proc : pc[p] # "idle" => /\ bno[cur[p]] \in BlockNo
                                       /\ bno[cur[p]] # NoBlock
  BY <1>1, <1>2, <1>3, Zenon
<1> QED BY <1>1, <1>2, <1>5, <1>6, Zenon

\* A request stays what it was as long as nobody touches its descriptors,
\* its buffer and its block.
SameRequest(q) ==
  /\ rw'[q].idx = rw[q].idx /\ rw'[q].buf = rw[q].buf
  /\ rw'[q].write = rw[q].write /\ cur'[q] = cur[q]
  /\ \A l \in ChainOf(q) : desc'[l] = desc[l]
  /\ bno'[cur[q]] = bno[cur[q]] /\ data'[cur[q]] = data[cur[q]]
  /\ disk'[bno[cur[q]]] = disk[bno[cur[q]]]
  /\ rw[q].idx \in Announced \cup device.work =>
       rw[q].idx \in Announced' \cup device'.work

LEMMA CarriedOn ==
  ASSUME DiskInv, NEW q \in Requests, CarriedOut(q), SameRequest(q)
  PROVE  CarriedOut(q)'
<1>1. PICK i, j, k \in Desc :
        i = rw[q].idx /\ j = desc[i].next /\ ChainOf(q) = {i, j, k}
  BY ChainShape
<1>2. desc'[i] = desc[i] /\ desc'[j] = desc[j] /\ rw'[q].idx = i
  BY <1>1, Zenon DEF SameRequest
<1>3. rw[q].buf = cur[q]
  BY RequestBuffer, Zenon
<1> QED BY <1>1, <1>2, <1>3, Zenon DEF CarriedOut, SameRequest

\* What the driver does in between leaves the requests as they are.
LEMMA DriverWaits ==
  ASSUME DiskInv, NEW p,
         \/ p \in Proc /\ (NoDescs(p) \/ SleepAgain(p))
         \/ IntrAck \/ IntrEntry \/ IntrDone
  PROVE  /\ UNCHANGED <<free, desc, avail, disk>> /\ Requests' = Requests
         /\ device'.seen = device.seen /\ device'.work = device.work
         /\ \A q \in Proc :
              /\ rw'[q].idx = rw[q].idx /\ rw'[q].buf = rw[q].buf
              /\ rw'[q].write = rw[q].write
              /\ rw'[q].at = "none" <=> rw[q].at = "none"
<1>1. rw \in [Proc -> Rw]
  BY Zenon DEF DiskInv, DiskTypes
<1>2. UNCHANGED <<free, desc, avail, disk>>
  BY Zenon DEF NoDescs, SleepAgain, IntrAck, IntrEntry, IntrDone, queueVars
<1>3. device'.seen = device.seen /\ device'.work = device.work
  <2>1. device' = device \/ device' = [device EXCEPT !.intr = FALSE]
    BY Zenon DEF NoDescs, SleepAgain, IntrAck, IntrEntry, IntrDone
  <2> QED BY <2>1, Zenon DEF DiskInv, DiskTypes
<1>4. \A q \in Proc :
        \/ rw'[q] = rw[q]
        \/ \E at \in {"try", "no_desc"} : /\ rw[q].at \in {"try", "no_desc"}
                                          /\ rw'[q] = [rw[q] EXCEPT !.at = at]
        \/ \E at \in {"asleep", "awake"} : /\ rw[q].at \in {"asleep", "awake"}
                                           /\ rw'[q] = [rw[q] EXCEPT !.at = at]
  <2>1. CASE p \in Proc /\ NoDescs(p)
    <3>1. \A q \in Proc : q # p => [rw EXCEPT ![p].at = "no_desc"][q] = rw[q]
      BY <1>1, Zenon
    <3>2. /\ [rw EXCEPT ![p].at = "no_desc"][p] = [rw[p] EXCEPT !.at = "no_desc"]
          /\ rw[p].at = "try"
      BY <1>1, <2>1, Zenon DEF NoDescs, At
    <3> DEFINE r == [rw EXCEPT ![p].at = "no_desc"]
    <3>3. rw' = r \/ rw' = WakeFree(p, r)
      BY <2>1, Zenon DEF NoDescs
    <3> HIDE DEF r
    <3>4. \A q \in Proc : WakeFree(p, r)[q] = IF q # p /\ r[q].at = "no_desc"
                              THEN [r[q] EXCEPT !.at = "try"] ELSE r[q]
      BY Zenon DEF WakeFree
    <3> QED BY <3>1, <3>2, <3>3, <3>4, Zenon DEF r
  <2>2. CASE SleepAgain(p)
    <3>1. rw' = [rw EXCEPT ![p].at = "asleep"] /\ rw[p].at = "awake"
      BY <2>2, Zenon DEF SleepAgain, At
    <3> QED BY <1>1, <3>1, Zenon
  <2>3. CASE IntrAck \/ IntrDone
    BY <2>3, Zenon DEF IntrAck, IntrDone
  <2>4. CASE IntrEntry
    <3>1. PICK b : rw' = WakeBuf(b, rw)
      BY <2>4, Zenon DEF IntrEntry
    <3> QED BY <3>1, Zenon DEF WakeBuf
  <2> QED BY <2>1, <2>2, <2>3, <2>4, Zenon
<1>5. \A q \in Proc :
        /\ rw'[q].idx = rw[q].idx /\ rw'[q].buf = rw[q].buf
        /\ rw'[q].write = rw[q].write
        /\ rw'[q].at = "none" <=> rw[q].at = "none"
        /\ rw'[q].at \in {"asleep", "awake"} <=> rw[q].at \in {"asleep", "awake"}
  <2> SUFFICES ASSUME NEW q \in Proc
               PROVE  /\ rw'[q].idx = rw[q].idx /\ rw'[q].buf = rw[q].buf
                      /\ rw'[q].write = rw[q].write
                      /\ rw'[q].at = "none" <=> rw[q].at = "none"
                      /\ rw'[q].at \in {"asleep", "awake"}
                           <=> rw[q].at \in {"asleep", "awake"}
    BY Zenon
  <2>1. \A at : /\ [rw[q] EXCEPT !.at = at].idx = rw[q].idx
                /\ [rw[q] EXCEPT !.at = at].buf = rw[q].buf
                /\ [rw[q] EXCEPT !.at = at].write = rw[q].write
                /\ [rw[q] EXCEPT !.at = at].at = at
    BY <1>1, Zenon DEF Rw
  <2>2. CASE rw'[q] = rw[q]
    BY <2>2, Zenon
  <2>3. CASE \E at \in {"try", "no_desc"} : /\ rw[q].at \in {"try", "no_desc"}
                                          /\ rw'[q] = [rw[q] EXCEPT !.at = at]
    BY <2>1, <2>3, Zenon
  <2>4. CASE \E at \in {"asleep", "awake"} : /\ rw[q].at \in {"asleep", "awake"}
                                           /\ rw'[q] = [rw[q] EXCEPT !.at = at]
    BY <2>1, <2>4, Zenon
  <2> QED BY <1>4, <2>2, <2>3, <2>4, Zenon
<1>6. Requests' = Requests
  BY <1>5, Zenon DEF Requests
<1> QED BY <1>2, <1>3, <1>5, <1>6, Zenon

\* A step that leaves the cache and the disk alone.
LEMMA CacheKept ==
  ASSUME StoreInv,
         UNCHANGED <<bno, data, disk, valid, refcnt, logged, pc, cur>>
  PROVE  StoreTypes' /\ OneBuffer' /\ Counted' /\ Validity' /\ Clean'
<1>1. StoreTypes' /\ OneBuffer' /\ Validity'
  BY Zenon DEF StoreInv, StoreTypes, OneBuffer, Validity
<1>2. Counted'
  BY Zenon DEF StoreInv, Counted, Users, Pins
<1>3. Clean'
  BY Zenon DEF StoreInv, Clean, Writing
<1> QED BY <1>1, <1>2, <1>3, Zenon

\* Waiting, waking and the handler.
LEMMA WaitingStore ==
  ASSUME DiskInv, StoreInv, NEW p,
         \/ p \in Proc /\ (NoDescs(p) \/ SleepAgain(p))
         \/ IntrAck \/ IntrEntry \/ IntrDone,
         UNCHANGED <<bno, data, valid, refcnt, logged, pc, cur>>
  PROVE  StoreInv'
<1>1. /\ UNCHANGED <<free, desc, avail, disk>> /\ Requests' = Requests
      /\ device'.seen = device.seen /\ device'.work = device.work
      /\ \A q \in Proc :
           /\ rw'[q].idx = rw[q].idx /\ rw'[q].buf = rw[q].buf
           /\ rw'[q].write = rw[q].write
           /\ rw'[q].at = "none" <=> rw[q].at = "none"
  BY DriverWaits, Zenon
<1>2. StoreTypes' /\ OneBuffer' /\ Counted' /\ Validity' /\ Clean'
  BY <1>1, CacheKept, Zenon
<1>3. Directed'
  BY <1>1, Zenon DEF StoreInv, Directed
<1>4. Announced' = Announced
  BY <1>1, Zenon DEF Announced, Entries, Ahead
<1>5. \A q \in Requests : SameRequest(q)
  BY <1>1, <1>4, Zenon DEF SameRequest, Requests
<1>6. \A q \in Requests' : CarriedOut(q)'
  BY <1>1, <1>5, CarriedOn, Zenon DEF StoreInv
<1> QED BY <1>2, <1>3, <1>6, Zenon DEF StoreInv

\* The device takes a request: it is still with the device.
LEMMA TakeStore ==
  ASSUME DiskInv, StoreInv, DeviceTake,
         UNCHANGED <<valid, refcnt, logged, pc, cur>>
  PROVE  StoreInv'
<1>1. PICK i : Taken(i)
  BY TakeShape, Zenon
<1>2. UNCHANGED <<desc, rw, bno, data, disk>>
  BY <1>1, Zenon DEF Taken, queueVars
<1>3. /\ Announced' \cup device'.work = Announced \cup device.work
      /\ Requests' = Requests
  BY <1>1, <1>2, Zenon DEF Taken, Requests
<1>4. StoreTypes' /\ OneBuffer' /\ Counted' /\ Validity' /\ Clean'
  BY <1>2, CacheKept, Zenon
<1>5. Directed'
  BY <1>2, Zenon DEF StoreInv, Directed
<1>6. \A q \in Requests : SameRequest(q)
  BY <1>2, <1>3, Zenon DEF SameRequest
<1>7. \A q \in Requests' : CarriedOut(q)'
  BY <1>3, <1>6, CarriedOn, Zenon DEF StoreInv
<1> QED BY <1>4, <1>5, <1>7, Zenon DEF StoreInv

\* A request is announced as the thread asks for it.
LEMMA SubmitStore ==
  ASSUME DiskInv, RingRoom, DescsFound, StoreInv, NEW p \in Proc, Submit(p),
         UNCHANGED <<bno, data, valid, refcnt, logged, pc, cur>>
  PROVE  StoreInv'
<1>1. PICK i, j, k \in Desc : Submitted(p, i, j, k)
  BY SubmitShape, Zenon
<1>2. UNCHANGED <<disk, device>>
  BY Zenon DEF Submit
<1>3. StoreTypes' /\ OneBuffer' /\ Counted' /\ Validity' /\ Clean'
  BY <1>2, CacheKept, Zenon
<1>4. /\ rw'[p].buf = rw[p].buf /\ rw'[p].write = rw[p].write
      /\ \A q \in Proc : q # p => rw'[q] = rw[q]
      /\ rw[p].at = "try" /\ rw'[p].idx = i /\ Requests' = Requests \cup {p}
      /\ Announced' = Announced \cup {i}
      /\ desc'[i].op = [write |-> rw[p].write, sector |-> bno[rw[p].buf]]
      /\ desc'[i].next = j /\ desc'[j].addr = rw[p].buf
  BY <1>1, Zenon DEF Submitted, NewChain
<1>5. Directed'
  BY <1>4, Zenon DEF StoreInv, Directed
<1>6. CarriedOut(p)'
  BY <1>4, Zenon DEF CarriedOut
<1>7. \A q \in Requests : SameRequest(q)
  <2> SUFFICES ASSUME NEW q \in Requests PROVE SameRequest(q)
    BY Zenon
  <2>1. rw'[q] = rw[q]
    BY <1>1, Zenon DEF Submitted, NewChain
  <2>2. \A l \in ChainOf(q) : desc'[l] = desc[l]
    <3>1. \A l \in ChainOf(q) : l \in Desc /\ ~free[l]
      BY ChainShape
    <3>2. /\ free[i] /\ free[j] /\ free[k]
          /\ \A l \in Desc : l \notin {i, j, k} => desc'[l] = desc[l]
      BY <1>1, Zenon DEF Submitted, NewChain
    <3> QED BY <3>1, <3>2, Zenon
  <2> QED BY <1>2, <1>4, <2>1, <2>2, Zenon DEF SameRequest
<1>8. \A q \in Requests' : CarriedOut(q)'
  BY <1>4, <1>6, <1>7, CarriedOn, Zenon DEF StoreInv
<1> QED BY <1>3, <1>5, <1>8, Zenon DEF StoreInv

\* What the device does for the request p with buffer b and block n.
Transferred(i, p, b, n) ==
  /\ rw[p].idx = i /\ \A q \in Requests : rw[q].idx = i => q = p
  /\ b = cur[p] /\ b = rw[p].buf /\ lock[b] = p
  /\ p \in Proc /\ rw[p].at # "none"
  /\ n = bno[b] /\ n # NoBlock
  /\ UNCHANGED <<desc, avail, rw, bno>>
  /\ device' = [device EXCEPT !.work = @ \ {i}, !.intr = TRUE]
  /\ IF rw[p].write
     THEN disk' = [disk EXCEPT ![n] = data[b]] /\ data' = data
     ELSE data' = [data EXCEPT ![b] = disk[n]] /\ disk' = disk

LEMMA DoneShape ==
  ASSUME DiskInv, StoreInv, NEW i \in Desc, DeviceDone(i)
  PROVE  \E p \in Requests, b \in Buf, n \in BlockNo : Transferred(i, p, b, n)
<1>1. PICK p \in Requests : /\ rw[p].idx = i
                            /\ \A q \in Requests : rw[q].idx = i => q = p
  <2>1. i \in InFlight
    BY Zenon DEF DeviceDone, InFlight
  <2> QED BY <2>1, FlightOf, Zenon
<1>2. PICK b \in Buf : /\ b = cur[p] /\ b = rw[p].buf /\ lock[b] = p
                       /\ p \in Proc /\ rw[p].at # "none"
  BY RequestBuffer, Zenon
<1>3. PICK n \in BlockNo : n = bno[b] /\ n # NoBlock
  <2>1. pc[p] # "idle"
    BY <1>2, RequestBuffer, Zenon DEF DiskInv, Locking
  <2> QED BY <1>2, <2>1, ThreadBuffer, Zenon
<1>4. /\ desc[i].op.write = rw[p].write /\ desc[i].op.sector = n
      /\ desc[desc[i].next].addr = b
  <2>1. /\ desc[i].op = [write |-> rw[p].write, sector |-> n]
        /\ desc[desc[i].next].addr = b
    BY <1>1, <1>2, <1>3, Zenon DEF StoreInv, CarriedOut
  <2> QED BY <2>1
<1>5. /\ UNCHANGED <<desc, avail, rw, bno>>
      /\ device' = [device EXCEPT !.work = @ \ {i}, !.intr = TRUE]
      /\ IF rw[p].write
         THEN disk' = [disk EXCEPT ![n] = data[b]] /\ data' = data
         ELSE data' = [data EXCEPT ![b] = disk[n]] /\ disk' = disk
  BY <1>4, Zenon DEF DeviceDone
<1>6. Transferred(i, p, b, n)
  BY <1>1, <1>2, <1>3, <1>5, Zenon DEF Transferred
<1> QED BY <1>6, Zenon

\* The device completes a request: what it transfers is what the thread
\* waits for, and no other buffer and no other block change.
LEMMA DoneStore ==
  ASSUME DiskInv, StoreInv, NEW i \in Desc, DeviceDone(i),
         UNCHANGED <<valid, refcnt, logged, pc, cur>>
  PROVE  StoreInv'
<1>0. PICK p \in Requests, b \in Buf, n \in BlockNo : Transferred(i, p, b, n)
  BY DoneShape, Zenon
<1>1. rw[p].idx = i /\ \A q \in Requests : rw[q].idx = i => q = p
  BY <1>0, Zenon DEF Transferred
<1>2. /\ b = cur[p] /\ b = rw[p].buf /\ lock[b] = p
      /\ p \in Proc /\ rw[p].at # "none"
  BY <1>0, Zenon DEF Transferred
<1>3. n = bno[b] /\ n # NoBlock
  BY <1>0, Zenon DEF Transferred
<1>5. /\ UNCHANGED <<desc, avail, rw, bno>>
      /\ device' = [device EXCEPT !.work = @ \ {i}, !.intr = TRUE]
      /\ IF rw[p].write
         THEN disk' = [disk EXCEPT ![n] = data[b]] /\ data' = data
         ELSE data' = [data EXCEPT ![b] = disk[n]] /\ disk' = disk
  BY <1>0, Zenon DEF Transferred
<1>6. /\ device'.seen = device.seen /\ device'.work = device.work \ {i}
      /\ Requests' = Requests /\ Announced' = Announced
  <2>1. device'.seen = device.seen /\ device'.work = device.work \ {i}
    BY <1>5, Zenon DEF DiskInv, DiskTypes
  <2> QED BY <1>5, <2>1, ZenonT(30) DEF Requests, Announced, Entries, Ahead
<1>7. data \in [Buf -> Val] /\ disk \in [BlockNo -> Val]
  BY Zenon DEF StoreInv, StoreTypes
<1>8. /\ data' \in [Buf -> Val] /\ disk' \in [BlockNo -> Val]
      /\ data'[b] = disk'[n]
      /\ \A c \in Buf : c # b => data'[c] = data[c]
      /\ \A m \in BlockNo : m # n => disk'[m] = disk[m]
  <2>1. CASE rw[p].write
    BY <1>5, <1>7, <2>1, Zenon
  <2>2. CASE ~rw[p].write
    BY <1>5, <1>7, <2>2, Zenon
  <2> QED BY <2>1, <2>2, Zenon
<1>9. StoreTypes' /\ OneBuffer' /\ Validity' /\ Directed' /\ Counted'
  <2>1. StoreTypes'
    BY <1>8, Zenon DEF StoreInv, StoreTypes
  <2>2. OneBuffer' /\ Validity' /\ Directed'
    BY <1>5, Zenon DEF StoreInv, OneBuffer, Validity, Directed
  <2> QED BY <1>5, <2>1, <2>2, Zenon DEF StoreInv, Counted, Users, Pins
<1>10. \A c \in Buf : bno[c] # NoBlock => bno[c] \in BlockNo
  BY Zenon DEF DiskInv, CacheTypes
<1>11. \A c \in Buf : c # b /\ bno[c] # NoBlock =>
         data'[c] = data[c] /\ disk'[bno[c]] = disk[bno[c]]
  <2>1. \A c \in Buf : c # b /\ bno[c] # NoBlock => bno[c] # n
    BY <1>3, Zenon DEF StoreInv, OneBuffer
  <2> QED BY <1>8, <1>10, <2>1, Zenon
<1>12. Clean'
  <2> SUFFICES ASSUME NEW c \in Buf, valid[c], bno[c] \notin logged, ~Writing(c)
               PROVE  data'[c] = disk'[bno[c]]
    BY <1>5, Zenon DEF Clean, Writing
  <2>1. data[c] = disk[bno[c]] /\ bno[c] # NoBlock
    BY Zenon DEF StoreInv, Clean, Validity
  <2>2. CASE c # b
    BY <1>11, <2>1, <2>2, Zenon
  <2>3. CASE c = b
    BY <1>3, <1>8, <2>3, Zenon
  <2> QED BY <2>2, <2>3, Zenon
<1>13. ASSUME NEW q \in Requests PROVE CarriedOut(q)'
  <2>1. CASE q = p
    <3>1. data'[cur'[p]] = disk'[bno'[cur'[p]]]
      BY <1>2, <1>3, <1>5, <1>8, Zenon
    <3> QED BY <1>5, <2>1, <3>1, Zenon DEF StoreInv, CarriedOut
  <2>2. CASE q # p
    <3>1. cur[q] \in Buf /\ cur[q] # b /\ cur[q] # NoBuf /\ q \in Proc
      BY <1>2, <2>2, RequestBuffer
    <3>2. bno[cur[q]] # NoBlock
      BY <3>1, Zenon DEF StoreInv, OneBuffer
    <3>3. /\ data'[cur[q]] = data[cur[q]]
          /\ disk'[bno[cur[q]]] = disk[bno[cur[q]]]
      BY <1>11, <3>1, <3>2, Zenon
    <3>4. rw[q].idx # i
      BY <1>1, <2>2, Zenon
    <3>5. SameRequest(q)
      BY <1>5, <1>6, <3>3, <3>4, Zenon DEF SameRequest
    <3> QED BY <3>5, CarriedOn, Zenon DEF StoreInv
  <2> QED BY <2>1, <2>2, Zenon
<1> QED BY <1>6, <1>9, <1>12, <1>13, Zenon DEF StoreInv

-----------------------------------------------------------------------------
(* Steps of the cache. *)

\* The requests of other threads go on.
LEMMA OthersGoOn ==
  ASSUME DiskInv, StoreInv, UNCHANGED <<desc, avail, disk, device>>,
         Requests' = Requests,
         \A q \in Requests : /\ rw'[q] = rw[q] /\ cur'[q] = cur[q]
                             /\ bno'[cur[q]] = bno[cur[q]]
                             /\ data'[cur[q]] = data[cur[q]]
  PROVE  \A q \in Requests' : CarriedOut(q)'
<1>1. Announced' = Announced
  BY Zenon DEF Announced, Entries, Ahead
<1>2. \A q \in Requests : SameRequest(q)
  BY <1>1, Zenon DEF SameRequest
<1> QED BY <1>2, CarriedOn, Zenon DEF StoreInv

\* A buffer with refcnt 0 has no users and is not pinned.
LEMMA UnusedFree ==
  ASSUME StoreInv, NEW b \in Buf, refcnt[b] = 0
  PROVE  bno[b] \notin logged /\ \A p \in Proc : cur[p] # b
<1>1. /\ IsFiniteSet(Users(b)) /\ refcnt[b] = Cardinality(Users(b)) + Pins(b)
      /\ Cardinality(Users(b)) \in Nat
  BY FS_CardinalityType, Zenon DEF StoreInv, Counted
<1>2. Pins(b) \in {0, 1}
  BY Zenon DEF Pins
<1>3. Pins(b) = 0 /\ Cardinality(Users(b)) = 0
  BY <1>1, <1>2
<1>4. Users(b) = {}
  BY <1>1, <1>3, FS_EmptySet, Zenon
<1>5. bno[b] \notin logged
  BY <1>3 DEF Pins
<1> QED BY <1>4, <1>5, Zenon DEF Users

\* bget() gives a thread a reference.
LEMMA UserJoins ==
  ASSUME DiskInv, StoreInv, NEW p \in Proc, NEW b \in Buf, cur[p] = NoBuf,
         cur' = [cur EXCEPT ![p] = b]
  PROVE  /\ \A c \in Buf : c # b => Users(c)' = Users(c)
         /\ Users(b)' = Users(b) \cup {p} /\ IsFiniteSet(Users(b)')
         /\ Cardinality(Users(b)') = Cardinality(Users(b)) + 1
<1>1. NoBuf \notin Buf /\ cur \in [Proc -> Buf \cup {NoBuf}]
  BY RequestBuffer, Zenon DEF DiskInv, CacheTypes
<1>2. \A q \in Proc : cur'[q] = IF q = p THEN b ELSE cur[q]
  BY <1>1, Zenon
<1>3. \A c \in Buf : c # b => Users(c)' = Users(c)
  BY <1>1, <1>2 DEF Users
<1>4. Users(b)' = Users(b) \cup {p} /\ p \notin Users(b)
  BY <1>1, <1>2 DEF Users
<1>5. IsFiniteSet(Users(b))
  BY Zenon DEF StoreInv, Counted
<1>6. /\ IsFiniteSet(Users(b) \cup {p})
      /\ Cardinality(Users(b) \cup {p}) = Cardinality(Users(b)) + 1
  BY <1>4, <1>5, FS_AddElement, Zenon
<1> QED BY <1>3, <1>4, <1>6, Zenon

\* brelse() takes it away.
LEMMA UserLeaves ==
  ASSUME DiskInv, StoreInv, NEW p \in Proc, NEW b \in Buf, cur[p] = b,
         cur' = [cur EXCEPT ![p] = NoBuf]
  PROVE  /\ \A c \in Buf : c # b => Users(c)' = Users(c)
         /\ IsFiniteSet(Users(b)')
         /\ Cardinality(Users(b)') = Cardinality(Users(b)) - 1
<1>1. NoBuf \notin Buf /\ cur \in [Proc -> Buf \cup {NoBuf}]
  BY RequestBuffer, Zenon DEF DiskInv, CacheTypes
<1>2. \A q \in Proc : cur'[q] = IF q = p THEN NoBuf ELSE cur[q]
  BY <1>1, Zenon
<1>3. \A c \in Buf : c # b => Users(c)' = Users(c)
  BY <1>1, <1>2 DEF Users
<1>4. Users(b)' = Users(b) \ {p} /\ p \in Users(b)
  BY <1>1, <1>2 DEF Users
<1>5. IsFiniteSet(Users(b))
  BY Zenon DEF StoreInv, Counted
<1>6. /\ IsFiniteSet(Users(b) \ {p})
      /\ Cardinality(Users(b) \ {p}) = Cardinality(Users(b)) - 1
  BY <1>4, <1>5, FS_RemoveElement, Zenon
<1> QED BY <1>3, <1>4, <1>6, Zenon

\* What bget() changes about threads.
LEMMA IdleJoins ==
  ASSUME DiskInv, NEW p \in Proc, NEW b, NEW n \in BlockNo, pc[p] = "idle",
         cur' = [cur EXCEPT ![p] = b], pc' = [pc EXCEPT ![p] = "lock"]
  PROVE  /\ cur[p] = NoBuf /\ p \notin Requests /\ n # NoBlock
         /\ \A q \in Proc : q # p => cur'[q] = cur[q] /\ pc'[q] = pc[q]
         /\ cur'[p] = b /\ pc'[p] = "lock"
<1>1. cur[p] = NoBuf /\ p \notin Requests
  BY Zenon DEF DiskInv, Locking, Requests
<1>2. n # NoBlock
  BY DiskAssumption, Zenon
<1>3. cur \in [Proc -> Buf \cup {NoBuf}] /\ DOMAIN pc = Proc
  BY Zenon DEF DiskInv, CacheTypes
<1> QED BY <1>1, <1>2, <1>3, Zenon

\* bget() finds the block in the cache.
LEMMA HitStore ==
  ASSUME DiskInv, BuffersFound, StoreInv, NEW p \in Proc, NEW n \in BlockNo,
         Hit(p, n), pc[p] = "idle",
         UNCHANGED <<diskVars, data, logged>>
  PROVE  StoreInv'
<1>1. PICK b \in Buf : b = First(Cached(n)) /\ bno[b] = n
  <2>1. Cached(n) \in SUBSET Buf /\ Cached(n) # {}
    BY Zenon DEF Hit, Cached
  <2>2. First(Cached(n)) \in Cached(n)
    BY <2>1, Zenon DEF BuffersFound
  <2> QED BY <2>2, Zenon DEF Cached
<1>2. /\ refcnt' = [refcnt EXCEPT ![b] = @ + 1]
      /\ cur' = [cur EXCEPT ![p] = b] /\ pc' = [pc EXCEPT ![p] = "lock"]
      /\ UNCHANGED <<bno, valid>>
  BY <1>1, Zenon DEF Hit, Goto
<1>3. /\ cur[p] = NoBuf /\ p \notin Requests /\ n # NoBlock
      /\ \A q \in Proc : q # p => cur'[q] = cur[q] /\ pc'[q] = pc[q]
      /\ cur'[p] = b /\ pc'[p] = "lock"
  BY <1>2, IdleJoins, Zenon
<1>4. UNCHANGED <<desc, avail, disk, device, rw>> /\ Requests' = Requests
  BY Zenon DEF diskVars, queueVars, Requests
<1>5. refcnt \in [Buf -> Int]
  BY Zenon DEF StoreInv, StoreTypes
<1>6. StoreTypes'
  <2>1. refcnt[b] + 1 \in Int
    BY <1>1, <1>5
  <2> QED BY <1>2, <1>4, <1>5, <2>1, Zenon DEF StoreInv, StoreTypes
<1>7. OneBuffer'
  BY <1>1, <1>2, <1>3, Zenon DEF StoreInv, OneBuffer
<1>8. Counted'
  <2>1. /\ \A c \in Buf : c # b => Users(c)' = Users(c)
        /\ IsFiniteSet(Users(b)')
        /\ Cardinality(Users(b)') = Cardinality(Users(b)) + 1
    BY <1>1, <1>2, <1>3, UserJoins, Zenon
  <2>2. \A c \in Buf : Pins(c)' = Pins(c)
    BY <1>2, Zenon DEF Pins
  <2>3. /\ IsFiniteSet(Users(b)) /\ refcnt[b] = Cardinality(Users(b)) + Pins(b)
        /\ Cardinality(Users(b)) \in Nat /\ Pins(b) \in {0, 1}
    BY <1>1, FS_CardinalityType, Zenon DEF StoreInv, Counted, Pins
  <2>4. refcnt'[b] = refcnt[b] + 1 /\ \A c \in Buf : c # b => refcnt'[c] = refcnt[c]
    BY <1>1, <1>2, <1>5, Zenon
  <2>5. refcnt'[b] = Cardinality(Users(b)') + Pins(b)'
    BY <1>1, <2>1, <2>2, <2>3, <2>4
  <2>6. \A c \in Buf : c # b =>
          IsFiniteSet(Users(c)') /\ refcnt'[c] = Cardinality(Users(c)') + Pins(c)'
    BY <2>1, <2>2, <2>4, Zenon DEF StoreInv, Counted
  <2> QED BY <2>1, <2>5, <2>6, Zenon DEF Counted
<1>9. Validity' /\ Directed'
  <2>1. \A q \in Proc : pc'[q] # "lock" => q # p
    BY <1>3, Zenon
  <2>2. Validity'
    BY <1>2, <1>3, <2>1, ZenonT(30) DEF StoreInv, Validity
  <2>3. Directed'
    BY <1>3, <1>4, Zenon DEF StoreInv, Directed
  <2> QED BY <2>2, <2>3, Zenon
<1>10. \A c \in Buf : Writing(c)' <=> Writing(c)
  BY <1>3, Zenon DEF Writing
<1>11. Clean'
  BY <1>2, <1>4, <1>10, Zenon DEF StoreInv, Clean
<1>12. \A q \in Requests : rw'[q] = rw[q] /\ cur'[q] = cur[q]
                           /\ bno'[cur[q]] = bno[cur[q]]
                           /\ data'[cur[q]] = data[cur[q]]
  BY <1>2, <1>3, <1>4, Zenon DEF Requests
<1>13. \A q \in Requests' : CarriedOut(q)'
  BY <1>4, <1>12, OthersGoOn, Zenon
<1> QED BY <1>6, <1>7, <1>8, <1>9, <1>11, <1>13, Zenon DEF StoreInv

\* bget() recycles a buffer that nobody refers to.
LEMMA RecycleStore ==
  ASSUME DiskInv, BuffersFound, StoreInv, NEW p \in Proc, NEW n \in BlockNo,
         Recycle(p, n), pc[p] = "idle",
         UNCHANGED <<diskVars, data, logged>>
  PROVE  StoreInv'
<1>1. PICK b \in Buf : b = Oldest(Unused) /\ refcnt[b] = 0
  <2>1. Unused \in SUBSET Buf /\ Unused # {}
    BY Zenon DEF Recycle, Unused
  <2>2. Oldest(Unused) \in Unused
    BY <2>1, Zenon DEF BuffersFound
  <2> QED BY <2>2, Zenon DEF Unused
<1>2. /\ bno' = [bno EXCEPT ![b] = n] /\ valid' = [valid EXCEPT ![b] = FALSE]
      /\ refcnt' = [refcnt EXCEPT ![b] = 1]
      /\ cur' = [cur EXCEPT ![p] = b] /\ pc' = [pc EXCEPT ![p] = "lock"]
  BY <1>1, Zenon DEF Recycle, Goto
<1>3. \A c \in Buf : bno[c] # n
  BY Zenon DEF Recycle, Cached
<1>4. bno[b] \notin logged /\ \A q \in Proc : cur[q] # b
  BY <1>1, UnusedFree, Zenon
<1>5. /\ cur[p] = NoBuf /\ p \notin Requests /\ n # NoBlock
      /\ \A q \in Proc : q # p => cur'[q] = cur[q] /\ pc'[q] = pc[q]
      /\ cur'[p] = b /\ pc'[p] = "lock"
  BY <1>2, IdleJoins, Zenon
<1>6. UNCHANGED <<desc, avail, disk, device, rw>> /\ Requests' = Requests
  BY Zenon DEF diskVars, queueVars, Requests
<1>7. /\ refcnt \in [Buf -> Int] /\ valid \in [Buf -> BOOLEAN]
      /\ DOMAIN bno = Buf /\ 1 \in Int
  BY DEF StoreInv, StoreTypes, DiskInv, CacheTypes
<1>8. /\ bno'[b] = n /\ ~valid'[b] /\ refcnt'[b] = 1
      /\ \A c \in Buf : c # b =>
           bno'[c] = bno[c] /\ valid'[c] = valid[c] /\ refcnt'[c] = refcnt[c]
  BY <1>1, <1>2, <1>7, Zenon
<1>9. n \notin logged
  BY <1>3, Zenon DEF StoreInv, OneBuffer
<1>10. StoreTypes'
  BY <1>2, <1>6, <1>7, Zenon DEF StoreInv, StoreTypes
<1>11. OneBuffer'
  <2>1. \A c, d \in Buf : bno'[c] = bno'[d] /\ bno'[c] # NoBlock => c = d
    BY <1>3, <1>8 DEF StoreInv, OneBuffer
  <2>2. \A q \in Proc : cur'[q] # NoBuf => bno'[cur'[q]] # NoBlock
    <3>1. \A q \in Proc : q # p /\ cur[q] # NoBuf => cur[q] \in Buf /\ cur[q] # b
      BY <1>4, Zenon DEF DiskInv, CacheTypes
    <3>2. \A q \in Proc : cur[q] # NoBuf => bno[cur[q]] # NoBlock
      BY Zenon DEF StoreInv, OneBuffer
    <3>3. \A q \in Proc : q # p /\ cur[q] # NoBuf => bno'[cur[q]] # NoBlock
      BY <1>8, <3>1, <3>2, Zenon
    <3> QED BY <1>5, <1>8, <3>3, Zenon
  <2>3. \A m \in logged : m # NoBlock /\ \E c \in Buf : bno'[c] = m
    <3> SUFFICES ASSUME NEW m \in logged
                 PROVE  m # NoBlock /\ \E c \in Buf : bno'[c] = m
      BY Zenon
    <3>1. PICK c \in Buf : bno[c] = m /\ m # NoBlock
      BY Zenon DEF StoreInv, OneBuffer
    <3>2. c # b
      BY <1>4, <3>1, Zenon
    <3> QED BY <1>8, <3>1, <3>2, Zenon
  <2> QED BY <2>1, <2>2, <2>3, Zenon DEF OneBuffer
<1>12. Counted'
  <2>1. /\ \A c \in Buf : c # b => Users(c)' = Users(c)
        /\ Users(b)' = Users(b) \cup {p} /\ IsFiniteSet(Users(b)')
    BY <1>1, <1>2, <1>5, UserJoins, Zenon
  <2>2. Cardinality(Users(b)') = 1
    <3>1. Users(b)' = {p}
      BY <1>4, <2>1, Zenon DEF Users
    <3> QED BY <3>1, FS_Singleton, Zenon
  <2>3. Pins(b)' = 0 /\ \A c \in Buf : c # b => Pins(c)' = Pins(c)
    BY <1>8, <1>9, Zenon DEF Pins
  <2>4. refcnt'[b] = Cardinality(Users(b)') + Pins(b)'
    BY <1>8, <2>2, <2>3
  <2>5. \A c \in Buf : c # b =>
          IsFiniteSet(Users(c)') /\ refcnt'[c] = Cardinality(Users(c)') + Pins(c)'
    BY <1>8, <2>1, <2>3, Zenon DEF StoreInv, Counted
  <2> QED BY <2>1, <2>4, <2>5, Zenon DEF Counted
<1>13. \A q \in Proc : q # p /\ pc[q] # "idle" => cur[q] \in Buf /\ cur[q] # b
  BY <1>4, ThreadBuffer, Zenon
<1>14. Validity'
  <2>1. \A q \in Proc : /\ pc'[q] \in {"have", "writing"} => valid'[cur'[q]]
                        /\ pc'[q] = "reading" => ~valid'[cur'[q]]
    <3>1. \A q \in Proc : q # p /\ pc[q] # "idle" => valid'[cur[q]] = valid[cur[q]]
      BY <1>8, <1>13, Zenon
    <3>2. \A q \in Proc : pc'[q] # "lock" =>
            q # p /\ pc'[q] = pc[q] /\ cur'[q] = cur[q]
      BY <1>5, Zenon
    <3>3. \A q \in Proc : /\ pc[q] \in {"have", "writing"} => valid[cur[q]]
                          /\ pc[q] = "reading" => ~valid[cur[q]]
      BY Zenon DEF StoreInv, Validity
    <3> QED BY <3>1, <3>2, <3>3
  <2>2. \A c \in Buf : valid'[c] => bno'[c] # NoBlock
    BY <1>8, Zenon DEF StoreInv, Validity
  <2> QED BY <2>1, <2>2, Zenon DEF Validity
<1>15. Directed'
  BY <1>5, <1>6, Zenon DEF StoreInv, Directed
<1>16. \A c \in Buf : Writing(c)' <=> Writing(c)
  BY <1>5, Zenon DEF Writing
<1>17. Clean'
  BY <1>6, <1>8, <1>16, Zenon DEF StoreInv, Clean
<1>18. \A q \in Requests : /\ rw'[q] = rw[q] /\ cur'[q] = cur[q]
                           /\ bno'[cur[q]] = bno[cur[q]]
                           /\ data'[cur[q]] = data[cur[q]]
  <2>1. \A q \in Requests : cur[q] \in Buf /\ cur[q] # b /\ q \in Proc
    BY <1>4, RequestBuffer, Zenon
  <2> QED BY <1>5, <1>6, <1>8, <2>1, Zenon
<1>19. \A q \in Requests' : CarriedOut(q)'
  BY <1>6, <1>18, OthersGoOn, Zenon
<1> QED BY <1>10, <1>11, <1>12, <1>14, <1>15, <1>17, <1>19, Zenon DEF StoreInv

\* Steps that change no reference.
LEMMA CountsKept ==
  ASSUME StoreInv, UNCHANGED <<bno, refcnt, logged, cur>>
  PROVE  OneBuffer' /\ Counted'
<1>1. OneBuffer'
  BY Zenon DEF StoreInv, OneBuffer
<1>2. Counted'
  BY Zenon DEF StoreInv, Counted, Users, Pins
<1> QED BY <1>1, <1>2, Zenon

\* What becomes of the requests when a thread that has none calls
\* virtio_disk_rw().
Asks(p, r) ==
  pc[p] \in {"lock", "have"} /\ rw' = [rw EXCEPT ![p] = r] /\ r.at = "try"

LEMMA RequestJoins ==
  ASSUME DiskInv, NEW p \in Proc, NEW r, Asks(p, r)
  PROVE  /\ Requests' = Requests /\ p \notin Requests
         /\ rw'[p] = r /\ \A q \in Proc : q # p => rw'[q] = rw[q]
<1>1. rw[p].at = "none" /\ rw \in [Proc -> Rw]
  BY Zenon DEF DiskInv, Locking, DiskTypes, Asks
<1>2. rw'[p] = r /\ \A q \in Proc : q # p => rw'[q] = rw[q]
  BY <1>1, Zenon DEF Asks
<1> QED BY <1>1, <1>2, Zenon DEF Requests, Asks

\* bread() has locked the buffer.
LEMMA BreadStore ==
  ASSUME DiskInv, StoreInv, NEW p \in Proc, Bread(p)
  PROVE  StoreInv'
<1>1. /\ pc[p] = "lock"
      /\ UNCHANGED <<queueVars, bno, data, disk, device, valid, refcnt, logged,
                     cur>>
      /\ \/ valid[cur[p]] /\ pc' = [pc EXCEPT ![p] = "have"] /\ rw' = rw
         \/ /\ ~valid[cur[p]] /\ pc' = [pc EXCEPT ![p] = "reading"]
            /\ Request(p, cur[p], FALSE)
  BY Zenon DEF Bread, Here, Goto
<1>2. /\ Requests' = Requests /\ p \notin Requests
      /\ \A q \in Proc : q # p => rw'[q] = rw[q]
      /\ rw'[p].at # "none" => ~rw'[p].write
  <2>1. CASE rw' = rw
    BY <1>1, <2>1, Zenon DEF Requests, DiskInv, Locking
  <2>2. CASE Request(p, cur[p], FALSE)
    <3>0. PICK b : b = cur[p]
      BY Zenon
    <3> DEFINE r == [at |-> "try", buf |-> b, write |-> FALSE, idx |-> 0]
    <3>1. rw' = [rw EXCEPT ![p] = r]
      BY <2>2, <3>0, Zenon DEF Request
    <3>2. r.at = "try" /\ ~r.write
      OBVIOUS
    <3> HIDE DEF r
    <3>3. Asks(p, r)
      BY <1>1, <3>1, <3>2, Zenon DEF Asks
    <3>4. /\ Requests' = Requests /\ p \notin Requests
          /\ rw'[p] = r /\ \A q \in Proc : q # p => rw'[q] = rw[q]
      BY <3>3, RequestJoins, Zenon
    <3> QED BY <3>2, <3>4, Zenon
  <2> QED BY <1>1, <2>1, <2>2, Zenon
<1>3. /\ \A q \in Proc : q # p => pc'[q] = pc[q]
      /\ \/ valid[cur[p]] /\ pc'[p] = "have"
         \/ ~valid[cur[p]] /\ pc'[p] = "reading"
  BY <1>1, Zenon DEF DiskInv, CacheTypes
<1>4. StoreTypes' /\ OneBuffer' /\ Counted'
  BY <1>1, CountsKept, Zenon DEF StoreInv, StoreTypes
<1>5. Validity'
  BY <1>1, <1>3, Zenon DEF StoreInv, Validity
<1>6. Directed'
  BY <1>2, <1>3, Zenon DEF StoreInv, Directed
<1>7. \A c \in Buf : Writing(c)' <=> Writing(c)
  BY <1>1, <1>3, Zenon DEF Writing
<1>8. Clean'
  BY <1>1, <1>7, Zenon DEF StoreInv, Clean
<1>9. \A q \in Requests' : CarriedOut(q)'
  <2>1. UNCHANGED <<desc, avail, disk, device>>
    BY <1>1, Zenon DEF queueVars
  <2>2. \A q \in Requests : rw'[q] = rw[q]
    BY <1>2, Zenon DEF Requests
  <2> QED BY <1>1, <1>2, <2>1, <2>2, OthersGoOn, Zenon
<1> QED BY <1>4, <1>5, <1>6, <1>8, <1>9, Zenon DEF StoreInv

\* The holder changes the contents of its buffer: no other buffer and no
\* request are concerned.
LEMMA HolderChanges ==
  ASSUME DiskInv, StoreInv, NEW p \in Proc, pc[p] = "have",
         NEW v \in Val, data' = [data EXCEPT ![cur[p]] = v]
  PROVE  /\ data' \in [Buf -> Val] /\ data'[cur[p]] = v
         /\ \A c \in Buf : c # cur[p] => data'[c] = data[c]
         /\ \A q \in Requests : data'[cur[q]] = data[cur[q]] /\ q # p
<1>1. data \in [Buf -> Val]
  BY Zenon DEF StoreInv, StoreTypes
<1>2. cur[p] \in Buf
  BY ThreadBuffer, Zenon
<1>3. /\ data' \in [Buf -> Val] /\ data'[cur[p]] = v
      /\ \A c \in Buf : c # cur[p] => data'[c] = data[c]
  BY <1>1, <1>2, Zenon
<1>4. \A q \in Requests : q # p /\ q \in Holders /\ cur[q] \in Buf
  BY RequestBuffer, Zenon DEF DiskInv, Locking, Holders
<1>5. \A q \in Requests : cur[q] # cur[p]
  BY <1>4, ThreadBuffer, Zenon DEF Holders
<1> QED BY <1>3, <1>4, <1>5, Zenon

\* bwrite() of the holder.
LEMMA BwriteStore ==
  ASSUME DiskInv, StoreInv, NEW p \in Proc, Bwrite(p)
  PROVE  StoreInv'
<1>1. /\ pc[p] = "have" /\ Request(p, cur[p], TRUE)
      /\ UNCHANGED <<queueVars, bno, disk, device, valid, refcnt, logged, cur>>
      /\ pc' = [pc EXCEPT ![p] = "writing"]
  BY Zenon DEF Bwrite, Here, Goto
<1>2. PICK v \in Val : data' = [data EXCEPT ![cur[p]] = v]
  BY Zenon DEF Bwrite
<1>3. /\ data' \in [Buf -> Val]
      /\ \A c \in Buf : c # cur[p] => data'[c] = data[c]
      /\ \A q \in Requests : data'[cur[q]] = data[cur[q]] /\ q # p
  BY <1>1, <1>2, HolderChanges, Zenon
<1>4. /\ Requests' = Requests /\ rw'[p].write
      /\ \A q \in Proc : q # p => rw'[q] = rw[q]
  <2>0. PICK b : b = cur[p]
    BY Zenon
  <2> DEFINE r == [at |-> "try", buf |-> b, write |-> TRUE, idx |-> 0]
  <2>1. rw' = [rw EXCEPT ![p] = r]
    BY <1>1, <2>0, Zenon DEF Request
  <2>2. r.at = "try" /\ r.write
    OBVIOUS
  <2> HIDE DEF r
  <2>3. Asks(p, r)
    BY <1>1, <2>1, <2>2, Zenon DEF Asks
  <2>4. /\ Requests' = Requests /\ p \notin Requests
        /\ rw'[p] = r /\ \A q \in Proc : q # p => rw'[q] = rw[q]
    BY <2>3, RequestJoins, Zenon
  <2> QED BY <2>2, <2>4, Zenon
<1>5. pc'[p] = "writing" /\ \A q \in Proc : q # p => pc'[q] = pc[q]
  BY <1>1, Zenon DEF DiskInv, CacheTypes
<1>6. StoreTypes' /\ OneBuffer' /\ Counted'
  BY <1>1, <1>3, CountsKept, Zenon DEF StoreInv, StoreTypes
<1>7. Validity'
  BY <1>1, <1>5, Zenon DEF StoreInv, Validity
<1>8. Directed'
  BY <1>4, <1>5, Zenon DEF StoreInv, Directed
<1>9. Clean'
  <2>1. \A c \in Buf : ~Writing(c)' => c # cur[p] /\ ~Writing(c)
    BY <1>1, <1>5, Zenon DEF Writing
  <2> QED BY <1>1, <1>3, <2>1, Zenon DEF StoreInv, Clean
<1>10. \A q \in Requests' : CarriedOut(q)'
  <2>1. UNCHANGED <<desc, avail, disk, device>>
    BY <1>1, Zenon DEF queueVars
  <2>2. \A q \in Requests : rw'[q] = rw[q]
    BY <1>3, <1>4, Zenon DEF Requests
  <2> QED BY <1>1, <1>3, <1>4, <2>1, <2>2, OthersGoOn, Zenon
<1> QED BY <1>6, <1>7, <1>8, <1>9, <1>10, Zenon DEF StoreInv

\* log_write() of the holder pins the buffer of a block it did not have.
LEMMA LogWriteStore ==
  ASSUME DiskInv, StoreInv, NEW p \in Proc, LogWrite(p)
  PROVE  StoreInv'
<1>1. /\ pc[p] = "have" /\ UNCHANGED <<diskVars, bno, valid, pc, cur>>
      /\ logged' = logged \cup {bno[cur[p]]}
      /\ refcnt' = [refcnt EXCEPT ![cur[p]] =
                      IF bno[cur[p]] \in logged THEN @ ELSE @ + 1]
  BY Zenon DEF LogWrite, Here, threadVars
<1>2. PICK v \in Val : data' = [data EXCEPT ![cur[p]] = v]
  BY Zenon DEF LogWrite
<1>3. /\ data' \in [Buf -> Val]
      /\ \A c \in Buf : c # cur[p] => data'[c] = data[c]
      /\ \A q \in Requests : data'[cur[q]] = data[cur[q]] /\ q # p
  BY <1>1, <1>2, HolderChanges, Zenon
<1>4. PICK b \in Buf : b = cur[p] /\ bno[b] # NoBlock
  BY <1>1, ThreadBuffer, Zenon
<1>5. Requests' = Requests /\ UNCHANGED <<rw, desc, avail, disk, device>>
  BY <1>1, Zenon DEF Requests, diskVars, queueVars
<1>6. /\ refcnt' \in [Buf -> Int] /\ \A c \in Buf : c # b => refcnt'[c] = refcnt[c]
      /\ refcnt'[b] = refcnt[b] + IF bno[b] \in logged THEN 0 ELSE 1
  <2>1. refcnt \in [Buf -> Int]
    BY Zenon DEF StoreInv, StoreTypes
  <2> QED BY <1>1, <1>4, <2>1
<1>7. StoreTypes'
  BY <1>1, <1>3, <1>5, <1>6, Zenon DEF StoreInv, StoreTypes
<1>8. OneBuffer'
  BY <1>1, <1>4, Zenon DEF StoreInv, OneBuffer
<1>9. Counted'
  <2>1. \A c \in Buf : Users(c)' = Users(c)
    BY <1>1, Zenon DEF Users
  <2>2. \A c \in Buf : c # b => Pins(c)' = Pins(c)
    <3>1. \A c \in Buf : c # b => bno[c] # bno[b]
      BY <1>4, Zenon DEF StoreInv, OneBuffer
    <3> QED BY <1>1, <1>4, <3>1, Zenon DEF Pins
  <2>3. Pins(b)' = Pins(b) + IF bno[b] \in logged THEN 0 ELSE 1
    BY <1>1, <1>4 DEF Pins
  <2>4. /\ IsFiniteSet(Users(b)) /\ refcnt[b] = Cardinality(Users(b)) + Pins(b)
        /\ Cardinality(Users(b)) \in Nat /\ Pins(b) \in Nat
    BY FS_CardinalityType DEF StoreInv, Counted, Pins
  <2>5. refcnt'[b] = Cardinality(Users(b)') + Pins(b)'
    BY <1>6, <2>1, <2>3, <2>4
  <2>6. \A c \in Buf : c # b => refcnt'[c] = Cardinality(Users(c)') + Pins(c)'
    BY <1>6, <2>1, <2>2, Zenon DEF StoreInv, Counted
  <2> QED BY <2>1, <2>5, <2>6, Zenon DEF StoreInv, Counted
<1>10. Validity' /\ Directed'
  BY <1>1, <1>5, Zenon DEF StoreInv, Validity, Directed
<1>11. Clean'
  <2>1. \A c \in Buf : Writing(c)' <=> Writing(c)
    BY <1>1, Zenon DEF Writing
  <2>2. \A c \in Buf : bno[c] \notin logged' => bno[c] \notin logged /\ c # b
    BY <1>1, <1>4, Zenon
  <2> QED BY <1>1, <1>3, <1>4, <1>5, <2>1, <2>2, Zenon DEF StoreInv, Clean
<1>12. \A q \in Requests' : CarriedOut(q)'
  BY <1>1, <1>3, <1>5, OthersGoOn, Zenon
<1> QED BY <1>7, <1>8, <1>9, <1>10, <1>11, <1>12, Zenon DEF StoreInv

\* brelse(): first the lock, ...
LEMMA ReleaseStore ==
  ASSUME DiskInv, StoreInv, NEW p \in Proc, ReleaseSleep(p)
  PROVE  StoreInv'
<1>1. /\ UNCHANGED <<diskVars, bno, data, valid, refcnt, logged, cur>>
      /\ pc[p] = "have" /\ pc' = [pc EXCEPT ![p] = "drop"]
  BY Zenon DEF ReleaseSleep, Here, Goto
<1>2. Requests' = Requests /\ UNCHANGED <<rw, desc, avail, disk, device>>
  BY <1>1, Zenon DEF Requests, diskVars, queueVars
<1>3. pc'[p] = "drop" /\ \A q \in Proc : q # p => pc'[q] = pc[q]
  BY <1>1, Zenon DEF DiskInv, CacheTypes
<1>4. StoreTypes' /\ OneBuffer' /\ Counted'
  BY <1>1, <1>2, CountsKept, Zenon DEF StoreInv, StoreTypes
<1>5. Validity' /\ Directed'
  BY <1>1, <1>2, <1>3, Zenon DEF StoreInv, Validity, Directed
<1>6. \A c \in Buf : Writing(c)' <=> Writing(c)
  BY <1>1, <1>3, Zenon DEF Writing
<1>7. Clean'
  BY <1>1, <1>2, <1>6, Zenon DEF StoreInv, Clean
<1>8. \A q \in Requests' : CarriedOut(q)'
  BY <1>1, <1>2, OthersGoOn, Zenon
<1> QED BY <1>4, <1>5, <1>7, <1>8, Zenon DEF StoreInv

\* ... then the reference.
LEMMA DropStore ==
  ASSUME DiskInv, StoreInv, NEW p \in Proc, Drop(p)
  PROVE  StoreInv'
<1>1. /\ UNCHANGED <<diskVars, bno, data, valid, logged>>
      /\ pc[p] = "drop" /\ pc' = [pc EXCEPT ![p] = "idle"]
      /\ cur' = [cur EXCEPT ![p] = NoBuf]
      /\ refcnt' = [refcnt EXCEPT ![cur[p]] = @ - 1]
  BY Zenon DEF Drop, Here, Goto
<1>2. Requests' = Requests /\ UNCHANGED <<rw, desc, avail, disk, device>>
  BY <1>1, Zenon DEF Requests, diskVars, queueVars
<1>3. /\ pc'[p] = "idle" /\ cur'[p] = NoBuf
      /\ \A q \in Proc : q # p => pc'[q] = pc[q] /\ cur'[q] = cur[q]
  BY <1>1, Zenon DEF DiskInv, CacheTypes
<1>4. PICK b \in Buf : b = cur[p]
  BY <1>1, ThreadBuffer, Zenon
<1>5. /\ refcnt' \in [Buf -> Int] /\ refcnt'[b] = refcnt[b] - 1
      /\ \A c \in Buf : c # b => refcnt'[c] = refcnt[c]
  <2>1. refcnt \in [Buf -> Int]
    BY Zenon DEF StoreInv, StoreTypes
  <2> QED BY <1>1, <1>4, <2>1
<1>6. StoreTypes' /\ OneBuffer'
  <2>1. StoreTypes'
    BY <1>1, <1>2, <1>5, Zenon DEF StoreInv, StoreTypes
  <2>2. OneBuffer'
    BY <1>1, <1>3, Zenon DEF StoreInv, OneBuffer
  <2> QED BY <2>1, <2>2, Zenon
<1>7. Counted'
  <2>1. /\ \A c \in Buf : c # b => Users(c)' = Users(c)
        /\ IsFiniteSet(Users(b)')
        /\ Cardinality(Users(b)') = Cardinality(Users(b)) - 1
    BY <1>1, <1>4, UserLeaves, Zenon
  <2>2. \A c \in Buf : Pins(c)' = Pins(c)
    BY <1>1, Zenon DEF Pins
  <2>3. /\ IsFiniteSet(Users(b)) /\ refcnt[b] = Cardinality(Users(b)) + Pins(b)
        /\ Cardinality(Users(b)) \in Nat /\ Pins(b) \in Nat
    BY FS_CardinalityType DEF StoreInv, Counted, Pins
  <2>4. refcnt'[b] = Cardinality(Users(b)') + Pins(b)'
    BY <1>5, <2>1, <2>2, <2>3
  <2>5. \A c \in Buf : c # b => refcnt'[c] = Cardinality(Users(c)') + Pins(c)'
    BY <1>5, <2>1, <2>2, Zenon DEF StoreInv, Counted
  <2> QED BY <2>1, <2>4, <2>5, Zenon DEF StoreInv, Counted
<1>8. Validity' /\ Directed'
  <2>1. Validity'
    BY <1>1, <1>3, Zenon DEF StoreInv, Validity
  <2>2. Directed'
    BY <1>1, <1>2, <1>3, Zenon DEF StoreInv, Directed
  <2> QED BY <2>1, <2>2, Zenon
<1>9. \A c \in Buf : Writing(c)' <=> Writing(c)
  BY <1>1, <1>3, Zenon DEF Writing
<1>10. Clean'
  BY <1>1, <1>2, <1>9, Zenon DEF StoreInv, Clean
<1>11. \A q \in Requests' : CarriedOut(q)'
  <2>1. p \notin Requests
    BY <1>1, Zenon DEF DiskInv, Locking, Requests
  <2>2. \A q \in Requests : q \in Proc /\ q # p
    BY <2>1, Zenon DEF Requests
  <2> QED BY <1>1, <1>2, <1>3, <2>2, OthersGoOn, Zenon
<1> QED BY <1>6, <1>7, <1>8, <1>10, <1>11, Zenon DEF StoreInv

\* The end of a request: the others stay as they are, and the device has
\* done what was asked for.
LEMMA RequestOver ==
  ASSUME DiskInv, StoreInv, NEW p \in Proc, Finished(p),
         UNCHANGED <<bno, data, cur>>
  PROVE  /\ \A q \in Requests' : CarriedOut(q)'
         /\ data[cur[p]] = disk[bno[cur[p]]]
<1>1. /\ UNCHANGED <<avail, device, disk>> /\ p \in Requests
      /\ ~busy[rw[p].buf] /\ Requests' = Requests \ {p}
      /\ desc' = [l \in Desc |-> IF l \in ChainOf(p) THEN NoDesc ELSE desc[l]]
      /\ \A q \in Proc : q # p =>
           /\ rw'[q].buf = rw[q].buf /\ rw'[q].idx = rw[q].idx
           /\ rw'[q].write = rw[q].write
  BY Zenon DEF Finished
<1>2. rw[p].idx \notin Announced \cup device.work
  <2>1. rw[p].idx \notin InFlight
    <3>1. SUFFICES ASSUME rw[p].idx \in InFlight PROVE FALSE
      BY Zenon
    <3>2. PICK q \in Requests :
            rw[q].idx = rw[p].idx /\ \A o \in Requests : rw[o].idx = rw[p].idx => o = q
      BY <3>1, FlightOf, Zenon
    <3>3. PICK q2 \in Requests : rw[q2].idx = rw[p].idx /\ busy[rw[q2].buf]
      BY <3>1, Zenon DEF DiskInv, Flights
    <3> QED BY <1>1, <3>2, <3>3, Zenon
  <2> QED BY <2>1, Zenon DEF InFlight
<1>3. data[cur[p]] = disk[bno[cur[p]]]
  BY <1>1, <1>2, Zenon DEF StoreInv, CarriedOut
<1>4. Announced' = Announced
  BY <1>1, Zenon DEF Announced, Entries, Ahead
<1>5. ASSUME NEW q \in Requests, q # p PROVE CarriedOut(q)'
  <2>1. ChainOf(q) \cap ChainOf(p) = {}
    BY <1>1, <1>5, Zenon DEF DiskInv, Chained
  <2>2. PICK i, j, k \in Desc :
          i = rw[q].idx /\ j = desc[i].next /\ ChainOf(q) = {i, j, k}
    BY ChainShape
  <2>3. \A l \in ChainOf(q) : l \in Desc /\ l \notin ChainOf(p)
    BY <2>1, <2>2, Zenon
  <2>4. \A l \in ChainOf(q) : desc'[l] = desc[l]
    BY <1>1, <2>3, Zenon
  <2>5. q \in Proc
    BY Zenon DEF Requests
  <2>6. SameRequest(q)
    BY <1>1, <1>4, <1>5, <2>4, <2>5, Zenon DEF SameRequest
  <2> QED BY <2>6, CarriedOn, Zenon DEF StoreInv
<1> QED BY <1>1, <1>3, <1>5, Zenon

\* virtio_disk_rw() returns to bread().
LEMMA ReadDoneStore ==
  ASSUME DiskInv, StoreInv, NEW p \in Proc, RwDone(p), pc[p] = "reading"
  PROVE  StoreInv'
<1>1. /\ UNCHANGED <<bno, data, refcnt, logged, cur>> /\ Finish(p)
      /\ valid' = [valid EXCEPT ![cur[p]] = TRUE]
      /\ pc' = [pc EXCEPT ![p] = "have"]
  BY Zenon DEF RwDone, Goto
<1>2. Finished(p)
  BY <1>1, FinishShape, Zenon
<1>3. UNCHANGED disk /\ rw'[p].at = "none"
      /\ \A q \in Proc : q # p => /\ rw'[q].write = rw[q].write
                                  /\ rw'[q].at # "none" => rw[q].at # "none"
  BY <1>2, Zenon DEF Finished
<1>4. pc'[p] = "have" /\ \A q \in Proc : q # p => pc'[q] = pc[q]
  BY <1>1, Zenon DEF DiskInv, CacheTypes
<1>5. PICK b \in Buf : b = cur[p] /\ bno[b] # NoBlock
  BY ThreadBuffer, Zenon
<1>6. /\ valid' \in [Buf -> BOOLEAN] /\ valid'[b]
      /\ \A c \in Buf : c # b => (valid'[c] <=> valid[c])
  BY <1>1, <1>5 DEF StoreInv, StoreTypes
<1>7. StoreTypes' /\ OneBuffer' /\ Counted'
  BY <1>1, <1>3, <1>6, CountsKept, Zenon DEF StoreInv, StoreTypes
<1>8. Validity'
  <2>1. \A q \in Holders : q # p => cur[q] # b
    BY <1>5, ThreadBuffer, Zenon DEF Holders
  <2>2. \A q \in Proc : pc[q] # "idle" => cur[q] \in Buf
    BY ThreadBuffer, Zenon
  <2>3. \A q \in Proc : /\ pc'[q] \in {"have", "writing"} => valid'[cur'[q]]
                        /\ pc'[q] = "reading" => ~valid'[cur'[q]]
    <3>1. TAKE q \in Proc
    <3>2. CASE q = p
      BY <1>1, <1>4, <1>5, <1>6, <3>2, Zenon
    <3>3. CASE q # p /\ q \in Holders
      BY <1>1, <1>4, <1>6, <2>1, <2>2, <3>3, Zenon
        DEF StoreInv, Validity, Holders
    <3>4. CASE q # p /\ q \notin Holders
      BY <1>4, <3>4, Zenon DEF Holders
    <3> QED BY <3>2, <3>3, <3>4, Zenon
  <2>4. \A c \in Buf : valid'[c] => bno'[c] # NoBlock
    BY <1>1, <1>5, <1>6, Zenon DEF StoreInv, Validity
  <2> QED BY <2>3, <2>4, Zenon DEF Validity
<1>9. Directed'
  BY <1>3, <1>4, Zenon DEF StoreInv, Directed
<1>10. data[b] = disk[bno[b]] /\ \A q \in Requests' : CarriedOut(q)'
  BY <1>1, <1>2, <1>5, RequestOver, Zenon
<1>11. Clean'
  <2>1. \A c \in Buf : Writing(c)' <=> Writing(c)
    BY <1>1, <1>4, Zenon DEF Writing
  <2> QED BY <1>1, <1>3, <1>6, <1>10, <2>1, Zenon DEF StoreInv, Clean
<1> QED BY <1>7, <1>8, <1>9, <1>10, <1>11, Zenon DEF StoreInv

\* virtio_disk_rw() returns to bwrite(), and install_trans() unpins a block
\* of the log.
LEMMA WriteDoneStore ==
  ASSUME DiskInv, StoreInv, NEW p \in Proc, RwDone(p), pc[p] = "writing"
  PROVE  StoreInv'
<1>1. /\ UNCHANGED <<bno, data, valid, cur>> /\ Finish(p)
      /\ refcnt' = [refcnt EXCEPT ![cur[p]] =
                      IF bno[cur[p]] \in logged THEN @ - 1 ELSE @]
      /\ logged' = logged \ {bno[cur[p]]}
      /\ pc' = [pc EXCEPT ![p] = "have"]
  BY Zenon DEF RwDone, Goto
<1>2. Finished(p)
  BY <1>1, FinishShape, Zenon
<1>3. UNCHANGED disk /\ rw'[p].at = "none"
      /\ \A q \in Proc : q # p => /\ rw'[q].write = rw[q].write
                                  /\ rw'[q].at # "none" => rw[q].at # "none"
  BY <1>2, Zenon DEF Finished
<1>4. pc'[p] = "have" /\ \A q \in Proc : q # p => pc'[q] = pc[q]
  BY <1>1, Zenon DEF DiskInv, CacheTypes
<1>5. PICK b \in Buf : b = cur[p] /\ bno[b] # NoBlock
  BY ThreadBuffer, Zenon
<1>6. /\ refcnt' \in [Buf -> Int] /\ \A c \in Buf : c # b => refcnt'[c] = refcnt[c]
      /\ refcnt'[b] = refcnt[b] - IF bno[b] \in logged THEN 1 ELSE 0
  <2>1. refcnt \in [Buf -> Int]
    BY Zenon DEF StoreInv, StoreTypes
  <2> QED BY <1>1, <1>5, <2>1
<1>7. StoreTypes'
  BY <1>1, <1>3, <1>6, Zenon DEF StoreInv, StoreTypes
<1>8. OneBuffer'
  BY <1>1, Zenon DEF StoreInv, OneBuffer
<1>9. \A c \in Buf : c # b => bno[c] # bno[b]
  BY <1>5, Zenon DEF StoreInv, OneBuffer
<1>10. Counted'
  <2>1. \A c \in Buf : Users(c)' = Users(c)
    BY <1>1, Zenon DEF Users
  <2>2. \A c \in Buf : c # b => Pins(c)' = Pins(c)
    BY <1>1, <1>5, <1>9, Zenon DEF Pins
  <2>3. Pins(b)' = Pins(b) - IF bno[b] \in logged THEN 1 ELSE 0
    BY <1>1, <1>5 DEF Pins
  <2>4. /\ IsFiniteSet(Users(b)) /\ refcnt[b] = Cardinality(Users(b)) + Pins(b)
        /\ Cardinality(Users(b)) \in Nat /\ Pins(b) \in Nat
    BY FS_CardinalityType DEF StoreInv, Counted, Pins
  <2>5. refcnt'[b] = Cardinality(Users(b)') + Pins(b)'
    BY <1>6, <2>1, <2>3, <2>4
  <2>6. \A c \in Buf : c # b => refcnt'[c] = Cardinality(Users(c)') + Pins(c)'
    BY <1>6, <2>1, <2>2, Zenon DEF StoreInv, Counted
  <2> QED BY <2>1, <2>5, <2>6, Zenon DEF StoreInv, Counted
<1>11. Validity'
  BY <1>1, <1>4, Zenon DEF StoreInv, Validity
<1>12. Directed'
  BY <1>3, <1>4, Zenon DEF StoreInv, Directed
<1>13. data[b] = disk[bno[b]] /\ \A q \in Requests' : CarriedOut(q)'
  BY <1>1, <1>2, <1>5, RequestOver, Zenon
<1>14. Clean'
  <2>1. \A c \in Buf : c # b /\ Writing(c) => Writing(c)'
    BY <1>1, <1>4, <1>5, Zenon DEF Writing
  <2>2. \A c \in Buf : c # b /\ bno[c] \in logged => bno[c] \in logged'
    BY <1>1, <1>5, <1>9, Zenon
  <2>3. \A c \in Buf : c # b /\ valid[c] /\ bno[c] \notin logged' /\ ~Writing(c)'
                       => data[c] = disk[bno[c]]
    BY <2>1, <2>2, Zenon DEF StoreInv, Clean
  <2> QED BY <1>1, <1>3, <1>13, <2>3, Zenon DEF Clean
<1> QED BY <1>7, <1>8, <1>10, <1>11, <1>12, <1>13, <1>14, Zenon DEF StoreInv

-----------------------------------------------------------------------------
(* The invariant. *)

\* binit() and virtio_disk_init().
LEMMA StoreStart == Init => StoreInv
<1> SUFFICES ASSUME Init PROVE StoreInv
  BY Zenon
<1>1. NoBuf \notin Buf /\ Zero \in Val
  BY DiskAssumption DEF Buf, NoBuf
<1>2. /\ \A p \in Proc : cur[p] = NoBuf /\ pc[p] = "idle" /\ rw[p].at = "none"
      /\ \A b \in Buf : bno[b] = NoBlock /\ valid[b] = FALSE /\ refcnt[b] = 0
      /\ logged = {} /\ disk = [n \in BlockNo |-> Zero]
      /\ data = [b \in Buf |-> Zero] /\ valid = [b \in Buf |-> FALSE]
      /\ refcnt = [b \in Buf |-> 0]
  BY DEF Init, DiskInit, NoRequest
<1>3. StoreTypes
  BY <1>1, <1>2 DEF StoreTypes
<1>4. OneBuffer /\ Validity /\ Directed /\ Clean
  BY <1>2, Zenon DEF OneBuffer, Validity, Directed, Clean
<1>5. Counted
  <2>1. ASSUME NEW b \in Buf PROVE Users(b) = {} /\ Pins(b) = 0
    BY <1>1, <1>2, Zenon DEF Users, Pins
  <2>2. IsFiniteSet({}) /\ Cardinality({}) = 0
    BY FS_EmptySet, Zenon
  <2> QED BY <1>2, <2>1, <2>2 DEF Counted
<1>6. \A p \in Requests : CarriedOut(p)
  BY <1>2, Zenon DEF Requests
<1> QED BY <1>3, <1>4, <1>5, <1>6, Zenon DEF StoreInv

\* bget().
LEMMA BgetStore ==
  ASSUME DiskInv, BuffersFound, StoreInv, NEW p \in Proc, Bget(p)
  PROVE  StoreInv'
<1>1. PICK n \in BlockNo : Hit(p, n) \/ Recycle(p, n) \/ NoBuffers(p, n)
  BY Zenon DEF Bget
<1>2. UNCHANGED <<diskVars, data, logged>> /\ pc[p] = "idle"
  BY Zenon DEF Bget, Here
<1>3. CASE NoBuffers(p, n)
  <2>1. UNCHANGED <<bno, data, disk, valid, refcnt, logged, pc, cur>>
    BY <1>2, <1>3, Zenon DEF NoBuffers, diskVars
  <2>2. Requests' = Requests /\ UNCHANGED <<rw, desc, avail, disk, device>>
    BY <1>2, Zenon DEF Requests, diskVars, queueVars
  <2>3. \A q \in Requests' : CarriedOut(q)'
    BY <2>1, <2>2, OthersGoOn, Zenon
  <2>4. Directed'
    BY <2>1, <2>2, Zenon DEF StoreInv, Directed
  <2> QED BY <2>1, <2>3, <2>4, CacheKept, Zenon DEF StoreInv
<1> QED BY <1>1, <1>2, <1>3, HitStore, RecycleStore, Zenon

\* Every step keeps the invariant.
LEMMA StoreStep == DiskInv /\ StoreInv /\ [Next]_vars => StoreInv'
<1> SUFFICES ASSUME DiskInv, StoreInv, [Next]_vars PROVE StoreInv'
  BY Zenon
<1>0. RingRoom /\ DescsFound /\ BuffersFound
  BY RingHasRoom, ThreeDescs, ListPicks, Zenon DEF DiskInv
<1>1. ASSUME NEW p \in Proc, Bget(p) \/ Bread(p) \/ Bwrite(p) \/ LogWrite(p)
      PROVE  StoreInv'
  BY <1>0, <1>1, BgetStore, BreadStore, BwriteStore, LogWriteStore, Zenon
<1>2. ASSUME NEW p \in Proc, RwDone(p) \/ ReleaseSleep(p) \/ Drop(p)
      PROVE  StoreInv'
  <2>1. RwDone(p) => pc[p] = "reading" \/ pc[p] = "writing"
    BY Zenon DEF RwDone, Here
  <2> QED BY <1>2, <2>1, ReadDoneStore, WriteDoneStore, ReleaseStore,
             DropStore,
             Zenon
<1>3. CASE Driver
  <2>1. UNCHANGED <<bno, data, valid, refcnt, logged, pc, cur>>
    BY <1>3, Zenon DEF Driver, cacheVars, threadVars
  <2>2. ASSUME NEW p \in Proc, NoDescs(p) \/ Submit(p) \/ SleepAgain(p)
        PROVE  StoreInv'
    BY <1>0, <2>1, <2>2, SubmitStore, WaitingStore, Zenon
  <2>3. ASSUME IntrAck \/ IntrEntry \/ IntrDone PROVE StoreInv'
    BY <2>1, <2>3, WaitingStore, Zenon
  <2> QED BY <1>3, <2>2, <2>3, Zenon DEF Driver
<1>4. CASE Device /\ UNCHANGED <<cacheVars, threadVars>>
  <2>1. UNCHANGED <<valid, refcnt, logged, pc, cur>>
    BY <1>4, Zenon DEF cacheVars, threadVars
  <2> QED BY <1>4, <2>1, TakeStore, DoneStore, Zenon DEF Device
<1>5. CASE UNCHANGED vars
  <2>1. UNCHANGED <<bno, data, disk, valid, refcnt, logged, pc, cur>>
    BY <1>5, Zenon DEF vars, diskVars, cacheVars, threadVars
  <2>2. Requests' = Requests /\ UNCHANGED <<rw, desc, avail, disk, device>>
    BY <1>5, Zenon DEF vars, Requests, diskVars, queueVars
  <2>3. \A q \in Requests' : CarriedOut(q)'
    BY <2>1, <2>2, OthersGoOn, Zenon
  <2>4. Directed'
    BY <2>1, <2>2, Zenon DEF StoreInv, Directed
  <2> QED BY <2>1, <2>3, <2>4, CacheKept, Zenon DEF StoreInv
<1> QED BY <1>1, <1>2, <1>3, <1>4, <1>5, Zenon DEF Next

-----------------------------------------------------------------------------
(* The block store that the cache implements. *)

\* What the refinement mapping yields.
Mapped ==
  /\ \A b \in Buf : valid[b] => bno[b] \in BlockNo /\ Contents[bno[b]] = data[b]
  /\ \A n \in BlockNo : (\A b \in Buf : valid[b] => bno[b] # n) =>
       Contents[n] = disk[n]
  /\ \A n \in BlockNo : \A p \in Using(n) : Using(n) = {p} /\ Holder[n] = p
  /\ \A n \in BlockNo : Using(n) = {} => Holder[n] = Nobody

LEMMA StoreMapped == DiskInv /\ StoreInv => Mapped
<1> SUFFICES ASSUME DiskInv, StoreInv PROVE Mapped
  BY Zenon
<1>1. ASSUME NEW b \in Buf, valid[b]
      PROVE  bno[b] \in BlockNo /\ Contents[bno[b]] = data[b]
  <2>1. bno[b] # NoBlock
    BY <1>1, Zenon DEF StoreInv, Validity
  <2>2. PICK n \in BlockNo : n = bno[b]
    BY <2>1, ThreadBuffer, Zenon
  <2>3. \A c \in Cached(n) : c = b
    BY <2>1, <2>2, Zenon DEF Cached, StoreInv, OneBuffer
  <2>4. b \in Cached(n)
    BY <2>2, Zenon DEF Cached
  <2>5. (CHOOSE c \in Cached(n) : valid[c]) = b
    BY <1>1, <2>3, <2>4
  <2> QED BY <1>1, <2>2, <2>4, <2>5, Zenon DEF Contents
<1>2. ASSUME NEW n \in BlockNo, \A b \in Buf : valid[b] => bno[b] # n
      PROVE  Contents[n] = disk[n]
  BY <1>2, Zenon DEF Contents, Cached
<1>3. ASSUME NEW n \in BlockNo, NEW p \in Using(n)
      PROVE  Using(n) = {p} /\ Holder[n] = p
  <2>1. \A q \in Using(n) : /\ q \in Holders /\ cur[q] \in Buf
                            /\ bno[cur[q]] = n /\ bno[cur[q]] # NoBlock
    BY ThreadBuffer, Zenon DEF Using, Holders
  <2>2. \A q \in Using(n) : cur[q] = cur[p]
    <3>1. \A b, c \in Buf : bno[b] = bno[c] /\ bno[b] # NoBlock => b = c
      BY Zenon DEF StoreInv, OneBuffer
    <3> QED BY <2>1, <3>1, Zenon
  <2>3. \A q \in Using(n) : q = p
    BY <2>1, <2>2, ThreadBuffer, Zenon
  <2>4. Using(n) = {p}
    BY <2>3, Zenon
  <2> QED BY <2>4, Zenon DEF Holder
<1>4. ASSUME NEW n \in BlockNo, Using(n) = {} PROVE Holder[n] = Nobody
  BY <1>4, Zenon DEF Holder
<1> QED BY <1>1, <1>2, <1>3, <1>4, Zenon DEF Mapped

\* A block that the same threads use has the same holder.
LEMMA SameHolder ==
  ASSUME Mapped, Mapped', NEW n \in BlockNo, Using(n)' = Using(n)
  PROVE  Holder'[n] = Holder[n]
<1>1. CASE Using(n) = {}
  BY <1>1, Zenon DEF Mapped
<1>2. CASE Using(n) # {}
  <2>1. PICK p : p \in Using(n) /\ p \in Using(n)'
    BY <1>2, Zenon
  <2> QED BY <2>1, Zenon DEF Mapped
<1> QED BY <1>1, <1>2, Zenon

\* The two functions of the refinement mapping are functions of the block.
LEMMA StoreFunctions ==
  /\ Contents = [n \in BlockNo |-> Contents[n]]
  /\ Contents' = [n \in BlockNo |-> Contents'[n]]
  /\ Holder = [n \in BlockNo |-> Holder[n]]
  /\ Holder' = [n \in BlockNo |-> Holder'[n]]
<1>1. Contents = [n \in BlockNo |-> Contents[n]]
  BY Zenon DEF Contents
<1>2. Contents' = [n \in BlockNo |-> Contents'[n]]
  BY Zenon DEF Contents
<1>3. Holder = [n \in BlockNo |-> Holder[n]]
  BY DEF Holder
<1>4. Holder' = [n \in BlockNo |-> Holder'[n]]
  BY DEF Holder
<1> QED BY <1>1, <1>2, <1>3, <1>4, Zenon

\* The two functions are equal when they agree everywhere.
LEMMA SameStore ==
  ASSUME Mapped, Mapped'
  PROVE  /\ (\A n \in BlockNo : Contents'[n] = Contents[n]) =>
              Contents' = Contents
         /\ (\A n \in BlockNo : Using(n)' = Using(n)) => Holder' = Holder
<1>1. ASSUME \A n \in BlockNo : Contents'[n] = Contents[n]
      PROVE  Contents' = Contents
  BY <1>1, StoreFunctions, Zenon
<1>2. ASSUME \A n \in BlockNo : Using(n)' = Using(n) PROVE Holder' = Holder
  <2>1. \A n \in BlockNo : Holder'[n] = Holder[n]
    BY <1>2, SameHolder, Zenon
  <2> QED BY <2>1, StoreFunctions, Zenon
<1> QED BY <1>1, <1>2, Zenon

\* The holder of one block changes.
LEMMA HolderSet ==
  ASSUME Mapped, Mapped', NEW n \in BlockNo, NEW h, Holder'[n] = h,
         \A m \in BlockNo : m # n => Using(m)' = Using(m)
  PROVE  Holder' = [Holder EXCEPT ![n] = h]
<1>1. ASSUME NEW m \in BlockNo, m # n PROVE Holder'[m] = Holder[m]
  BY <1>1, SameHolder, Zenon
<1>2. Holder = [m \in BlockNo |-> Holder[m]]
  BY StoreFunctions, Zenon
<1>3. Holder' = [m \in BlockNo |-> Holder'[m]]
  BY StoreFunctions, Zenon
<1>4. [Holder EXCEPT ![n] = h] = [m \in BlockNo |-> IF m = n THEN h ELSE Holder[m]]
  BY <1>2
<1>5. \A m \in BlockNo : Holder'[m] = IF m = n THEN h ELSE Holder[m]
  BY <1>1, Zenon
<1> QED BY <1>3, <1>4, <1>5, Zenon

\* A thread gets a block that nobody has, ...
LEMMA BlockTaken ==
  ASSUME Mapped, Mapped', NEW p \in Proc, NEW n \in BlockNo,
         Using(n) = {}, Using(n)' = {p},
         \A m \in BlockNo : m # n => Using(m)' = Using(m)
  PROVE  Holder[n] = Nobody /\ Holder' = [Holder EXCEPT ![n] = p]
<1>1. Holder[n] = Nobody /\ Holder'[n] = p
  BY Zenon DEF Mapped
<1> QED BY <1>1, HolderSet, Zenon

\* ... and gives it back.
LEMMA BlockGiven ==
  ASSUME Mapped, Mapped', NEW p \in Proc, NEW n \in BlockNo,
         Using(n) = {p}, Using(n)' = {},
         \A m \in BlockNo : m # n => Using(m)' = Using(m)
  PROVE  Holder[n] = p /\ Holder' = [Holder EXCEPT ![n] = Nobody]
<1>1. Holder[n] = p /\ Holder'[n] = Nobody
  BY Zenon DEF Mapped
<1> QED BY <1>1, HolderSet, Zenon

\* Steps that touch no contents.
LEMMA ContentsKept ==
  ASSUME UNCHANGED <<bno, data, valid, disk>> PROVE Contents' = Contents
  BY Zenon DEF Contents, Cached

\* A thread that is not in the middle of its work may move about.
LEMMA UsingKept ==
  ASSUME NEW p \in Proc,
         {pc[p], pc'[p]} \cap {"have", "writing"} = {},
         \A q \in Proc : q # p => pc'[q] = pc[q] /\ cur'[q] = cur[q],
         \A q \in Proc : q # p /\ pc[q] \in {"have", "writing"} =>
           bno'[cur[q]] = bno[cur[q]]
  PROVE  \A n \in BlockNo : Using(n)' = Using(n)
  BY ZenonT(30) DEF Using

\* A step that changes no contents and no holder stutters.
LEMMA Stutters ==
  ASSUME Mapped, Mapped', \A n \in BlockNo : Contents'[n] = Contents[n],
         \A n \in BlockNo : Using(n)' = Using(n)
  PROVE  UNCHANGED S!svars
  BY SameStore, Zenon DEF S!svars

\* bget() takes a buffer from a block only when the disk has its contents.
LEMMA RecycleMaps ==
  ASSUME DiskInv, BuffersFound, StoreInv, Mapped, Mapped', NEW p \in Proc,
         NEW n \in BlockNo, Recycle(p, n), pc[p] = "idle",
         UNCHANGED <<diskVars, data, logged>>
  PROVE  UNCHANGED S!svars
<1>1. PICK b \in Buf : b = Oldest(Unused) /\ refcnt[b] = 0
  <2>1. Unused \in SUBSET Buf /\ Unused # {}
    BY Zenon DEF Recycle, Unused
  <2>2. Oldest(Unused) \in Unused
    BY <2>1, Zenon DEF BuffersFound
  <2> QED BY <2>2, Zenon DEF Unused
<1>2. /\ bno' = [bno EXCEPT ![b] = n] /\ valid' = [valid EXCEPT ![b] = FALSE]
      /\ cur' = [cur EXCEPT ![p] = b] /\ pc' = [pc EXCEPT ![p] = "lock"]
      /\ UNCHANGED <<data, disk>> /\ Cached(n) = {}
  BY <1>1, Zenon DEF Recycle, Goto, diskVars
<1>3. /\ \A c \in Buf : c # b => bno'[c] = bno[c] /\ (valid'[c] <=> valid[c])
      /\ ~valid'[b]
  <2>1. bno \in [Buf -> BlockNo \cup {NoBlock}] /\ valid \in [Buf -> BOOLEAN]
    BY Zenon DEF DiskInv, CacheTypes, StoreInv, StoreTypes
  <2> QED BY <1>2, <2>1
<1>4. bno[b] \notin logged /\ \A q \in Proc : cur[q] # b
  BY <1>1, UnusedFree, Zenon
<1>5. valid[b] => data[b] = disk[bno[b]]
  BY <1>4, Zenon DEF StoreInv, Clean, Writing
<1>6. /\ pc'[p] = "lock"
      /\ \A q \in Proc : q # p => cur'[q] = cur[q] /\ pc'[q] = pc[q]
  BY <1>2, IdleJoins, Zenon
<1>7. ASSUME NEW m \in BlockNo PROVE Contents'[m] = Contents[m]
  <2>1. CASE \E c \in Buf : c # b /\ valid[c] /\ bno[c] = m
    <3>1. PICK c \in Buf : c # b /\ valid[c] /\ bno[c] = m
      BY <2>1, Zenon
    <3>2. valid'[c] /\ bno'[c] = m /\ data'[c] = data[c]
      BY <1>2, <1>3, <3>1, Zenon
    <3>3. Contents[m] = data[c]
      BY <3>1, Zenon DEF Mapped
    <3>4. Contents'[m] = data'[c]
      BY <3>2, Zenon DEF Mapped
    <3> QED BY <3>2, <3>3, <3>4, Zenon
  <2>2. CASE ~\E c \in Buf : c # b /\ valid[c] /\ bno[c] = m
    <3>1. Contents'[m] = disk[m]
      BY <1>2, <1>3, <2>2, ZenonT(30) DEF Mapped
    <3>2. Contents[m] = disk[m]
      <4>1. CASE valid[b] /\ bno[b] = m
        BY <1>5, <4>1, Zenon DEF Mapped
      <4>2. CASE ~(valid[b] /\ bno[b] = m)
        BY <2>2, <4>2, Zenon DEF Mapped
      <4> QED BY <4>1, <4>2, Zenon
    <3> QED BY <3>1, <3>2, Zenon
  <2> QED BY <2>1, <2>2, Zenon
<1>8. \A m \in BlockNo : Using(m)' = Using(m)
  <2>1. \A q \in Proc : q # p /\ pc[q] \in {"have", "writing"} =>
          bno'[cur[q]] = bno[cur[q]]
    BY <1>3, <1>4, ThreadBuffer, Zenon
  <2> QED BY <1>6, <2>1, UsingKept, Zenon
<1> QED BY <1>7, <1>8, Stutters, Zenon

\* The other outcomes of bget(), and the end of brelse().
LEMMA BgetDropMaps ==
  ASSUME DiskInv, BuffersFound, StoreInv, Mapped, Mapped', NEW p \in Proc,
         Bget(p) \/ Drop(p)
  PROVE  UNCHANGED S!svars
<1>1. CASE Bget(p)
  <2>1. PICK n \in BlockNo : Hit(p, n) \/ Recycle(p, n) \/ NoBuffers(p, n)
    BY <1>1, Zenon DEF Bget
  <2>2. UNCHANGED <<diskVars, data, logged>> /\ pc[p] = "idle"
    BY <1>1, Zenon DEF Bget, Here
  <2>3. CASE Hit(p, n)
    <3>1. PICK b : cur' = [cur EXCEPT ![p] = b]
      BY <2>3, Zenon DEF Hit
    <3>2. UNCHANGED <<bno, data, valid, disk>> /\ pc' = [pc EXCEPT ![p] = "lock"]
      BY <2>2, <2>3, Zenon DEF Hit, Goto, diskVars
    <3>3. /\ pc'[p] = "lock"
          /\ \A q \in Proc : q # p => cur'[q] = cur[q] /\ pc'[q] = pc[q]
      BY <2>2, <3>1, <3>2, IdleJoins, Zenon
    <3>4. \A m \in BlockNo : Using(m)' = Using(m)
      BY <2>2, <3>2, <3>3, UsingKept, Zenon
    <3> QED BY <3>2, <3>4, ContentsKept, Stutters, Zenon
  <2>4. CASE Recycle(p, n)
    BY <2>2, <2>4, RecycleMaps, Zenon
  <2>5. CASE NoBuffers(p, n)
    <3>1. UNCHANGED <<bno, data, valid, disk, pc, cur>>
      BY <2>2, <2>5, Zenon DEF NoBuffers, diskVars
    <3>2. \A m \in BlockNo : Using(m)' = Using(m)
      BY <3>1, Zenon DEF Using
    <3> QED BY <3>1, <3>2, ContentsKept, Stutters, Zenon
  <2> QED BY <2>1, <2>3, <2>4, <2>5, Zenon
<1>2. CASE Drop(p)
  <2>1. /\ UNCHANGED <<bno, data, valid, disk>> /\ pc[p] = "drop"
        /\ pc' = [pc EXCEPT ![p] = "idle"] /\ cur' = [cur EXCEPT ![p] = NoBuf]
    BY <1>2, Zenon DEF Drop, Here, Goto, diskVars
  <2>2. /\ pc'[p] = "idle"
        /\ \A q \in Proc : q # p => pc'[q] = pc[q] /\ cur'[q] = cur[q]
    BY <2>1, Zenon DEF DiskInv, CacheTypes
  <2>3. \A m \in BlockNo : Using(m)' = Using(m)
    BY <2>1, <2>2, UsingKept, Zenon
  <2> QED BY <2>1, <2>3, ContentsKept, Stutters, Zenon
<1> QED BY <1>1, <1>2, Zenon

\* A thread begins to use a block that nobody uses.
LEMMA UsingGains ==
  ASSUME NEW p \in Proc, NEW n \in BlockNo, Using(n) = {},
         pc[p] \notin {"have", "writing"}, pc'[p] = "have",
         \A q \in Proc : q # p => pc'[q] = pc[q],
         UNCHANGED <<bno, cur>>, bno[cur[p]] = n
  PROVE  /\ Using(n)' = {p}
         /\ \A m \in BlockNo : m # n => Using(m)' = Using(m)
<1>1. \A m \in BlockNo, q \in Proc : q # p =>
        (q \in Using(m)' <=> q \in Using(m))
  BY Zenon DEF Using
<1>2. \A m \in BlockNo : (p \in Using(m)' <=> m = n) /\ p \notin Using(m)
  BY Zenon DEF Using
<1>3. \A m \in BlockNo : Using(m)' \subseteq Proc /\ Using(m) \subseteq Proc
  BY Zenon DEF Using
<1>4. Using(n)' = {p}
  <2>1. p \in Using(n)'
    BY <1>2, Zenon
  <2>2. \A q \in Using(n)' : q = p
    BY <1>1, <1>3, Zenon
  <2> QED BY <2>1, <2>2, Zenon
<1>5. ASSUME NEW m \in BlockNo, m # n PROVE Using(m)' = Using(m)
  <2>1. \A q \in Using(m)' : q \in Using(m)
    BY <1>1, <1>2, <1>3, <1>5, Zenon
  <2>2. \A q \in Using(m) : q \in Using(m)'
    BY <1>1, <1>2, <1>3, Zenon
  <2> QED BY <2>1, <2>2, Zenon
<1> QED BY <1>4, <1>5, Zenon

\* bread() returns a buffer that is valid, or goes to read it.
LEMMA BreadMaps ==
  ASSUME DiskInv, StoreInv, Mapped, Mapped', NEW p \in Proc, Bread(p)
  PROVE  S!SNext \/ UNCHANGED S!svars
<1>1. /\ pc[p] = "lock" /\ lock[cur[p]] = Nobody
      /\ UNCHANGED <<bno, data, disk, valid, cur>>
      /\ \/ pc' = [pc EXCEPT ![p] = "have"]
         \/ pc' = [pc EXCEPT ![p] = "reading"]
  BY Zenon DEF Bread, Here, Goto
<1>2. Contents' = Contents
  BY <1>1, ContentsKept, Zenon
<1>3. \A q \in Proc : q # p => pc'[q] = pc[q]
  BY <1>1, Zenon DEF DiskInv, CacheTypes
<1>4. CASE pc' = [pc EXCEPT ![p] = "reading"]
  <2>1. pc'[p] = "reading"
    BY <1>4, Zenon DEF DiskInv, CacheTypes
  <2>2. \A m \in BlockNo : Using(m)' = Using(m)
    BY <1>1, <1>3, <2>1, UsingKept, Zenon
  <2> QED BY <1>2, <2>2, Stutters, Zenon
<1>5. CASE pc' = [pc EXCEPT ![p] = "have"]
  <2>1. pc'[p] = "have"
    BY <1>5, Zenon DEF DiskInv, CacheTypes
  <2>2. PICK b \in Buf : b = cur[p] /\ bno[b] \in BlockNo /\ bno[b] # NoBlock
    BY <1>1, ThreadBuffer, Zenon
  <2>3. PICK n \in BlockNo : n = bno[b]
    BY <2>2, Zenon
  <2>4. Using(n) = {}
    <3>1. SUFFICES ASSUME NEW q \in Using(n) PROVE FALSE
      BY Zenon
    <3>2. /\ q \in Proc /\ pc[q] \in {"have", "writing"} /\ bno[cur[q]] = n
      BY Zenon DEF Using
    <3>3. cur[q] = b
      BY <2>2, <2>3, <3>2, ThreadBuffer, Zenon DEF StoreInv, OneBuffer
    <3>4. lock[b] = q
      BY <3>2, <3>3, ZenonT(30) DEF DiskInv, Locking
    <3> QED BY <1>1, <2>2, <3>2, <3>4, CacheAssumption, Zenon
  <2>5. Using(n)' = {p} /\ \A m \in BlockNo : m # n => Using(m)' = Using(m)
    BY <1>1, <1>3, <2>1, <2>2, <2>3, <2>4, UsingGains, Zenon
  <2>6. Holder[n] = Nobody /\ Holder' = [Holder EXCEPT ![n] = p]
    BY <2>4, <2>5, BlockTaken, Zenon
  <2>7. S!Take(p, n)
    BY <1>2, <2>6, Zenon DEF S!Take
  <2> QED BY <2>7, Zenon DEF S!SNext
<1> QED BY <1>1, <1>4, <1>5, Zenon

\* The end of a read: the buffer now has what the disk has, and the thread
\* has the block.
LEMMA ReadDoneMaps ==
  ASSUME DiskInv, StoreInv, Mapped, Mapped', NEW p \in Proc, RwDone(p),
         pc[p] = "reading"
  PROVE  S!SNext
<1>1. /\ UNCHANGED <<bno, data, cur>> /\ Finish(p)
      /\ valid' = [valid EXCEPT ![cur[p]] = TRUE]
      /\ pc' = [pc EXCEPT ![p] = "have"]
  BY Zenon DEF RwDone, Goto
<1>2. Finished(p)
  BY <1>1, FinishShape, Zenon
<1>3. disk' = disk /\ data[cur[p]] = disk[bno[cur[p]]]
  BY <1>1, <1>2, RequestOver, Zenon DEF Finished
<1>4. pc'[p] = "have" /\ \A q \in Proc : q # p => pc'[q] = pc[q]
  BY <1>1, Zenon DEF DiskInv, CacheTypes
<1>5. PICK b \in Buf : b = cur[p] /\ bno[b] \in BlockNo /\ bno[b] # NoBlock
  BY ThreadBuffer, Zenon
<1>6. PICK n \in BlockNo : n = bno[b]
  BY <1>5, Zenon
<1>7. /\ valid'[b] /\ ~valid[b]
      /\ \A c \in Buf : c # b => (valid'[c] <=> valid[c])
  BY <1>1, <1>5 DEF StoreInv, StoreTypes, Validity
<1>8. \A c \in Buf : bno[c] = n => c = b
  BY <1>5, <1>6, Zenon DEF StoreInv, OneBuffer
<1>9. ASSUME NEW m \in BlockNo PROVE Contents'[m] = Contents[m]
  <2>1. CASE m = n
    <3>1. Contents[n] = disk[n]
      BY <1>7, <1>8, Zenon DEF Mapped
    <3>2. Contents'[n] = data'[b]
      BY <1>1, <1>6, <1>7, Zenon DEF Mapped
    <3> QED BY <1>1, <1>3, <1>5, <1>6, <2>1, <3>1, <3>2, Zenon
  <2>2. CASE m # n /\ \E c \in Buf : valid[c] /\ bno[c] = m
    <3>1. PICK c \in Buf : valid[c] /\ bno[c] = m /\ c # b
      BY <1>6, <2>2, Zenon
    <3>2. Contents[m] = data[c]
      BY <3>1, Zenon DEF Mapped
    <3>3. valid'[c] /\ bno'[c] = m /\ data'[c] = data[c]
      BY <1>1, <1>7, <3>1, Zenon
    <3>4. Contents'[m] = data'[c]
      BY <3>3, Zenon DEF Mapped
    <3> QED BY <3>2, <3>3, <3>4, Zenon
  <2>3. CASE m # n /\ \A c \in Buf : valid[c] => bno[c] # m
    <3>1. \A c \in Buf : valid'[c] => bno'[c] # m
      BY <1>1, <1>6, <1>7, <2>3, Zenon
    <3> QED BY <1>3, <2>3, <3>1, Zenon DEF Mapped
  <2> QED BY <2>1, <2>2, <2>3, Zenon
<1>10. Contents' = Contents
  BY <1>9, SameStore, Zenon
<1>11. Using(n) = {}
  <2> SUFFICES ASSUME NEW q \in Using(n) PROVE FALSE
    BY Zenon
  <2>1. q \in Proc /\ pc[q] \in {"have", "writing"} /\ bno[cur[q]] = n
    BY Zenon DEF Using
  <2>2. cur[q] = b
    BY <1>8, <2>1, ThreadBuffer, Zenon
  <2> QED BY <1>5, <2>1, <2>2, ThreadBuffer, Zenon DEF Holders
<1>12. Using(n)' = {p} /\ \A m \in BlockNo : m # n => Using(m)' = Using(m)
  BY <1>1, <1>4, <1>5, <1>6, <1>11, UsingGains, Zenon
<1>13. Holder[n] = Nobody /\ Holder' = [Holder EXCEPT ![n] = p]
  BY <1>11, <1>12, BlockTaken, Zenon
<1>14. S!Take(p, n)
  BY <1>10, <1>13, Zenon DEF S!Take
<1> QED BY <1>14, Zenon DEF S!SNext

\* The holder changes the contents of its block.
LEMMA PutMaps ==
  ASSUME DiskInv, StoreInv, Mapped, Mapped', NEW p \in Proc, pc[p] = "have",
         pc'[p] \in {"have", "writing"},
         \A q \in Proc : q # p => pc'[q] = pc[q],
         UNCHANGED <<bno, cur, valid, disk>>,
         NEW v \in Val, data' = [data EXCEPT ![cur[p]] = v]
  PROVE  S!SNext
<1>1. PICK b \in Buf : b = cur[p] /\ bno[b] \in BlockNo /\ bno[b] # NoBlock
  BY ThreadBuffer, Zenon
<1>2. PICK n \in BlockNo : n = bno[b]
  BY <1>1, Zenon
<1>3. data'[b] = v /\ \A c \in Buf : c # b => data'[c] = data[c]
  BY <1>1, HolderChanges, Zenon
<1>4. valid[b]
  BY <1>1, Zenon DEF StoreInv, Validity
<1>5. Contents'[n] = v
  BY <1>2, <1>3, <1>4, Zenon DEF Mapped
<1>6. ASSUME NEW m \in BlockNo, m # n PROVE Contents'[m] = Contents[m]
  <2>1. CASE \E c \in Buf : valid[c] /\ bno[c] = m
    <3>1. PICK c \in Buf : valid[c] /\ bno[c] = m /\ c # b
      BY <1>2, <1>6, <2>1, Zenon
    <3>2. Contents[m] = data[c]
      BY <3>1, Zenon DEF Mapped
    <3>3. Contents'[m] = data'[c]
      BY <3>1, Zenon DEF Mapped
    <3> QED BY <1>3, <3>1, <3>2, <3>3, Zenon
  <2>2. CASE \A c \in Buf : valid[c] => bno[c] # m
    BY <2>2, Zenon DEF Mapped
  <2> QED BY <2>1, <2>2, Zenon
<1>7. Contents' = [Contents EXCEPT ![n] = v]
  <2>1. Contents = [m \in BlockNo |-> Contents[m]]
    BY StoreFunctions, Zenon
  <2>2. Contents' = [m \in BlockNo |-> Contents'[m]]
    BY StoreFunctions, Zenon
  <2>3. [Contents EXCEPT ![n] = v]
          = [m \in BlockNo |-> IF m = n THEN v ELSE Contents[m]]
    BY <2>1
  <2>4. \A m \in BlockNo : Contents'[m] = IF m = n THEN v ELSE Contents[m]
    BY <1>5, <1>6, Zenon
  <2> QED BY <2>2, <2>3, <2>4, Zenon
<1>8. \A m \in BlockNo : Using(m)' = Using(m)
  BY Zenon DEF Using
<1>9. Holder' = Holder /\ Holder[n] = p
  <2>1. p \in Using(n)
    BY <1>1, <1>2, Zenon DEF Using
  <2> QED BY <1>8, <2>1, SameStore, Zenon DEF Mapped
<1>10. S!Put(p, n, v)
  BY <1>7, <1>9, Zenon DEF S!Put
<1> QED BY <1>10, Zenon DEF S!SNext

\* brelse() gives the block back.
LEMMA ReleaseMaps ==
  ASSUME DiskInv, StoreInv, Mapped, Mapped', NEW p \in Proc, ReleaseSleep(p)
  PROVE  S!SNext
<1>1. /\ UNCHANGED <<bno, data, valid, disk, cur>> /\ pc[p] = "have"
      /\ pc' = [pc EXCEPT ![p] = "drop"]
  BY Zenon DEF ReleaseSleep, Here, Goto, diskVars
<1>2. pc'[p] = "drop" /\ \A q \in Proc : q # p => pc'[q] = pc[q]
  BY <1>1, Zenon DEF DiskInv, CacheTypes
<1>3. PICK n \in BlockNo : n = bno[cur[p]]
  BY <1>1, ThreadBuffer, Zenon
<1>4. p \in Using(n)
  BY <1>1, <1>3, Zenon DEF Using
<1>5. Using(n) = {p}
  BY <1>4, Zenon DEF Mapped
<1>6. \A m \in BlockNo, q \in Proc : q # p => (q \in Using(m)' <=> q \in Using(m))
  BY <1>1, <1>2, Zenon DEF Using
<1>7. \A m \in BlockNo : p \notin Using(m)' /\ (p \in Using(m) => m = n)
  BY <1>1, <1>2, <1>3, Zenon DEF Using
<1>8. \A m \in BlockNo : Using(m)' \subseteq Proc /\ Using(m) \subseteq Proc
  BY Zenon DEF Using
<1>9. Using(n)' = {}
  <2>1. \A q \in Using(n)' : q \in Proc /\ q # p /\ q \in Using(n)
    BY <1>6, <1>7, <1>8, Zenon
  <2> QED BY <1>5, <2>1, Zenon
<1>10. ASSUME NEW m \in BlockNo, m # n PROVE Using(m)' = Using(m)
  <2>1. \A q \in Using(m)' : q \in Using(m)
    BY <1>6, <1>7, <1>8, Zenon
  <2>2. \A q \in Using(m) : q \in Using(m)'
    BY <1>6, <1>7, <1>8, <1>10, Zenon
  <2> QED BY <2>1, <2>2, Zenon
<1>11. Holder[n] = p /\ Holder' = [Holder EXCEPT ![n] = Nobody]
  BY <1>5, <1>9, <1>10, BlockGiven, Zenon
<1>12. Contents' = Contents
  BY <1>1, ContentsKept, Zenon
<1>13. S!Release(p, n)
  BY <1>11, <1>12, Zenon DEF S!Release
<1> QED BY <1>13, Zenon DEF S!SNext

\* The end of a write: the thread still has the block.
LEMMA WriteDoneMaps ==
  ASSUME DiskInv, StoreInv, Mapped, Mapped', NEW p \in Proc, RwDone(p),
         pc[p] = "writing"
  PROVE  UNCHANGED S!svars
<1>1. /\ UNCHANGED <<bno, data, valid, cur>> /\ Finish(p)
      /\ pc' = [pc EXCEPT ![p] = "have"]
  BY Zenon DEF RwDone, Goto
<1>2. disk' = disk
  BY <1>1, FinishShape, Zenon DEF Finished
<1>3. pc'[p] = "have" /\ \A q \in Proc : q # p => pc'[q] = pc[q]
  BY <1>1, Zenon DEF DiskInv, CacheTypes
<1>4. \A m \in BlockNo : Using(m)' = Using(m)
  BY <1>1, <1>3, Zenon DEF Using
<1> QED BY <1>1, <1>2, <1>4, ContentsKept, Stutters, Zenon

\* The device finishes a request: it writes what the store has for the
\* block, or reads into a buffer that is not valid.
LEMMA DeviceMaps ==
  ASSUME DiskInv, StoreInv, Mapped, Mapped', NEW i \in Desc, DeviceDone(i),
         UNCHANGED <<valid, pc, cur>>
  PROVE  UNCHANGED S!svars
<1>1. PICK p \in Requests, b \in Buf, n \in BlockNo : Transferred(i, p, b, n)
  BY DoneShape, Zenon
<1>2. /\ UNCHANGED bno /\ n = bno[b] /\ n # NoBlock
      /\ b = cur[p] /\ p \in Proc /\ rw[p].at # "none"
      /\ IF rw[p].write
         THEN disk' = [disk EXCEPT ![n] = data[b]] /\ data' = data
         ELSE data' = [data EXCEPT ![b] = disk[n]] /\ disk' = disk
  BY <1>1, Zenon DEF Transferred
<1>3. data \in [Buf -> Val] /\ disk \in [BlockNo -> Val]
  BY Zenon DEF StoreInv, StoreTypes
<1>4. pc[p] = IF rw[p].write THEN "writing" ELSE "reading"
  BY <1>2, Zenon DEF StoreInv, Directed, DiskInv, Locking
<1>5. IF rw[p].write THEN valid[b] ELSE ~valid[b]
  BY <1>2, <1>4, Zenon DEF StoreInv, Validity
<1>6. \A c \in Buf : bno[c] = n => c = b
  BY <1>2, Zenon DEF StoreInv, OneBuffer
<1>7. ASSUME NEW m \in BlockNo PROVE Contents'[m] = Contents[m]
  <2>1. CASE \E c \in Buf : valid[c] /\ bno[c] = m
    <3>1. PICK c \in Buf : valid[c] /\ bno[c] = m
      BY <2>1, Zenon
    <3>2. Contents[m] = data[c]
      BY <3>1, Zenon DEF Mapped
    <3>3. valid'[c] /\ bno'[c] = m
      BY <1>2, <3>1, Zenon
    <3>4. Contents'[m] = data'[c]
      BY <3>3, Zenon DEF Mapped
    <3>5. data'[c] = data[c]
      BY <1>2, <1>3, <1>5, <3>1, Zenon
    <3> QED BY <3>2, <3>4, <3>5, Zenon
  <2>2. CASE \A c \in Buf : valid[c] => bno[c] # m
    <3>1. disk'[m] = disk[m]
      BY <1>2, <1>3, <1>5, <2>2, Zenon
    <3>2. \A c \in Buf : valid'[c] => bno'[c] # m
      BY <1>2, <2>2, Zenon
    <3>3. Contents[m] = disk[m]
      BY <2>2, Zenon DEF Mapped
    <3>4. Contents'[m] = disk'[m]
      BY <3>2, Zenon DEF Mapped
    <3> QED BY <3>1, <3>3, <3>4, Zenon
  <2> QED BY <2>1, <2>2, Zenon
<1>8. \A m \in BlockNo : Using(m)' = Using(m)
  BY <1>2, Zenon DEF Using
<1> QED BY <1>7, <1>8, Stutters, Zenon

\* The steps of the driver, and a request that the device picks up.
LEMMA DriverMaps ==
  ASSUME Mapped, Mapped', UNCHANGED <<bno, data, valid, disk, pc, cur>>
  PROVE  UNCHANGED S!svars
<1>1. \A m \in BlockNo : Using(m)' = Using(m)
  BY Zenon DEF Using
<1> QED BY <1>1, ContentsKept, Stutters, Zenon

\* Initially nobody has a block, and the disk is all there is.
LEMMA StoreInits == Init => S!SInit
<1> SUFFICES ASSUME Init PROVE S!SInit
  BY Zenon
<1>1. /\ \A p \in Proc : pc[p] = "idle"
      /\ \A b \in Buf : ~valid[b]
      /\ disk = [n \in BlockNo |-> Zero]
  BY Zenon DEF Init, DiskInit
<1>2. \A n \in BlockNo : Using(n) = {} /\ ~\E b \in Cached(n) : valid[b]
  BY <1>1, Zenon DEF Using, Cached
<1>3. Contents = [n \in BlockNo |-> Zero]
  BY <1>1, <1>2, Zenon DEF Contents
<1>4. Holder = [n \in BlockNo |-> Nobody]
  BY <1>2 DEF Holder
<1> QED BY <1>3, <1>4, Zenon DEF S!SInit

\* Every step of the cache, the driver and the device is a step of the block
\* store or leaves it alone.
LEMMA StoreNext ==
  DiskInv /\ StoreInv /\ Mapped /\ Mapped' /\ [Next]_vars => [S!SNext]_S!svars
<1> SUFFICES ASSUME DiskInv, StoreInv, Mapped, Mapped', [Next]_vars
             PROVE  S!SNext \/ UNCHANGED S!svars
  BY Zenon
<1>0. BuffersFound /\ DescsFound /\ RingRoom
  BY RingHasRoom, ThreeDescs, ListPicks, Zenon DEF DiskInv
<1>1. ASSUME NEW p \in Proc, Bget(p) \/ Bread(p) \/ ReleaseSleep(p) \/ Drop(p)
      PROVE  S!SNext \/ UNCHANGED S!svars
  BY <1>0, <1>1, BgetDropMaps, BreadMaps, ReleaseMaps, Zenon
<1>2. ASSUME NEW p \in Proc, RwDone(p) PROVE S!SNext \/ UNCHANGED S!svars
  <2>1. pc[p] = "reading" \/ pc[p] = "writing"
    BY <1>2, Zenon DEF RwDone, Here
  <2> QED BY <1>2, <2>1, ReadDoneMaps, WriteDoneMaps, Zenon
<1>3. ASSUME NEW p \in Proc, Bwrite(p) PROVE S!SNext
  <2>1. PICK v \in Val : data' = [data EXCEPT ![cur[p]] = v]
    BY <1>3, Zenon DEF Bwrite
  <2>2. /\ pc[p] = "have" /\ pc' = [pc EXCEPT ![p] = "writing"]
        /\ UNCHANGED <<bno, cur, valid, disk>>
    BY <1>3, Zenon DEF Bwrite, Here, Goto
  <2>3. pc'[p] \in {"have", "writing"} /\ \A q \in Proc : q # p => pc'[q] = pc[q]
    BY <2>2, Zenon DEF DiskInv, CacheTypes
  <2> QED BY <2>1, <2>2, <2>3, PutMaps, Zenon
<1>4. ASSUME NEW p \in Proc, LogWrite(p) PROVE S!SNext
  <2>1. PICK v \in Val : data' = [data EXCEPT ![cur[p]] = v]
    BY <1>4, Zenon DEF LogWrite
  <2>2. pc[p] = "have" /\ UNCHANGED <<bno, cur, valid, disk, pc>>
    BY <1>4, Zenon DEF LogWrite, Here, threadVars, diskVars
  <2>3. pc'[p] \in {"have", "writing"} /\ \A q \in Proc : q # p => pc'[q] = pc[q]
    BY <2>2, Zenon
  <2> QED BY <2>1, <2>2, <2>3, PutMaps, Zenon
<1>5. CASE Driver
  <2>1. UNCHANGED <<bno, data, valid, pc, cur>>
    BY <1>5, Zenon DEF Driver, cacheVars, threadVars
  <2>2. UNCHANGED disk
    BY <1>5, Zenon DEF Driver, NoDescs, Submit, SleepAgain, IntrAck, IntrEntry,
                       IntrDone
  <2> QED BY <2>1, <2>2, DriverMaps, Zenon
<1>6. CASE Device /\ UNCHANGED <<cacheVars, threadVars>>
  <2>1. UNCHANGED <<valid, pc, cur>>
    BY <1>6, Zenon DEF cacheVars, threadVars
  <2>2. CASE DeviceTake
    <3>1. UNCHANGED <<bno, data, disk>>
      BY <2>2, Zenon DEF DeviceTake
    <3> QED BY <2>1, <3>1, DriverMaps, Zenon
  <2> QED BY <1>6, <2>1, <2>2, DeviceMaps, Zenon DEF Device
<1>7. CASE UNCHANGED vars
  <2>1. UNCHANGED <<bno, data, valid, disk, pc, cur>>
    BY <1>7, Zenon DEF vars, diskVars, cacheVars, threadVars
  <2> QED BY <2>1, DriverMaps, Zenon
<1> QED BY <1>1, <1>2, <1>3, <1>4, <1>5, <1>6, <1>7, Zenon DEF Next

\* The buffer cache is the block store that its users rely on: each block has
\* one contents, which bread() returns to one thread at a time and only that
\* thread changes, with bwrite() or log_write(), whatever bget() recycles and
\* in whatever order the device works (bio.c on top of virtio_disk.c).
THEOREM CacheIsBlockStore == Spec => ImplementsBlockStore
<1>1. Spec => [](DiskInv /\ StoreInv)
  BY DiskStart, DiskStep, StoreStart, StoreStep, PTL DEF Spec
<1> QED BY <1>1, StoreMapped, StoreInits, StoreNext, PTL
        DEF Spec, ImplementsBlockStore, S!SSpec
=============================================================================
