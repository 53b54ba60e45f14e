----------------------------- MODULE VirtioDisk -----------------------------
(***************************************************************************)
(* The disk driver (kernel/virtio_disk.c) and the device it drives.  A     *)
(* request takes three descriptors, waits for them if need be, is put on   *)
(* the available ring, and sleeps until the interrupt handler has found it *)
(* on the used ring.  The device (external) takes entries in order and     *)
(* completes them in any order.                                            *)
(*                                                                         *)
(* Each critical section under vdisk_lock is one step, except that of the  *)
(* interrupt handler: the device does not know about the lock and may add  *)
(* entries to the used ring between two rounds of the handler's loop.      *)
(***************************************************************************)
EXTENDS Integers, FiniteSets

CONSTANTS
  Proc,      \* threads that use the disk
  NBUF,      \* number of buffers
  BlockNo,   \* block numbers
  NoBlock,   \* the block number of a buffer not yet used
  Val,       \* contents of a block
  Zero,      \* contents of every block of a fresh disk
  NUM,       \* descriptors, and entries of each ring
  IDXMOD     \* range of the ring indices, 65536 in the code

ASSUME DiskAssumption ==
  /\ NUM \in Nat /\ NUM >= 3 /\ IDXMOD \in Nat /\ IDXMOD > 0
  /\ IDXMOD % NUM = 0
  /\ NBUF \in Nat /\ Zero \in Val /\ NoBlock \notin BlockNo

Desc == 0 .. NUM - 1
Buf == 1 .. NBUF
NoBuf == 0

VARIABLES
  free,      \* disk.free
  desc,      \* disk.desc: what addr points to (a buffer, or the command
             \* header in disk.ops), next, VRING_DESC_F_NEXT
  info,      \* disk.info: buffer and status
  avail,     \* available ring and index
  used,      \* used ring and index
  used_idx,  \* how far the handler has looked
  rw,        \* virtio_disk_rw() of each thread
  busy,      \* b->disk
  bno,       \* b->blockno
  data,      \* b->data
  disk,      \* contents of the disk
  device,    \* device: how far it has looked, requests in work, interrupt
  handling   \* virtio_disk_intr() holds vdisk_lock

queueVars == <<free, desc, info, avail>>
diskVars == <<queueVars, used, used_idx, rw, busy, disk, device, handling>>

NoOp == [write |-> FALSE, sector |-> NoBlock]
NoDesc == [op |-> NoOp, addr |-> NoBuf, next |-> 0, more |-> FALSE]
NoRequest == [at |-> "none", buf |-> NoBuf, write |-> FALSE, idx |-> 0]

\* virtio_disk_init().
DiskInit ==
  /\ free = [i \in Desc |-> TRUE]
  /\ desc = [i \in Desc |-> NoDesc]
  /\ info = [i \in Desc |-> [b |-> NoBuf, status |-> 0]]
  /\ avail = [ring |-> [i \in Desc |-> 0], idx |-> 0]
  /\ used = [ring |-> [i \in Desc |-> 0], idx |-> 0]
  /\ used_idx = 0
  /\ rw = [p \in Proc |-> NoRequest]
  /\ busy = [b \in Buf |-> FALSE]
  /\ disk = [n \in BlockNo |-> Zero]
  /\ device = [seen |-> 0, work |-> {}, intr |-> FALSE]
  /\ handling = FALSE

At(p, at) == rw[p].at = at /\ ~handling

\* wakeup(&disk.free[0]) and wakeup(b), for threads other than p.
WakeFree(p, r) == [q \in Proc |-> IF q # p /\ r[q].at = "no_desc"
                                  THEN [r[q] EXCEPT !.at = "try"] ELSE r[q]]
WakeBuf(b, r) == [q \in Proc |-> IF r[q].at = "asleep" /\ r[q].buf = b
                                 THEN [r[q] EXCEPT !.at = "awake"] ELSE r[q]]

-----------------------------------------------------------------------------
(* virtio_disk_rw(). *)

Request(p, b, write) ==
  rw' = [rw EXCEPT ![p] = [at |-> "try", buf |-> b, write |-> write, idx |-> 0]]

FreeDescs == {i \in Desc : free[i]}

\* What a loop from the start of an array finds first.
Lowest(S) == CHOOSE i \in S : \A j \in S : i <= j

\* alloc3_desc() runs out of descriptors: those it took are freed again,
\* with a wakeup each, and the thread sleeps.
NoDescs(p) ==
  /\ At(p, "try") /\ Cardinality(FreeDescs) < 3
  /\ rw' = LET r == [rw EXCEPT ![p].at = "no_desc"]
           IN  IF FreeDescs = {} THEN r ELSE WakeFree(p, r)
  /\ UNCHANGED <<queueVars, used, used_idx, busy, disk, device, handling>>

\* alloc_desc() scans from 0; then the request is formatted and announced.
Submit(p) ==
  LET b == rw[p].buf
      i0 == Lowest(FreeDescs)
      i1 == Lowest(FreeDescs \ {i0})
      i2 == Lowest(FreeDescs \ {i0, i1})
  IN  /\ At(p, "try") /\ Cardinality(FreeDescs) >= 3
      /\ free' = [free EXCEPT ![i0] = FALSE, ![i1] = FALSE, ![i2] = FALSE]
      /\ desc' = [desc EXCEPT
                     ![i0] = [op |-> [write |-> rw[p].write, sector |-> bno[b]],
                              addr |-> NoBuf, next |-> i1, more |-> TRUE],
                     ![i1] = [op |-> NoOp, addr |-> b, next |-> i2, more |-> TRUE],
                     ![i2] = NoDesc]
      /\ info' = [info EXCEPT ![i0] = [b |-> b, status |-> 255]]
      /\ busy' = [busy EXCEPT ![b] = TRUE]
      /\ avail' = [ring |-> [avail.ring EXCEPT ![avail.idx % NUM] = i0],
                   idx |-> (avail.idx + 1) % IDXMOD]
      /\ rw' = [rw EXCEPT ![p].at = "asleep", ![p].idx = i0]
      /\ UNCHANGED <<used, used_idx, disk, device, handling>>

\* Woken up while the request is still with the device.
SleepAgain(p) ==
  /\ At(p, "awake") /\ busy[rw[p].buf]
  /\ rw' = [rw EXCEPT ![p].at = "asleep"]
  /\ UNCHANGED <<queueVars, used, used_idx, busy, disk, device, handling>>

\* The descriptors that free_chain(i) visits.
Chain(i) ==
  LET j == desc[i].next
      k == desc[j].next
  IN  IF ~desc[i].more THEN {i}
      ELSE IF ~desc[j].more THEN {i, j} ELSE {i, j, k}

FreeChain(i) ==
  /\ free' = [j \in Desc |-> free[j] \/ j \in Chain(i)]
  /\ desc' = [j \in Desc |-> IF j \in Chain(i) THEN NoDesc ELSE desc[j]]

\* The request has finished: the descriptors are free again.
Finish(p) ==
  /\ At(p, "awake") /\ ~busy[rw[p].buf]
  /\ info' = [info EXCEPT ![rw[p].idx].b = NoBuf]
  /\ FreeChain(rw[p].idx)
  /\ rw' = WakeFree(p, [rw EXCEPT ![p] = NoRequest])
  /\ UNCHANGED <<avail, used, used_idx, busy, disk, device, handling>>

-----------------------------------------------------------------------------
(* virtio_disk_intr(). *)

\* The interrupt is acknowledged first.
IntrAck ==
  /\ device.intr /\ ~handling
  /\ handling' = TRUE
  /\ device' = [device EXCEPT !.intr = FALSE]
  /\ UNCHANGED <<queueVars, used, used_idx, rw, busy, disk>>

\* Mutant: the newest entry is looked at, not the next one.
IntrEntry_Newest ==
  /\ handling /\ used_idx # used.idx
  /\ LET b == info[used.ring[(used.idx + NUM - 1) % NUM]].b
     IN  /\ busy' = [busy EXCEPT ![b] = FALSE]
         /\ rw' = WakeBuf(b, rw)
  /\ used_idx' = (used_idx + 1) % IDXMOD
  /\ UNCHANGED <<queueVars, used, disk, device, handling>>

\* One round of the loop.
IntrEntry ==
  /\ handling /\ used_idx # used.idx
  /\ LET b == info[used.ring[used_idx % NUM]].b
     IN  /\ busy' = [busy EXCEPT ![b] = FALSE]
         /\ rw' = WakeBuf(b, rw)
  /\ used_idx' = (used_idx + 1) % IDXMOD
  /\ UNCHANGED <<queueVars, used, disk, device, handling>>

\* Mutant: one entry per interrupt.
IntrDone_OneEntry ==
  /\ handling
  /\ handling' = FALSE
  /\ UNCHANGED <<queueVars, used, used_idx, rw, busy, disk, device>>

IntrDone ==
  /\ handling /\ used_idx = used.idx
  /\ handling' = FALSE
  /\ UNCHANGED <<queueVars, used, used_idx, rw, busy, disk, device>>

-----------------------------------------------------------------------------
(* The device. *)

DeviceTake ==
  /\ device.seen # avail.idx
  /\ device' = [device EXCEPT !.seen = (@ + 1) % IDXMOD,
                              !.work = @ \cup {avail.ring[device.seen % NUM]}]
  /\ UNCHANGED <<queueVars, used, used_idx, rw, busy, bno, data, disk, handling>>

\* The transfer between the addressed buffer and the sector, the status,
\* the entry on the used ring, the interrupt.
DeviceDone(i) ==
  LET b == desc[desc[i].next].addr
      n == desc[i].op.sector
  IN  /\ i \in device.work
      /\ IF desc[i].op.write
         THEN disk' = [disk EXCEPT ![n] = data[b]] /\ UNCHANGED data
         ELSE data' = [data EXCEPT ![b] = disk[n]] /\ UNCHANGED disk
      /\ info' = [info EXCEPT ![i].status = 0]
      /\ used' = [ring |-> [used.ring EXCEPT ![used.idx % NUM] = i],
                  idx |-> (used.idx + 1) % IDXMOD]
      /\ device' = [device EXCEPT !.work = @ \ {i}, !.intr = TRUE]
      /\ UNCHANGED <<free, desc, avail, used_idx, rw, busy, bno, handling>>

Device == DeviceTake \/ \E i \in Desc : DeviceDone(i)
=============================================================================
