------------------------------- MODULE Bcache -------------------------------
(***************************************************************************)
(* The buffer cache (kernel/bio.c) on top of the disk driver: bget, bread, *)
(* bwrite, brelse, bpin and bunpin, called by several threads.             *)
(*                                                                         *)
(* Critical sections under bcache.lock are steps.  A buffer's sleep lock   *)
(* is taken when it is free; the sleeping itself is the subject of module  *)
(* Proc.  A thread that changes a block either writes it at once (bwrite)  *)
(* or pins it for the log (log_write), which writes and unpins it later    *)
(* (install_trans).                                                        *)
(***************************************************************************)
EXTENDS VirtioDisk

CONSTANTS Nobody, MaxCalls  \* bound: calls of bread(), bwrite() and log_write()

ASSUME CacheAssumption == Nobody \notin Proc /\ MaxCalls \in Nat

VARIABLES
  lru,       \* the list from bcache.head.next, most recent first
  valid, refcnt,
  lock,      \* owner of b->lock
  pc, cur,   \* what each thread does, and to which buffer
  logged,    \* blocks that the log has pinned
  panicked,
  calls

cacheVars == <<lru, valid, refcnt, lock, logged, panicked, calls>>
threadVars == <<pc, cur>>
vars == <<diskVars, bno, data, cacheVars, threadVars>>

\* binit(): the last buffer of the array is first in the list.
Init ==
  /\ DiskInit
  /\ bno = [b \in Buf |-> NoBlock]
  /\ data = [b \in Buf |-> Zero]
  /\ lru = [i \in Buf |-> NBUF + 1 - i]
  /\ valid = [b \in Buf |-> FALSE]
  /\ refcnt = [b \in Buf |-> 0]
  /\ lock = [b \in Buf |-> Nobody]
  /\ pc = [p \in Proc |-> "idle"]
  /\ cur = [p \in Proc |-> NoBuf]
  /\ logged = {}
  /\ panicked = FALSE
  /\ calls = 0

Goto(p, at) == pc' = [pc EXCEPT ![p] = at]
Here(p, at) == ~panicked /\ pc[p] = at

-----------------------------------------------------------------------------
(* bget(). *)

Cached(n) == {b \in Buf : bno[b] = n}

\* The first buffer of S in the list, and the last one.
Highest(S) == CHOOSE i \in S : \A j \in S : i >= j
First(S) == lru[Lowest({i \in Buf : lru[i] \in S})]
Oldest(S) == lru[Highest({i \in Buf : lru[i] \in S})]

\* Mutant: any buffer that is not locked may be recycled.
Unused_Unlocked == {b \in Buf : lock[b] = Nobody}

Unused == {b \in Buf : refcnt[b] = 0}

Hit(p, n) ==
  /\ Cached(n) # {}
  /\ LET b == First(Cached(n))
     IN  /\ refcnt' = [refcnt EXCEPT ![b] = @ + 1]
         /\ cur' = [cur EXCEPT ![p] = b]
  /\ Goto(p, "lock")
  /\ UNCHANGED <<bno, valid, panicked>>

Recycle(p, n) ==
  /\ Cached(n) = {} /\ Unused # {}
  /\ LET b == Oldest(Unused)
     IN  /\ bno' = [bno EXCEPT ![b] = n]
         /\ valid' = [valid EXCEPT ![b] = FALSE]
         /\ refcnt' = [refcnt EXCEPT ![b] = 1]
         /\ cur' = [cur EXCEPT ![p] = b]
  /\ Goto(p, "lock")
  /\ UNCHANGED panicked

NoBuffers(p, n) ==
  /\ Cached(n) = {} /\ Unused = {}
  /\ panicked' = TRUE
  /\ UNCHANGED <<bno, valid, refcnt, pc, cur>>

Bget(p) ==
  /\ Here(p, "idle") /\ calls < MaxCalls
  /\ calls' = calls + 1
  /\ \E n \in BlockNo : Hit(p, n) \/ Recycle(p, n) \/ NoBuffers(p, n)
  /\ UNCHANGED <<diskVars, data, lru, lock, logged>>

-----------------------------------------------------------------------------
(* bread(), bwrite(). *)

\* acquiresleep() at the end of bget(); bread() finds the buffer valid, or
\* reads the block.
Bread(p) ==
  /\ Here(p, "lock") /\ lock[cur[p]] = Nobody
  /\ lock' = [lock EXCEPT ![cur[p]] = p]
  /\ IF valid[cur[p]] THEN Goto(p, "have") /\ UNCHANGED rw
                      ELSE Goto(p, "reading") /\ Request(p, cur[p], FALSE)
  /\ UNCHANGED <<queueVars, used, used_idx, busy, bno, data, disk, device,
                 handling, lru, valid, refcnt, logged, panicked, calls, cur>>

\* The holder changes the block and writes it; install_trans() writes what
\* the log holds for it.
Bwrite(p) ==
  /\ Here(p, "have") /\ calls < MaxCalls
  /\ calls' = calls + 1
  /\ \E v \in Val :
       /\ (bno[cur[p]] \in logged) <=> (v = data[cur[p]])
       /\ data' = [data EXCEPT ![cur[p]] = v]
  /\ Request(p, cur[p], TRUE)
  /\ Goto(p, "writing")
  /\ UNCHANGED <<queueVars, used, used_idx, busy, bno, disk, device, handling,
                 lru, valid, refcnt, lock, logged, panicked, cur>>

\* The end of virtio_disk_rw() and what follows it: a read makes the buffer
\* valid, the write of a logged block is followed by bunpin().
RwDone(p) ==
  /\ Here(p, "reading") \/ Here(p, "writing")
  /\ Finish(p)
  /\ IF pc[p] = "reading"
     THEN valid' = [valid EXCEPT ![cur[p]] = TRUE] /\ UNCHANGED <<refcnt, logged>>
     ELSE /\ refcnt' = [refcnt EXCEPT ![cur[p]] =
                          IF bno[cur[p]] \in logged THEN @ - 1 ELSE @]
          /\ logged' = logged \ {bno[cur[p]]}
          /\ UNCHANGED valid
  /\ Goto(p, "have")
  /\ UNCHANGED <<bno, data, lru, lock, panicked, calls, cur>>

\* The holder changes the block and calls log_write().
LogWrite(p) ==
  /\ Here(p, "have") /\ calls < MaxCalls
  /\ calls' = calls + 1
  /\ \E v \in Val : v # data[cur[p]] /\ data' = [data EXCEPT ![cur[p]] = v]
  /\ logged' = logged \cup {bno[cur[p]]}
  /\ refcnt' = [refcnt EXCEPT ![cur[p]] =
                  IF bno[cur[p]] \in logged THEN @ ELSE @ + 1]
  /\ UNCHANGED <<diskVars, bno, lru, valid, lock, panicked, threadVars>>

-----------------------------------------------------------------------------
(* brelse(). *)

ReleaseSleep(p) ==
  /\ Here(p, "have")
  /\ lock' = [lock EXCEPT ![cur[p]] = Nobody]
  /\ Goto(p, "drop")
  /\ UNCHANGED <<diskVars, bno, data, lru, valid, refcnt, logged, panicked,
                 calls, cur>>

\* Buffer b leaves its place in the list and is linked in at the front.
ToFront(b) ==
  LET k == CHOOSE i \in Buf : lru[i] = b
  IN  [i \in Buf |-> IF i = 1 THEN b
                     ELSE IF i <= k THEN lru[i - 1] ELSE lru[i]]

Drop(p) ==
  LET b == cur[p]
  IN  /\ Here(p, "drop")
      /\ refcnt' = [refcnt EXCEPT ![b] = @ - 1]
      /\ lru' = IF refcnt[b] = 1 THEN ToFront(b) ELSE lru
      /\ Goto(p, "idle")
      /\ cur' = [cur EXCEPT ![p] = NoBuf]
      /\ UNCHANGED <<diskVars, bno, data, valid, lock, logged, panicked, calls>>

-----------------------------------------------------------------------------
Driver ==
  /\ \/ \E p \in Proc : NoDescs(p) \/ Submit(p) \/ SleepAgain(p)
     \/ IntrAck \/ IntrEntry \/ IntrDone
  /\ UNCHANGED <<bno, data, cacheVars, threadVars>>

Next ==
  \/ \E p \in Proc :
       \/ Bget(p) \/ Bread(p) \/ Bwrite(p) \/ LogWrite(p) \/ RwDone(p)
       \/ ReleaseSleep(p) \/ Drop(p)
  \/ Driver
  \/ Device /\ UNCHANGED <<cacheVars, threadVars>>

Spec == Init /\ [][Next]_vars

-----------------------------------------------------------------------------
(* Properties. *)

Requests == {p \in Proc : rw[p].at \in {"asleep", "awake"}}
ChainOf(p) == Chain(rw[p].idx)

\* Descriptors are neither lost nor shared: those in use are the chains of
\* three of the requests in progress (free_desc() never panics).
ChainsOwned ==
  /\ {i \in Desc : ~free[i]} = UNION {ChainOf(p) : p \in Requests}
  /\ \A p \in Requests : Cardinality(ChainOf(p)) = 3
  /\ \A p, q \in Requests : p # q => ChainOf(p) \cap ChainOf(q) = {}

\* The entries of a ring from one index up to another.
Ahead(from, to) == (to + IDXMOD - from) % IDXMOD
Entries(ring, from, to) ==
  {ring[(from + k) % NUM] : k \in 0 .. Ahead(from, to) - 1}

Unseen == Entries(used.ring, used_idx, used.idx)
Announced == Entries(avail.ring, device.seen, avail.idx)

\* A completion that the handler has yet to see belongs to a request that
\* still waits for it, with its own buffer and a good status; and a request
\* that is told it has finished is no longer with the device.  Descriptors
\* belong to one request each (alloc3_desc, free_chain, virtio_disk_intr).
CompletionsMatch ==
  /\ ChainsOwned
  /\ \A i \in Unseen : \E p \in Requests :
       /\ rw[p].idx = i /\ busy[rw[p].buf]
       /\ info[i] = [b |-> rw[p].buf, status |-> 0]
  /\ \A p \in Requests : ~busy[rw[p].buf] =>
       rw[p].idx \notin device.work \cup Unseen

\* Every sleeping request will be woken: one that waits for its transfer is
\* still on a ring or in the device's hands with an interrupt to come, and
\* one that waits for descriptors waits for requests in progress.
SleepersWillWake ==
  \A p \in Proc :
    /\ rw[p].at = "asleep" =>
         \/ rw[p].idx \in Announced \cup device.work
         \/ rw[p].idx \in Unseen /\ (device.intr \/ handling)
    /\ rw[p].at = "no_desc" => Requests # {}
=============================================================================
