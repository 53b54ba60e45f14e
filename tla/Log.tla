-------------------------------- MODULE Log --------------------------------
(***************************************************************************)
(* The write-ahead log (kernel/log.c): begin_op, log_write, end_op, the    *)
(* commit that the last end_op runs, and recovery after a crash.  A crash  *)
(* can come between any two disk writes; one block is written atomically.  *)
(*                                                                         *)
(* The buffer cache appears as what the log needs of it: the cached        *)
(* contents of each block, and which blocks are pinned.  bget() may        *)
(* recycle any buffer that is not pinned.                                  *)
(***************************************************************************)
EXTENDS Integers, Sequences, FiniteSets, Functions

CONSTANTS
  Proc,         \* threads that make file system calls
  Faulting,     \* those whose calls may evict a page inside a transaction
  Block,        \* disk blocks outside the log
  Val,          \* contents of a block
  Zero,         \* contents of the blocks of a fresh image
  Absent,       \* a block that is not in the buffer cache
  MAXOPBLOCKS,  \* blocks reserved for one call
  LOGBLOCKS,    \* capacity of the log
  OPWRITES,     \* blocks that one call really writes
  MaxOps,       \* bound: calls of begin_op
  MaxCrashes    \* bound: crashes

ASSUME LogAssumption ==
  /\ IsFiniteSet(Proc) /\ Faulting \subseteq Proc
  /\ Zero \in Val /\ Absent \notin Val
  /\ {MAXOPBLOCKS, LOGBLOCKS, OPWRITES, MaxOps, MaxCrashes} \subseteq Nat

\* A call leaves a reserved block unused: log_write() panics on a full log
\* even for a block that is already in it.
ASSUME OpsFit == OPWRITES < MAXOPBLOCKS

VARIABLES
  pc,           \* where each thread is
  depth,        \* how many begin_op calls of the thread have no end_op yet
  wrote,        \* blocks written so far, by nesting depth
  tail,         \* loop index of write_log() and install_trans()
  outstanding,  \* log.outstanding
  committing,   \* log.committing
  lh,           \* log.lh: blocks of the current transaction
  cache,        \* buffer cache
  pinned,       \* blocks held by bpin()
  boot,         \* "up", or the step of recover_from_log()
  head,         \* disk: header block of the log
  log,          \* disk: data blocks of the log
  home,         \* disk: all other blocks
  panicked,
  ops, crashes  \* counters for the bounds

memVars == <<outstanding, committing, lh, cache, pinned>>
diskVars == <<head, log, home>>
vars == <<pc, depth, wrote, tail, memVars, boot, diskVars, panicked, ops,
          crashes>>

Slot == 1 .. LOGBLOCKS

Init ==
  /\ pc = [p \in Proc |-> "idle"]
  /\ depth = [p \in Proc |-> 0]
  /\ wrote = [p \in Proc |-> [d \in 1 .. 2 |-> {}]]
  /\ tail = 1
  /\ outstanding = 0 /\ committing = FALSE
  /\ lh = <<>>
  /\ cache = [b \in Block |-> Absent]
  /\ pinned = {}
  /\ boot = "up"
  /\ head = <<>>
  /\ log = [i \in Slot |-> Zero]
  /\ home = [b \in Block |-> Zero]
  /\ panicked = FALSE
  /\ ops = 0 /\ crashes = 0

Running(p, at) == ~panicked /\ boot = "up" /\ pc[p] = at

Goto(p, at) == pc' = [pc EXCEPT ![p] = at]

\* wakeup(&log) after p has moved on to another place.
GotoAndWake(p, at) ==
  pc' = [q \in Proc |-> IF q = p THEN at
                        ELSE IF pc[q] = "asleep" THEN "begin" ELSE pc[q]]

-----------------------------------------------------------------------------
(* begin_op(), log_write(), end_op(). *)

\* A file system call starts, or a call inside a transaction evicts a dirty
\* page, whose swap-out is a transaction of its own.
StartOp(p) ==
  /\ Running(p, "idle") \/ (Running(p, "op") /\ p \in Faulting /\ depth[p] = 1)
  /\ ops < MaxOps
  /\ ops' = ops + 1
  /\ Goto(p, "begin")
  /\ UNCHANGED <<depth, wrote, tail, memVars, boot, diskVars, panicked,
                 crashes>>

\* Mutant: running transactions are not counted.
MustWait_NoReservation ==
  committing \/ Len(lh) + MAXOPBLOCKS > LOGBLOCKS

MustWait == \/ committing
            \/ Len(lh) + (outstanding + 1) * MAXOPBLOCKS > LOGBLOCKS

BeginSleep(p) ==
  /\ Running(p, "begin") /\ MustWait
  /\ Goto(p, "asleep")
  /\ UNCHANGED <<depth, wrote, tail, memVars, boot, diskVars, panicked, ops,
                 crashes>>

BeginOp(p) ==
  /\ Running(p, "begin") /\ ~MustWait
  /\ outstanding' = outstanding + 1
  /\ depth' = [depth EXCEPT ![p] = @ + 1]
  /\ Goto(p, "op")
  /\ UNCHANGED <<wrote, tail, committing, lh, cache, pinned, boot, diskVars,
                 panicked, ops, crashes>>

\* Mutant: the block is not pinned.
LogWrite_NoPin(p, b, v) ==
  /\ Running(p, "op")
  /\ Cardinality(wrote[p][depth[p]] \cup {b}) <= OPWRITES
  /\ cache' = [cache EXCEPT ![b] = v]
  /\ wrote' = [wrote EXCEPT ![p][depth[p]] = @ \cup {b}]
  /\ lh' = IF b \in Range(lh) THEN lh ELSE Append(lh, b)
  /\ UNCHANGED <<pc, depth, tail, outstanding, committing, pinned, boot,
                 diskVars, panicked, ops, crashes>>

\* The caller has locked and changed the buffer of b.
LogWrite(p, b, v) ==
  /\ Running(p, "op")
  /\ Cardinality(wrote[p][depth[p]] \cup {b}) <= OPWRITES
  /\ IF Len(lh) >= LOGBLOCKS \/ outstanding < 1
     THEN panicked' = TRUE /\ UNCHANGED <<lh, cache, pinned, wrote>>
     ELSE /\ cache' = [cache EXCEPT ![b] = v]
          /\ wrote' = [wrote EXCEPT ![p][depth[p]] = @ \cup {b}]
          /\ IF b \in Range(lh)   \* log absorption
             THEN UNCHANGED <<lh, pinned>>
             ELSE lh' = Append(lh, b) /\ pinned' = pinned \cup {b}
          /\ UNCHANGED panicked
  /\ UNCHANGED <<pc, depth, tail, outstanding, committing, boot, diskVars,
                 ops, crashes>>

\* end_op() up to the call of commit().
EndOp(p) ==
  /\ Running(p, "op")
  /\ outstanding' = outstanding - 1
  /\ depth' = [depth EXCEPT ![p] = @ - 1]
  /\ wrote' = [wrote EXCEPT ![p][depth[p]] = {}]
  /\ panicked' = committing
  /\ tail' = 1
  /\ IF outstanding = 1
     THEN /\ committing' = TRUE
          /\ Goto(p, IF lh = <<>> THEN "wake" ELSE "write_log")
     ELSE /\ GotoAndWake(p, IF depth[p] = 1 THEN "idle" ELSE "op")
          /\ UNCHANGED committing
  /\ UNCHANGED <<lh, cache, pinned, boot, diskVars, ops, crashes>>

-----------------------------------------------------------------------------
(* commit(), one step per disk write. *)

\* write_log(): cached block number tail goes to the log.
WriteLog(p) ==
  /\ Running(p, "write_log")
  /\ log' = [log EXCEPT ![tail] = cache[lh[tail]]]
  /\ IF tail = Len(lh) THEN tail' = 1 /\ Goto(p, "write_head")
                       ELSE tail' = tail + 1 /\ UNCHANGED pc
  /\ UNCHANGED <<depth, wrote, memVars, boot, head, home, panicked, ops,
                 crashes>>

\* write_head(): the real commit.
WriteHead(p) ==
  /\ Running(p, "write_head")
  /\ head' = lh
  /\ Goto(p, "install")
  /\ UNCHANGED <<depth, wrote, tail, memVars, boot, log, home, panicked, ops,
                 crashes>>

\* install_trans(0): logged block number tail goes home, and its buffer is
\* given free for recycling.
Install(p) ==
  /\ Running(p, "install")
  /\ home' = [home EXCEPT ![lh[tail]] = log[tail]]
  /\ cache' = [cache EXCEPT ![lh[tail]] = log[tail]]
  /\ pinned' = pinned \ {lh[tail]}
  /\ IF tail = Len(lh) THEN tail' = 1 /\ Goto(p, "clear")
                       ELSE tail' = tail + 1 /\ UNCHANGED pc
  /\ UNCHANGED <<depth, wrote, outstanding, committing, lh, boot, head, log,
                 panicked, ops, crashes>>

\* log.lh.n = 0 and the second write_head().
ClearHead(p) ==
  /\ Running(p, "clear")
  /\ lh' = <<>> /\ head' = <<>>
  /\ Goto(p, "wake")
  /\ UNCHANGED <<depth, wrote, tail, outstanding, committing, cache, pinned,
                 boot, log, home, panicked, ops, crashes>>

\* Mutant: no wakeup after the commit.
CommitDone_NoWakeup(p) ==
  /\ Running(p, "wake")
  /\ committing' = FALSE
  /\ Goto(p, "idle")
  /\ UNCHANGED <<depth, wrote, tail, outstanding, lh, cache, pinned, boot,
                 diskVars, panicked, ops, crashes>>

\* The end of end_op().
CommitDone(p) ==
  /\ Running(p, "wake")
  /\ committing' = FALSE
  /\ GotoAndWake(p, "idle")
  /\ UNCHANGED <<depth, wrote, tail, outstanding, lh, cache, pinned, boot,
                 diskVars, panicked, ops, crashes>>

-----------------------------------------------------------------------------
(* The buffer cache recycles; crashes and recovery. *)

\* bget() reuses the buffer of a block that nobody refers to.
Recycle(b) ==
  /\ ~panicked /\ boot = "up"
  /\ cache[b] # Absent /\ b \notin pinned
  /\ cache' = [cache EXCEPT ![b] = Absent]
  /\ UNCHANGED <<pc, depth, wrote, tail, outstanding, committing, lh, pinned,
                 boot, diskVars, panicked, ops, crashes>>

\* Everything but the disk is lost.
Crash ==
  /\ crashes < MaxCrashes
  /\ crashes' = crashes + 1
  /\ pc' = [p \in Proc |-> "idle"]
  /\ depth' = [p \in Proc |-> 0]
  /\ wrote' = [p \in Proc |-> [d \in 1 .. 2 |-> {}]]
  /\ tail' = 1
  /\ outstanding' = 0 /\ committing' = FALSE
  /\ lh' = <<>>
  /\ cache' = [b \in Block |-> Absent]
  /\ pinned' = {}
  /\ boot' = "read_head"
  /\ panicked' = FALSE
  /\ UNCHANGED <<diskVars, ops>>

ReadHead ==
  /\ boot = "read_head"
  /\ lh' = head
  /\ tail' = 1
  /\ boot' = IF head = <<>> THEN "clear" ELSE "install"
  /\ UNCHANGED <<pc, depth, wrote, outstanding, committing, cache, pinned,
                 diskVars, panicked, ops, crashes>>

\* install_trans(1): nothing is pinned.
RecoverInstall ==
  /\ boot = "install"
  /\ home' = [home EXCEPT ![lh[tail]] = log[tail]]
  /\ IF tail = Len(lh) THEN tail' = 1 /\ boot' = "clear"
                       ELSE tail' = tail + 1 /\ UNCHANGED boot
  /\ UNCHANGED <<pc, depth, wrote, memVars, head, log, panicked, ops, crashes>>

RecoverClear ==
  /\ boot = "clear"
  /\ lh' = <<>> /\ head' = <<>>
  /\ boot' = "up"
  /\ UNCHANGED <<pc, depth, wrote, tail, outstanding, committing, cache,
                 pinned, log, home, panicked, ops, crashes>>

Recovery == ReadHead \/ RecoverInstall \/ RecoverClear

Step(p) ==
  \/ BeginSleep(p) \/ BeginOp(p) \/ EndOp(p)
  \/ WriteLog(p) \/ WriteHead(p) \/ Install(p) \/ ClearHead(p)
  \/ CommitDone(p)

Next ==
  \/ \E p \in Proc : StartOp(p) \/ Step(p)
  \/ \E p \in Proc, b \in Block, v \in Val : LogWrite(p, b, v)
  \/ \E b \in Block : Recycle(b)
  \/ Crash
  \/ Recovery

Spec == Init /\ [][Next]_vars

\* Kernel threads and recovery run on: the scheduler reaches each of them.
FairSpec == Spec /\ (\A p \in Proc : WF_vars(Step(p))) /\ WF_vars(Recovery)

-----------------------------------------------------------------------------
(* Properties. *)

\* What a crash at this moment would leave, after recovery.
Recovered ==
  [b \in Block |-> IF \E i \in 1 .. Len(head) : head[i] = b
                   THEN log[CHOOSE i \in 1 .. Len(head) : head[i] = b]
                   ELSE home[b]]

Seen == [b \in Block |-> IF cache[b] = Absent THEN home[b] ELSE cache[b]]

T == INSTANCE Transactions WITH
       durable <- Recovered,
       current <- IF boot = "up" THEN Seen ELSE Recovered,
       active <- {p \in Proc : depth[p] > 0}

ImplementsTransactions == T!TSpec

\* log_write() does not panic for want of space, nor end_op() because a
\* commit is running: the space that begin_op() reserves is enough whatever
\* calls overlap.
LogSpaceSuffices == ~panicked

\* One thread commits at a time, and no call is inside a transaction then.
CommitsAlone ==
  \A p \in Proc :
    pc[p] \in {"write_log", "write_head", "install", "clear", "wake"} =>
      /\ outstanding = 0 /\ \A q \in Proc : depth[q] = 0
      /\ \A q \in Proc \ {p} : pc[q] \in {"idle", "begin", "asleep"}

\* When no call is in progress nothing is left in memory only.
QuiescentDurable ==
  boot = "up" /\ outstanding = 0 /\ ~committing
    => head = <<>> /\ pinned = {} /\ \A b \in Block : Seen[b] = home[b]

\* A call that waits in begin_op() gets its turn, unless the machine crashes
\* or a thread waits inside its own transaction.  MaxOps bounds the calls: that
\* later ones overtake it for ever is not excluded by wakeup(), nor by this.
BeginsFinish ==
  \A p \in Proc :
    pc[p] \in {"begin", "asleep"} ~>
      \/ pc[p] \notin {"begin", "asleep"}
      \/ \E q \in Proc : depth[q] > 0 /\ pc[q] = "asleep"
=============================================================================
