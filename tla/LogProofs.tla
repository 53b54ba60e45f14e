------------------------------ MODULE LogProofs ------------------------------
(***************************************************************************)
(* Proofs about the log, for every number of threads and blocks, every     *)
(* size of the log and every number of calls and crashes: the reservation  *)
(* of begin_op() is enough, commits run alone, recovery finds what was     *)
(* committed, and the log implements Transactions.                         *)
(***************************************************************************)
EXTENDS Log, FiniteSetTheorems, TLAPS

CommitPlace == {"write_log", "write_head", "install", "clear", "wake"}

LogTypeOK ==
  /\ pc \in [Proc -> {"idle", "begin", "asleep", "op"} \cup CommitPlace]
  /\ depth \in [Proc -> 0 .. 2]
  /\ wrote \in [Proc -> [1 .. 2 -> SUBSET Block]]
  /\ tail \in Nat
  /\ outstanding \in Nat
  /\ committing \in BOOLEAN
  /\ lh \in Seq(Block)
  /\ cache \in [Block -> Val \cup {Absent}]
  /\ pinned \in SUBSET Block
  /\ boot \in {"up", "read_head", "install", "clear"}
  /\ head \in Seq(Block)
  /\ log \in [Slot -> Val]
  /\ home \in [Block -> Val]

-----------------------------------------------------------------------------
(* The invariant: control, space, contents. *)

\* A begin_op() without its end_op(): a thread and a nesting depth.
Tickets == {t \in Proc \X (1 .. 2) : t[2] <= depth[t[1]]}

\* The reserved blocks that are not yet used, per ticket.
Slack == {s \in Tickets \X (1 .. MAXOPBLOCKS) :
            s[2] <= MAXOPBLOCKS - Cardinality(wrote[s[1][1]][s[1][2]])}

\* log.outstanding counts the tickets; log.committing says that one thread
\* is in commit(), and then no ticket exists.
ControlInv ==
  /\ outstanding = Cardinality(Tickets)
  /\ \A p \in Proc :
       /\ pc[p] = "idle" => depth[p] = 0
       /\ pc[p] \in {"begin", "asleep"} => depth[p] <= 1
       /\ pc[p] = "op" => depth[p] >= 1
       /\ pc[p] \in CommitPlace => committing
  /\ committing => /\ boot = "up"
                   /\ \E p \in Proc : pc[p] \in CommitPlace
  /\ CommitsAlone
  /\ boot # "up" => /\ \A p \in Proc : pc[p] = "idle"
                    /\ pinned = {}
                    /\ \A b \in Block : cache[b] = Absent

\* What the log holds and what is still reserved fit into the log together.
SpaceInv ==
  /\ Len(lh) + Cardinality(Slack) <= LOGBLOCKS
  /\ Len(head) <= LOGBLOCKS
  /\ \A p \in Proc, d \in 1 .. 2 :
       /\ IsFiniteSet(wrote[p][d])
       /\ Cardinality(wrote[p][d]) <= OPWRITES
       /\ wrote[p][d] \subseteq Range(lh)
       /\ d > depth[p] => wrote[p][d] = {}
  /\ ~panicked

\* The blocks at positions S of the log are the cached ones, or are home.
Logged(S) == \A i \in S : log[i] = cache[lh[i]]
Installed(S) == \A i \in S : home[lh[i]] = log[i]

\* A buffer that may be recycled holds what is on disk.
CacheInv ==
  \A b \in Block :
    IF b \in pinned THEN cache[b] # Absent ELSE cache[b] \in {Absent, home[b]}

\* While nobody commits, the log on disk is empty and the blocks of the
\* transaction are pinned.
IdleInv ==
  boot = "up" /\ ~committing =>
    /\ head = <<>> /\ pinned = Range(lh)
    /\ outstanding = 0 => lh = <<>>

\* What each step of commit() finds.
CommitInv(p) ==
  /\ pc[p] = "write_log" =>
       /\ head = <<>> /\ pinned = Range(lh)
       /\ tail \in 1 .. Len(lh) /\ Logged(1 .. (tail - 1))
  /\ pc[p] = "write_head" =>
       /\ head = <<>> /\ pinned = Range(lh)
       /\ tail = 1 /\ lh # <<>> /\ Logged(1 .. Len(lh))
  /\ pc[p] = "install" =>
       /\ head = lh /\ tail \in 1 .. Len(lh)
       /\ pinned = {lh[i] : i \in tail .. Len(lh)}
       /\ Logged(tail .. Len(lh)) /\ Installed(1 .. (tail - 1))
  /\ pc[p] = "clear" =>
       head = lh /\ pinned = {} /\ Installed(1 .. Len(lh))
  /\ pc[p] = "wake" => head = <<>> /\ lh = <<>> /\ pinned = {}

\* What each step of recover_from_log() finds.
RecoveryInv ==
  /\ boot = "install" =>
       head = lh /\ tail \in 1 .. Len(lh) /\ Installed(1 .. (tail - 1))
  /\ boot = "clear" => head = lh /\ Installed(1 .. Len(lh))

DataInv ==
  /\ IsInjective(lh) /\ IsInjective(head)
  /\ CacheInv /\ IdleInv /\ RecoveryInv
  /\ \A p \in Proc : CommitInv(p)

LogInv == LogTypeOK /\ ControlInv /\ SpaceInv /\ DataInv

-----------------------------------------------------------------------------
(* Sequences of blocks. *)

\* What log_write() makes of the list when the block is not in it yet.
LEMMA AppendBlock ==
  ASSUME NEW s \in Seq(Block), NEW b \in Block
  PROVE  /\ Append(s, b) \in Seq(Block)
         /\ Len(Append(s, b)) = Len(s) + 1
         /\ Range(Append(s, b)) = Range(s) \cup {b}
         /\ IsInjective(s) /\ b \notin Range(s) => IsInjective(Append(s, b))
<1>1. /\ Append(s, b) \in Seq(Block)
      /\ Len(Append(s, b)) = Len(s) + 1
      /\ \A i \in 1 .. Len(s) : Append(s, b)[i] = s[i]
      /\ Append(s, b)[Len(s) + 1] = b
  OBVIOUS
<1>2. Len(s) \in Nat
  OBVIOUS
<1>3. DOMAIN s = 1 .. Len(s) /\ DOMAIN Append(s, b) = 1 .. (Len(s) + 1)
  BY <1>1
<1>4. 1 .. (Len(s) + 1) = (1 .. Len(s)) \cup {Len(s) + 1}
  BY <1>2
<1> DEFINE t == Append(s, b)
<1>5. /\ \A i \in 1 .. Len(s) : t[i] = s[i]
      /\ t[Len(s) + 1] = b
      /\ DOMAIN t = (1 .. Len(s)) \cup {Len(s) + 1}
  BY Zenon, <1>1, <1>3, <1>4
<1> HIDE DEF t
<1>6. Range(t) = Range(s) \cup {b}
  BY <1>3, <1>5 DEF Range
<1>7. IsInjective(s) /\ b \notin Range(s) => IsInjective(t)
  BY Zenon, <1>3, <1>5 DEF Range, IsInjective
<1> QED BY Zenon, <1>1, <1>6, <1>7 DEF t

\* The empty list.
LEMMA EmptyBlocks ==
  /\ <<>> \in Seq(Block) /\ Len(<<>>) = 0
  /\ Range(<<>>) = {} /\ IsInjective(<<>>)
<1>1. DOMAIN <<>> = {} /\ Len(<<>>) = 0 /\ <<>> \in Seq(Block)
  OBVIOUS
<1> QED BY Zenon, <1>1 DEF Range, IsInjective

-----------------------------------------------------------------------------
(* Types. *)

\* There are finitely many tickets, each with at most MAXOPBLOCKS slack.
LEMMA FiniteTickets ==
  /\ IsFiniteSet(Tickets) /\ Cardinality(Tickets) \in Nat
  /\ IsFiniteSet(Slack) /\ Cardinality(Slack) \in Nat
  /\ Cardinality(Slack) <= Cardinality(Tickets) * MAXOPBLOCKS
<1>0. MAXOPBLOCKS \in Nat
  BY Zenon, LogAssumption
<1>1. IsFiniteSet(1 .. 2) /\ IsFiniteSet(1 .. MAXOPBLOCKS)
      /\ Cardinality(1 .. MAXOPBLOCKS) = MAXOPBLOCKS
  <2>1. 1 \in Int /\ 2 \in Int /\ MAXOPBLOCKS \in Int
    BY <1>0
  <2>2. /\ IsFiniteSet(1 .. MAXOPBLOCKS)
        /\ Cardinality(1 .. MAXOPBLOCKS)
             = IF 1 > MAXOPBLOCKS THEN 0 ELSE MAXOPBLOCKS - 1 + 1
    BY Zenon, <2>1, FS_Interval
  <2>3. IsFiniteSet(1 .. 2)
    BY Zenon, <2>1, FS_Interval
  <2> QED BY <1>0, <2>2, <2>3
<1>2. IsFiniteSet(Proc \X (1 .. 2))
  BY Zenon, <1>1, FS_Product, LogAssumption
<1>3. IsFiniteSet(Tickets)
  BY Zenon, <1>2, FS_Subset DEF Tickets
<1>4. /\ IsFiniteSet(Tickets \X (1 .. MAXOPBLOCKS))
      /\ Cardinality(Tickets \X (1 .. MAXOPBLOCKS))
           = Cardinality(Tickets) * MAXOPBLOCKS
  BY Zenon, <1>1, <1>3, FS_Product
<1>5. Slack \in SUBSET (Tickets \X (1 .. MAXOPBLOCKS))
  BY Zenon DEF Slack
<1>6. /\ IsFiniteSet(Slack)
      /\ Cardinality(Slack) <= Cardinality(Tickets) * MAXOPBLOCKS
  BY Zenon, <1>4, <1>5, FS_Subset
<1> QED BY Zenon, <1>3, <1>6, FS_CardinalityType

\* A position of the log's contents is a slot of the log on disk.
LEMMA LogFits ==
  ASSUME LogTypeOK, SpaceInv
  PROVE  Len(lh) <= LOGBLOCKS /\ 1 .. Len(lh) \subseteq Slot
<1>1. Len(lh) \in Nat /\ LOGBLOCKS \in Nat
  BY LogAssumption DEF LogTypeOK
<1>2. Len(lh) <= LOGBLOCKS
  BY <1>1, FiniteTickets DEF SpaceInv
<1> QED BY <1>1, <1>2 DEF Slot

\* A thread inside a call holds a ticket, nobody commits, and if it is the
\* only ticket then no other call is in progress.
LEMMA OpHoldsTicket ==
  ASSUME LogTypeOK, ControlInv, NEW p \in Proc, pc[p] = "op"
  PROVE  /\ depth[p] \in 1 .. 2 /\ <<p, depth[p]>> \in Tickets
         /\ outstanding >= 1 /\ ~committing /\ boot = "up"
         /\ outstanding = 1 =>
              depth[p] = 1 /\ \A q \in Proc \ {p} : depth[q] = 0
<1>1. depth[p] \in 1 .. 2
  BY DEF LogTypeOK, ControlInv
<1>2. <<p, 1>> \in Tickets /\ <<p, depth[p]>> \in Tickets
  BY <1>1 DEF Tickets
<1>3. outstanding >= 1
  <2>1. Cardinality(Tickets) # 0
    BY Zenon, <1>2, FiniteTickets, FS_EmptySet
  <2> QED BY <2>1, FiniteTickets DEF ControlInv
<1>4. ~committing
  BY Zenon, <1>1 DEF ControlInv, CommitsAlone, CommitPlace
<1>5. boot = "up"
  BY Zenon DEF ControlInv
<1>6. ASSUME outstanding = 1
      PROVE  depth[p] = 1 /\ \A q \in Proc \ {p} : depth[q] = 0
  <2>1. PICK x : Tickets = {x}
    BY Zenon, <1>6, FiniteTickets, FS_Singleton DEF ControlInv
  <2>2. x = <<p, 1>> /\ <<p, depth[p]>> = <<p, 1>>
    BY Zenon, <1>2, <2>1
  <2>3. ASSUME NEW q \in Proc \ {p}, depth[q] # 0
        PROVE  FALSE
    <3>1. depth[q] \in 1 .. 2
      BY <2>3 DEF LogTypeOK
    <3>2. <<q, 1>> \in Tickets
      BY <3>1 DEF Tickets
    <3> QED BY Zenon, <2>1, <2>2, <3>2
  <2> QED BY Zenon, <2>2, <2>3
<1> QED BY Zenon, <1>1, <1>2, <1>3, <1>4, <1>5, <1>6

\* The ticket of a call that may still write has slack left, so log_write()
\* does not panic.
LEMMA LogWriteEffect ==
  ASSUME LogTypeOK, ControlInv, SpaceInv,
         NEW p \in Proc, NEW b \in Block, NEW v \in Val, LogWrite(p, b, v)
  PROVE  /\ pc[p] = "op"
         /\ cache' = [cache EXCEPT ![b] = v]
         /\ wrote' = [wrote EXCEPT ![p][depth[p]] = @ \cup {b}]
         /\ IF b \in Range(lh)
            THEN UNCHANGED <<lh, pinned>>
            ELSE lh' = Append(lh, b) /\ pinned' = pinned \cup {b}
         /\ UNCHANGED <<pc, depth, tail, outstanding, committing, boot, head,
                        log, home, panicked, ops, crashes>>
<1>1. pc[p] = "op"
  BY Zenon DEF LogWrite, Running
<1>2. depth[p] \in 1 .. 2 /\ <<p, depth[p]>> \in Tickets /\ outstanding >= 1
  BY Zenon, <1>1, OpHoldsTicket
<1> DEFINE w == Cardinality(wrote[p][depth[p]])
<1>3. w \in Nat /\ w <= OPWRITES
  BY Zenon, <1>2, FS_CardinalityType DEF SpaceInv
<1>4. OPWRITES \in Nat /\ MAXOPBLOCKS \in Nat /\ LOGBLOCKS \in Nat
  BY Zenon, LogAssumption
<1>5. 1 <= MAXOPBLOCKS - w /\ 1 \in 1 .. MAXOPBLOCKS
  BY <1>3, <1>4, OpsFit
<1>6. <<<<p, depth[p]>>, 1>> \in Slack
  <2> HIDE DEF w
  <2>1. 1 <= MAXOPBLOCKS - Cardinality(wrote[p][depth[p]])
    BY Zenon, <1>5 DEF w
  <2> QED BY Zenon, <1>2, <1>5, <2>1 DEF Slack
<1>7. Cardinality(Slack) >= 1
  <2>1. Cardinality(Slack) # 0
    BY Zenon, <1>6, FiniteTickets, FS_EmptySet
  <2> QED BY <2>1, FiniteTickets
<1>8. Len(lh) < LOGBLOCKS
  <2>1. Len(lh) \in Nat
    BY DEF LogTypeOK
  <2> QED BY <1>4, <1>7, <2>1, FiniteTickets DEF SpaceInv
<1>9. ~(Len(lh) >= LOGBLOCKS \/ outstanding < 1)
  BY <1>2, <1>4, <1>8 DEF LogTypeOK
<1> QED BY Zenon, <1>1, <1>9 DEF LogWrite, diskVars

\* A fresh file system and an empty log satisfy the types.
LEMMA InitTypes == Init => LogTypeOK
<1> SUFFICES ASSUME Init PROVE LogTypeOK
  BY Zenon
<1>1. wrote \in [Proc -> [1 .. 2 -> SUBSET Block]]
  BY Zenon DEF Init
<1>2. <<>> \in Seq(Block)
  OBVIOUS
<1>3. log \in [Slot -> Val] /\ home \in [Block -> Val]
  BY Zenon, LogAssumption DEF Init
<1>4. pc \in [Proc -> {"idle", "begin", "asleep", "op"} \cup CommitPlace]
  BY Zenon DEF Init
<1>5. depth \in [Proc -> 0 .. 2] /\ tail \in Nat /\ outstanding \in Nat
  BY DEF Init
<1>6. cache \in [Block -> Val \cup {Absent}]
  BY Zenon DEF Init
<1>7. committing \in BOOLEAN /\ pinned \in SUBSET Block
  BY Zenon DEF Init
<1>8. lh \in Seq(Block) /\ head \in Seq(Block)
  BY Zenon, <1>2 DEF Init
<1>9. boot \in {"up", "read_head", "install", "clear"}
  BY Zenon DEF Init
<1> QED BY Zenon, <1>1, <1>3, <1>4, <1>5, <1>6, <1>7, <1>8, <1>9 DEF LogTypeOK

\* Every step keeps the types.
LEMMA StepTypes ==
  ASSUME LogTypeOK, ControlInv, SpaceInv, DataInv, [Next]_vars
  PROVE  LogTypeOK'
<1> USE DEF LogTypeOK, CommitPlace
<1>1. ASSUME NEW p \in Proc, StartOp(p)
      PROVE  LogTypeOK'
  BY Zenon, <1>1 DEF StartOp, Goto, memVars, diskVars
<1>2. ASSUME NEW p \in Proc, BeginSleep(p)
      PROVE  LogTypeOK'
  BY Zenon, <1>2 DEF BeginSleep, Goto, memVars, diskVars
<1>3. ASSUME NEW p \in Proc, BeginOp(p)
      PROVE  LogTypeOK'
  BY <1>3 DEF BeginOp, Goto, diskVars, ControlInv, Running
<1>4. ASSUME NEW p \in Proc, NEW b \in Block, NEW v \in Val, LogWrite(p, b, v)
      PROVE  LogTypeOK'
  <2>1. /\ depth[p] \in 1 .. 2
        /\ cache' = [cache EXCEPT ![b] = v]
        /\ wrote' = [wrote EXCEPT ![p][depth[p]] = @ \cup {b}]
        /\ lh' = lh \/ lh' = Append(lh, b)
        /\ pinned' = pinned \/ pinned' = pinned \cup {b}
        /\ UNCHANGED <<pc, depth, tail, outstanding, committing, boot, head,
                       log, home>>
    <3> HIDE DEF LogTypeOK, CommitPlace
    <3>1. depth[p] \in 1 .. 2
      BY Zenon, <1>4, OpHoldsTicket DEF LogWrite, Running
    <3> QED BY <1>4, <3>1, LogWriteEffect
  <2>2. lh' \in Seq(Block)
    <3>1. Append(lh, b) \in Seq(Block)
      BY Zenon, AppendBlock
    <3> QED BY <2>1, <3>1, Zenon
  <2> QED BY <2>1, <2>2
<1>5. ASSUME NEW p \in Proc, EndOp(p)
      PROVE  LogTypeOK'
  <2>1. wrote' \in [Proc -> [1 .. 2 -> SUBSET Block]]
    BY Zenon, <1>5 DEF EndOp
  <2>2. pc' \in [Proc -> {"idle", "begin", "asleep", "op"} \cup CommitPlace]
    BY Zenon, <1>5 DEF EndOp, Goto, GotoAndWake
  <2>3. depth[p] \in 1 .. 2 /\ outstanding >= 1
    BY Zenon, <1>5, OpHoldsTicket DEF EndOp, Running
  <2>4. outstanding' \in Nat /\ depth' \in [Proc -> 0 .. 2] /\ tail' \in Nat
    BY <1>5, <2>3 DEF EndOp
  <2>5. committing' \in BOOLEAN
    BY Zenon, <1>5 DEF EndOp
  <2> QED BY Zenon, <1>5, <2>1, <2>2, <2>4, <2>5 DEF EndOp, diskVars
<1>6. ASSUME NEW p \in Proc, WriteLog(p)
      PROVE  LogTypeOK'
  <2>1. tail \in 1 .. Len(lh) /\ lh[tail] \in pinned
    BY <1>6 DEF WriteLog, Running, DataInv, CommitInv, Range
  <2>2. tail \in Slot
    BY Zenon, <2>1, LogFits
  <2>3. cache[lh[tail]] \in Val
    <3>1. lh[tail] \in Block /\ cache[lh[tail]] # Absent
      BY Zenon, <2>1 DEF DataInv, CacheInv
    <3> QED BY Zenon, <3>1
  <2>4. log' \in [Slot -> Val]
    BY Zenon, <1>6, <2>2, <2>3 DEF WriteLog
  <2>5. tail' \in Nat
    BY <1>6 DEF WriteLog
  <2>6. pc' \in [Proc -> {"idle", "begin", "asleep", "op"} \cup CommitPlace]
    BY Zenon, <1>6 DEF WriteLog, Goto
  <2> QED BY Zenon, <1>6, <2>4, <2>5, <2>6 DEF WriteLog, memVars
<1>7. ASSUME NEW p \in Proc, WriteHead(p)
      PROVE  LogTypeOK'
  BY Zenon, <1>7 DEF WriteHead, Goto, memVars
<1>8. ASSUME NEW p \in Proc, Install(p)
      PROVE  LogTypeOK'
  <2>1. tail \in 1 .. Len(lh)
    BY Zenon, <1>8 DEF Install, Running, DataInv, CommitInv
  <2>2. tail \in Slot
    BY Zenon, <2>1, LogFits
  <2>3. log[tail] \in Val /\ lh[tail] \in Block
    BY <2>1, <2>2
  <2>4. /\ home' \in [Block -> Val] /\ cache' \in [Block -> Val \cup {Absent}]
        /\ pinned' \in SUBSET Block
    BY Zenon, <1>8, <2>3 DEF Install
  <2>5. tail' \in Nat
    BY <1>8 DEF Install
  <2>6. pc' \in [Proc -> {"idle", "begin", "asleep", "op"} \cup CommitPlace]
    BY Zenon, <1>8 DEF Install, Goto
  <2> QED BY Zenon, <1>8, <2>4, <2>5, <2>6 DEF Install
<1>9. ASSUME NEW p \in Proc, ClearHead(p)
      PROVE  LogTypeOK'
  BY <1>9 DEF ClearHead, Goto
<1>10. ASSUME NEW p \in Proc, CommitDone(p)
       PROVE  LogTypeOK'
  BY Zenon, <1>10 DEF CommitDone, GotoAndWake, diskVars
<1>11. ASSUME NEW b \in Block, Recycle(b)
       PROVE  LogTypeOK'
  BY Zenon, <1>11 DEF Recycle, diskVars
<1>12. CASE Crash
  <2>1. /\ wrote' \in [Proc -> [1 .. 2 -> SUBSET Block]]
        /\ cache' \in [Block -> Val \cup {Absent}]
    BY Zenon, <1>12 DEF Crash
  <2>2. committing' \in BOOLEAN /\ lh' \in Seq(Block)
    BY Zenon, <1>12, EmptyBlocks DEF Crash
  <2> QED BY <1>12, <2>1, <2>2 DEF Crash, diskVars
<1>13. CASE ReadHead
  BY Zenon, <1>13 DEF ReadHead, diskVars
<1>14. CASE RecoverInstall
  <2>1. tail \in 1 .. Len(lh)
    BY Zenon, <1>14 DEF RecoverInstall, DataInv, RecoveryInv
  <2>2. tail \in Slot
    BY Zenon, <2>1, LogFits
  <2>3. log[tail] \in Val /\ lh[tail] \in Block
    BY <2>1, <2>2
  <2> QED BY <1>14, <2>3 DEF RecoverInstall, memVars
<1>15. CASE RecoverClear
  BY <1>15 DEF RecoverClear
<1>16. CASE UNCHANGED vars
  BY Zenon, <1>16 DEF vars, memVars, diskVars
<1> QED
  BY Zenon, <1>1, <1>2, <1>3, <1>4, <1>5, <1>6, <1>7, <1>8, <1>9, <1>10, <1>11,
     <1>12, <1>13, <1>14, <1>15, <1>16, Zenon DEF Next, Step, Recovery

-----------------------------------------------------------------------------
(* Control. *)

\* begin_op() adds a ticket.
LEMMA TicketsGrow ==
  ASSUME LogTypeOK, NEW p \in Proc, depth[p] <= 1,
         depth' = [depth EXCEPT ![p] = @ + 1]
  PROVE  /\ Tickets' = Tickets \cup {<<p, depth[p] + 1>>}
         /\ Cardinality(Tickets') = Cardinality(Tickets) + 1
<1>1. depth \in [Proc -> 0 .. 2] /\ depth[p] \in 0 .. 1
  BY DEF LogTypeOK
<1>2. Tickets' = Tickets \cup {<<p, depth[p] + 1>>}
  BY <1>1 DEF Tickets
<1>3. <<p, depth[p] + 1>> \notin Tickets
  BY <1>1 DEF Tickets
<1> QED BY Zenon, <1>2, <1>3, FiniteTickets, FS_AddElement

\* end_op() takes one away.
LEMMA TicketsShrink ==
  ASSUME LogTypeOK, NEW p \in Proc, depth[p] >= 1,
         depth' = [depth EXCEPT ![p] = @ - 1]
  PROVE  /\ Tickets' = Tickets \ {<<p, depth[p]>>}
         /\ Cardinality(Tickets') = Cardinality(Tickets) - 1
<1>1. depth \in [Proc -> 0 .. 2] /\ depth[p] \in 1 .. 2
  BY DEF LogTypeOK
<1>2. Tickets' = Tickets \ {<<p, depth[p]>>}
  BY <1>1 DEF Tickets
<1>3. <<p, depth[p]>> \in Tickets
  BY <1>1 DEF Tickets
<1> QED BY Zenon, <1>2, <1>3, FiniteTickets, FS_RemoveElement

\* No call is in progress initially and after a crash.
LEMMA InitControl == Init => ControlInv
<1> SUFFICES ASSUME Init PROVE ControlInv
  BY Zenon
<1>1. Tickets = {}
  BY DEF Init, Tickets
<1>2. Cardinality(Tickets) = 0
  BY Zenon, <1>1, FS_EmptySet
<1> QED BY Zenon, <1>2 DEF Init, ControlInv, CommitsAlone, CommitPlace

\* Every step keeps the control part of the invariant.
LEMMA StepControl ==
  ASSUME LogTypeOK, ControlInv, SpaceInv, DataInv, [Next]_vars
  PROVE  ControlInv'
<1> DEFINE Rest == /\ \A p \in Proc :
                        /\ pc[p] = "idle" => depth[p] = 0
                        /\ pc[p] \in {"begin", "asleep"} => depth[p] <= 1
                        /\ pc[p] = "op" => depth[p] >= 1
                        /\ pc[p] \in CommitPlace => committing
                   /\ committing => /\ boot = "up"
                                    /\ \E p \in Proc : pc[p] \in CommitPlace
                   /\ CommitsAlone
                   /\ boot # "up" => /\ \A p \in Proc : pc[p] = "idle"
                                     /\ pinned = {}
                                     /\ \A b \in Block : cache[b] = Absent
<1>0. /\ Rest /\ outstanding = Cardinality(Tickets)
      /\ Rest' /\ outstanding' = Cardinality(Tickets)' => ControlInv'
  BY Zenon DEF ControlInv
<1>u. UNCHANGED <<depth, outstanding>> => outstanding' = Cardinality(Tickets)'
  BY Zenon, <1>0 DEF Tickets
<1> USE DEF LogTypeOK, CommitPlace, CommitsAlone, Running
<1>1. ASSUME NEW p \in Proc, StartOp(p)
      PROVE  ControlInv'
  <2>1. Rest'
    BY <1>0, <1>1 DEF StartOp, Goto, memVars, diskVars
  <2> QED BY Zenon, <1>0, <1>1, <1>u, <2>1 DEF StartOp, memVars
<1>2. ASSUME NEW p \in Proc, BeginSleep(p)
      PROVE  ControlInv'
  <2>1. Rest'
    BY <1>0, <1>2 DEF BeginSleep, Goto, memVars, diskVars
  <2> QED BY Zenon, <1>0, <1>2, <1>u, <2>1 DEF BeginSleep, memVars
<1>3. ASSUME NEW p \in Proc, BeginOp(p)
      PROVE  ControlInv'
  <2>1. Rest'
    BY <1>0, <1>3 DEF BeginOp, Goto, MustWait
  <2>2. depth[p] <= 1
    BY Zenon, <1>0, <1>3 DEF BeginOp
  <2>3. outstanding' = Cardinality(Tickets)'
    BY Zenon, <1>0, <1>3, <2>2, TicketsGrow DEF BeginOp
  <2> QED BY Zenon, <1>0, <2>1, <2>3
<1>4. ASSUME NEW p \in Proc, NEW b \in Block, NEW v \in Val, LogWrite(p, b, v)
      PROVE  ControlInv'
  <2>1. pc[p] = "op" /\ UNCHANGED <<pc, depth, outstanding, committing, boot>>
    BY Zenon, <1>4 DEF LogWrite
  <2>2. Rest'
    BY Zenon, <1>0, <2>1
  <2> QED BY Zenon, <1>0, <1>u, <2>1, <2>2
<1>5. ASSUME NEW p \in Proc, EndOp(p)
      PROVE  ControlInv'
  <2>1. /\ depth[p] \in 1 .. 2 /\ outstanding >= 1 /\ ~committing
        /\ boot = "up"
        /\ outstanding = 1 =>
              depth[p] = 1 /\ \A q \in Proc \ {p} : depth[q] = 0
    BY Zenon, <1>5, OpHoldsTicket DEF EndOp
  <2>2. Rest'
    <3>1. CASE outstanding = 1
      BY <1>0, <1>5, <2>1, <3>1 DEF EndOp, Goto
    <3>2. CASE outstanding # 1
      BY <1>0, <1>5, <2>1, <3>2 DEF EndOp, GotoAndWake
    <3> QED BY Zenon, <3>1, <3>2
  <2>3. outstanding' = Cardinality(Tickets)'
    BY Zenon, <1>0, <1>5, <2>1, TicketsShrink DEF EndOp
  <2> QED BY <1>0, <2>2, <2>3
<1>6. ASSUME NEW p \in Proc, WriteLog(p)
      PROVE  ControlInv'
  <2>1. Rest'
    <3>0. /\ pc[p] = "write_log"
          /\ UNCHANGED <<depth, outstanding, committing, boot, cache, pinned>>
      BY Zenon, <1>6 DEF WriteLog, memVars
    <3>1. CASE pc' = [pc EXCEPT ![p] = "write_head"]
      BY <1>0, <3>0, <3>1
    <3>2. CASE pc' = pc
      BY Zenon, <1>0, <3>0, <3>2
    <3>3. pc' = [pc EXCEPT ![p] = "write_head"] \/ pc' = pc
      BY Zenon, <1>6 DEF WriteLog, Goto
    <3> QED BY Zenon, <3>1, <3>2, <3>3
  <2> QED BY Zenon, <1>0, <1>6, <1>u, <2>1 DEF WriteLog, memVars
<1>7. ASSUME NEW p \in Proc, WriteHead(p)
      PROVE  ControlInv'
  <2>1. Rest'
    BY <1>0, <1>7 DEF WriteHead, Goto, memVars
  <2> QED BY Zenon, <1>0, <1>7, <1>u, <2>1 DEF WriteHead, memVars
<1>8. ASSUME NEW p \in Proc, Install(p)
      PROVE  ControlInv'
  <2>1. Rest'
    BY <1>0, <1>8 DEF Install, Goto
  <2> QED BY Zenon, <1>0, <1>8, <1>u, <2>1 DEF Install
<1>9. ASSUME NEW p \in Proc, ClearHead(p)
      PROVE  ControlInv'
  <2>1. Rest'
    BY <1>0, <1>9 DEF ClearHead, Goto
  <2> QED BY Zenon, <1>0, <1>9, <1>u, <2>1 DEF ClearHead
<1>10. ASSUME NEW p \in Proc, CommitDone(p)
       PROVE  ControlInv'
  <2>1. Rest'
    BY Zenon, <1>0, <1>10 DEF CommitDone, GotoAndWake
  <2> QED BY Zenon, <1>0, <1>10, <1>u, <2>1 DEF CommitDone
<1>11. ASSUME NEW b \in Block, Recycle(b)
       PROVE  ControlInv'
  <2>1. Rest'
    BY Zenon, <1>0, <1>11 DEF Recycle
  <2> QED BY Zenon, <1>0, <1>11, <1>u, <2>1 DEF Recycle
<1>12. CASE Crash
  <2>1. Rest'
    BY Zenon, <1>12 DEF Crash
  <2>2. Tickets' = {}
    BY <1>12 DEF Crash, Tickets
  <2>3. outstanding' = Cardinality(Tickets)'
    BY Zenon, <1>12, <2>2, FS_EmptySet DEF Crash
  <2> QED BY Zenon, <1>0, <2>1, <2>3
<1>13. CASE ReadHead
  <2>1. Rest'
    BY Zenon, <1>0, <1>13 DEF ReadHead
  <2> QED BY Zenon, <1>0, <1>13, <1>u, <2>1 DEF ReadHead
<1>14. CASE RecoverInstall
  <2>1. Rest'
    BY Zenon, <1>0, <1>14 DEF RecoverInstall, memVars
  <2> QED BY Zenon, <1>0, <1>14, <1>u, <2>1 DEF RecoverInstall, memVars
<1>15. CASE RecoverClear
  <2>1. Rest'
    BY Zenon, <1>0, <1>15 DEF RecoverClear
  <2> QED BY Zenon, <1>0, <1>15, <1>u, <2>1 DEF RecoverClear
<1>16. CASE UNCHANGED vars
  BY Zenon, <1>16 DEF vars, memVars, ControlInv, Tickets
<1> QED
  BY <1>1, <1>2, <1>3, <1>4, <1>5, <1>6, <1>7, <1>8, <1>9, <1>10, <1>11,
     <1>12, <1>13, <1>14, <1>15, <1>16, Zenon DEF Next, Step, Recovery

-----------------------------------------------------------------------------
(* Space. *)

\* Without a ticket nothing is reserved and nothing has been written.
LEMMA NoTickets ==
  ASSUME SpaceInv, LogTypeOK, \A p \in Proc : depth[p] = 0
  PROVE  /\ Slack = {} /\ Cardinality(Slack) = 0
         /\ \A p \in Proc, d \in 1 .. 2 : wrote[p][d] = {}
<1>1. Tickets = {}
  BY DEF Tickets
<1>2. Slack = {}
  BY Zenon, <1>1 DEF Slack
<1>3. \A p \in Proc, d \in 1 .. 2 : wrote[p][d] = {}
  BY DEF SpaceInv
<1> QED BY Zenon, <1>2, <1>3, FS_EmptySet

\* An empty log on disk and in memory.
LEMMA InitSpace == Init => SpaceInv
<1> SUFFICES ASSUME Init PROVE SpaceInv
  BY Zenon
<1>1. Tickets = {}
  BY DEF Init, Tickets
<1>2. Cardinality(Slack) = 0
  BY Zenon, <1>1, FS_EmptySet DEF Slack
<1>3. \A p \in Proc, d \in 1 .. 2 : wrote[p][d] = {}
  BY Zenon DEF Init
<1>4. Len(lh) = 0 /\ Len(head) = 0 /\ ~panicked
  BY Zenon, EmptyBlocks DEF Init
<1>5. LOGBLOCKS \in Nat /\ OPWRITES \in Nat
  BY Zenon, LogAssumption
<1>6. \A p \in Proc, d \in 1 .. 2 :
        /\ IsFiniteSet(wrote[p][d])
        /\ Cardinality(wrote[p][d]) = 0
        /\ wrote[p][d] \subseteq Range(lh)
  BY <1>3, FS_EmptySet, Zenon
<1> QED BY <1>2, <1>3, <1>4, <1>5, <1>6 DEF SpaceInv

\* Every step keeps the log large enough for what is reserved.
LEMMA StepSpace ==
  ASSUME LogTypeOK, ControlInv, SpaceInv, DataInv, [Next]_vars
  PROVE  SpaceInv'
<1>c. MAXOPBLOCKS \in Nat /\ LOGBLOCKS \in Nat /\ OPWRITES \in Nat
  BY Zenon, LogAssumption
<1>f. (/\ IsFiniteSet(Tickets) /\ Cardinality(Tickets) \in Nat
       /\ IsFiniteSet(Slack) /\ Cardinality(Slack) \in Nat
       /\ Cardinality(Slack) <= Cardinality(Tickets) * MAXOPBLOCKS)'
  BY FiniteTickets, PTL
<1>l. Len(lh) \in Nat /\ Len(lh) <= LOGBLOCKS
  BY LogFits DEF LogTypeOK
<1>u. ASSUME UNCHANGED <<depth, wrote, lh, head, panicked>>
      PROVE  SpaceInv'
  BY Zenon, <1>u DEF SpaceInv, Slack, Tickets
<1>1. ASSUME NEW p \in Proc, StartOp(p) \/ BeginSleep(p)
      PROVE  SpaceInv'
  BY Zenon, <1>1, <1>u DEF StartOp, BeginSleep, memVars, diskVars
<1>2. ASSUME NEW p \in Proc, BeginOp(p)
      PROVE  SpaceInv'
  <2>1. depth[p] <= 1
    BY Zenon, <1>2 DEF BeginOp, ControlInv, Running
  <2>2. Cardinality(Tickets') = outstanding + 1
    BY Zenon, <1>2, <2>1, TicketsGrow DEF BeginOp, ControlInv
  <2>3. Len(lh) + (outstanding + 1) * MAXOPBLOCKS <= LOGBLOCKS
    BY <1>2, <1>c, <1>l DEF BeginOp, MustWait, LogTypeOK
  <2>4. Cardinality(Slack)' <= (outstanding + 1) * MAXOPBLOCKS
    BY Zenon, <1>f, <2>2
  <2>5. Len(lh)' + Cardinality(Slack)' <= LOGBLOCKS
    <3>1. (outstanding + 1) * MAXOPBLOCKS \in Nat
      BY <1>c DEF LogTypeOK
    <3>2. lh' = lh
      BY Zenon, <1>2 DEF BeginOp
    <3> QED BY <1>c, <1>f, <1>l, <2>3, <2>4, <3>1, <3>2
  <2>6. /\ UNCHANGED <<wrote, lh, head, panicked>>
        /\ depth' = [depth EXCEPT ![p] = @ + 1]
    BY Zenon, <1>2 DEF BeginOp, diskVars
  <2>7. \A q \in Proc : depth'[q] >= depth[q]
    BY <2>6 DEF LogTypeOK
  <2>8. \A q \in Proc, d \in 1 .. 2 : d > depth'[q] => wrote[q][d] = {}
    BY <2>6, <2>7 DEF SpaceInv, LogTypeOK
  <2> QED BY Zenon, <2>5, <2>6, <2>8 DEF SpaceInv
<1>3. ASSUME NEW p \in Proc, NEW b \in Block, NEW v \in Val, LogWrite(p, b, v)
      PROVE  SpaceInv'
  <2> DEFINE d == depth[p]
             w == wrote[p][d]
  <2>1. /\ d \in 1 .. 2 /\ <<p, d>> \in Tickets
        /\ wrote' = [wrote EXCEPT ![p][d] = @ \cup {b}]
        /\ IF b \in Range(lh) THEN lh' = lh ELSE lh' = Append(lh, b)
        /\ UNCHANGED <<depth, head, panicked>>
    BY Zenon, <1>3, LogWriteEffect, OpHoldsTicket
  <2>2. /\ IsFiniteSet(w) /\ Cardinality(w) \in Nat
        /\ Cardinality(w) <= OPWRITES /\ w \subseteq Range(lh)
    BY Zenon, <2>1, FS_CardinalityType DEF SpaceInv
  <2>3. /\ IsFiniteSet(w \cup {b}) /\ Cardinality(w \cup {b}) <= OPWRITES
        /\ b \notin w => Cardinality(w \cup {b}) = Cardinality(w) + 1
    BY Zenon, <1>3, <2>2, FS_AddElement DEF LogWrite
  <2>4. /\ Range(lh') = Range(lh) \cup {b}
        /\ Len(lh') = IF b \in Range(lh) THEN Len(lh) ELSE Len(lh) + 1
    <3>1. CASE b \in Range(lh)
      BY Zenon, <2>1, <3>1
    <3>2. CASE b \notin Range(lh)
      <4>1. lh \in Seq(Block) /\ lh' = Append(lh, b)
        BY Zenon, <2>1, <3>2 DEF LogTypeOK
      <4>2. /\ Range(Append(lh, b)) = Range(lh) \cup {b}
            /\ Len(Append(lh, b)) = Len(lh) + 1
        BY Zenon, <4>1, AppendBlock
      <4> QED BY <3>2, <4>1, <4>2, Zenon
    <3> QED BY Zenon, <3>1, <3>2
  <2>5. /\ wrote'[p][d] = w \cup {b}
        /\ \A q \in Proc, e \in 1 .. 2 :
             q # p \/ e # d => wrote'[q][e] = wrote[q][e]
    BY Zenon, <2>1 DEF LogTypeOK
  <2> HIDE DEF d, w
  <2>6. Len(lh') + Cardinality(Slack)' <= LOGBLOCKS
    <3>1. CASE b \in w
      <4>1. wrote' = wrote
        BY <2>1, <2>5, <3>1 DEF LogTypeOK, w
      <4>2. Slack' = Slack
        BY Zenon, <2>1, <4>1 DEF Slack, Tickets
      <4> QED BY Zenon, <2>2, <2>4, <3>1, <4>2 DEF SpaceInv
    <3>2. CASE b \notin w
      <4> DEFINE x == <<<<p, d>>, MAXOPBLOCKS - Cardinality(w)>>
      <4>1. x \in Slack
        BY <1>c, <2>1, <2>2, OpsFit DEF Slack, d, w
      <4>2. Slack' = Slack \ {x}
        <5>1. Tickets' = Tickets
          BY Zenon, <2>1 DEF Tickets
        <5>2. ASSUME NEW t \in Tickets, NEW i \in 1 .. MAXOPBLOCKS
              PROVE  i <= MAXOPBLOCKS - Cardinality(wrote'[t[1]][t[2]])
                      <=> /\ i <= MAXOPBLOCKS - Cardinality(wrote[t[1]][t[2]])
                          /\ <<t, i>> # x
          <6>1. t[1] \in Proc /\ t[2] \in 1 .. 2 /\ t = <<t[1], t[2]>>
            BY DEF Tickets
          <6>2. CASE t = <<p, d>>
            <7>1. /\ Cardinality(wrote'[t[1]][t[2]]) = Cardinality(w) + 1
                  /\ wrote[t[1]][t[2]] = w
              BY Zenon, <2>3, <2>5, <3>2, <6>2 DEF w, d
            <7> QED BY <1>c, <2>2, <6>2, <7>1
          <6>3. CASE t # <<p, d>>
            BY Zenon, <2>5, <6>1, <6>3
          <6> QED BY Zenon, <6>2, <6>3
        <5> HIDE DEF x
        <5>3. Slack' = {s \in Tickets \X (1 .. MAXOPBLOCKS) :
                 s[2] <= MAXOPBLOCKS - Cardinality(wrote'[s[1][1]][s[1][2]])}
          BY Zenon, <5>1 DEF Slack
        <5>4. \A s \in Tickets \X (1 .. MAXOPBLOCKS) :
                s[1] \in Tickets /\ s[2] \in 1 .. MAXOPBLOCKS
                  /\ s = <<s[1], s[2]>>
          OBVIOUS
        <5> QED BY <5>2, <5>3, <5>4 DEF Slack
      <4>3. Cardinality(Slack)' = Cardinality(Slack) - 1
        BY Zenon, <4>1, <4>2, FiniteTickets, FS_RemoveElement
      <4> QED BY <1>c, <1>l, <2>4, <4>3, FiniteTickets DEF SpaceInv
    <3> QED BY Zenon, <3>1, <3>2
  <2>7. \A q \in Proc, e \in 1 .. 2 :
          /\ IsFiniteSet(wrote'[q][e])
          /\ Cardinality(wrote'[q][e]) <= OPWRITES
          /\ wrote'[q][e] \subseteq Range(lh')
          /\ e > depth'[q] => wrote'[q][e] = {}
    <3> SUFFICES ASSUME NEW q \in Proc, NEW e \in 1 .. 2
                 PROVE  /\ IsFiniteSet(wrote'[q][e])
                        /\ Cardinality(wrote'[q][e]) <= OPWRITES
                        /\ wrote'[q][e] \subseteq Range(lh')
                        /\ e > depth'[q] => wrote'[q][e] = {}
      BY Zenon
    <3>1. CASE q = p /\ e = d
      <4>1. wrote'[q][e] = w \cup {b} /\ w \cup {b} \subseteq Range(lh')
        BY Zenon, <2>2, <2>4, <2>5, <3>1
      <4>2. ~(e > depth'[q])
        BY <2>1, <3>1 DEF d
      <4> QED BY Zenon, <2>3, <4>1, <4>2
    <3>2. CASE q # p \/ e # d
      BY <2>1, <2>4, <2>5, <3>2 DEF SpaceInv
    <3> QED BY Zenon, <3>1, <3>2
  <2> QED BY Zenon, <2>1, <2>6, <2>7 DEF SpaceInv
<1>4. ASSUME NEW p \in Proc, EndOp(p)
      PROVE  SpaceInv'
  <2> DEFINE d == depth[p]
  <2>1. d \in 1 .. 2 /\ ~committing
    BY Zenon, <1>4, OpHoldsTicket DEF EndOp, Running
  <2>2. /\ depth' = [depth EXCEPT ![p] = d - 1]
        /\ wrote' = [wrote EXCEPT ![p][d] = {}]
        /\ UNCHANGED <<lh, head>>
    BY Zenon, <1>4 DEF EndOp, diskVars
  <2>p. ~panicked'
    BY <1>4, <2>1, Zenon DEF EndOp
  <2>3. /\ wrote'[p][d] = {}
        /\ \A q \in Proc, e \in 1 .. 2 :
             q # p \/ e # d => wrote'[q][e] = wrote[q][e]
    BY Zenon, <2>1, <2>2 DEF LogTypeOK
  <2>4. Tickets' = Tickets \ {<<p, d>>}
    <3>1. depth[p] >= 1 /\ depth' = [depth EXCEPT ![p] = @ - 1]
      BY <1>4, <2>1 DEF EndOp
    <3> QED BY Zenon, <3>1, TicketsShrink
  <2>5. Slack' \in SUBSET Slack
    <3> SUFFICES ASSUME NEW s \in Slack' PROVE s \in Slack
      BY Zenon
    <3>1. /\ s \in Tickets' \X (1 .. MAXOPBLOCKS)
          /\ s[2] <= MAXOPBLOCKS - Cardinality(wrote'[s[1][1]][s[1][2]])
      BY Zenon DEF Slack
    <3>2. s[1] \in Tickets /\ s[1] # <<p, d>>
      BY Zenon, <2>4, <3>1
    <3>3. /\ s[1][1] \in Proc /\ s[1][2] \in 1 .. 2
          /\ s[1] = <<s[1][1], s[1][2]>>
      BY <3>2 DEF Tickets
    <3>4. wrote'[s[1][1]][s[1][2]] = wrote[s[1][1]][s[1][2]]
      BY Zenon, <2>3, <3>2, <3>3
    <3>5. s \in Tickets \X (1 .. MAXOPBLOCKS)
      BY Zenon, <3>1, <3>2
    <3> QED BY Zenon, <3>1, <3>4, <3>5 DEF Slack
  <2>6. Cardinality(Slack)' <= Cardinality(Slack)
    BY Zenon, <2>5, FiniteTickets, FS_Subset
  <2>7. Len(lh') + Cardinality(Slack)' <= LOGBLOCKS
    BY <1>c, <1>f, <1>l, <2>2, <2>6, FiniteTickets DEF SpaceInv
  <2>8. \A q \in Proc, e \in 1 .. 2 :
          /\ IsFiniteSet(wrote'[q][e])
          /\ Cardinality(wrote'[q][e]) <= OPWRITES
          /\ wrote'[q][e] \subseteq Range(lh')
          /\ e > depth'[q] => wrote'[q][e] = {}
    <3> SUFFICES ASSUME NEW q \in Proc, NEW e \in 1 .. 2
                 PROVE  /\ IsFiniteSet(wrote'[q][e])
                        /\ Cardinality(wrote'[q][e]) <= OPWRITES
                        /\ wrote'[q][e] \subseteq Range(lh')
                        /\ e > depth'[q] => wrote'[q][e] = {}
      BY Zenon
    <3>1. CASE wrote'[q][e] = {}
      BY <1>c, <3>1, FS_EmptySet
    <3>2. CASE q # p \/ e # d
      <4>1. e > depth'[q] => e > depth[q]
        BY <2>1, <2>2, <3>2 DEF LogTypeOK
      <4> QED BY Zenon, <2>2, <2>3, <3>2, <4>1 DEF SpaceInv
    <3> QED BY Zenon, <2>3, <3>1, <3>2
  <2> QED BY Zenon, <2>2, <2>7, <2>8, <2>p DEF SpaceInv
<1>5. ASSUME NEW p \in Proc, WriteLog(p) \/ Install(p) \/ CommitDone(p)
      PROVE  SpaceInv'
  BY Zenon, <1>5, <1>u DEF WriteLog, Install, CommitDone, memVars, diskVars
<1>6. ASSUME NEW p \in Proc, WriteHead(p)
      PROVE  SpaceInv'
  <2>1. head' = lh /\ UNCHANGED <<depth, wrote, lh, panicked>>
    BY Zenon, <1>6 DEF WriteHead, memVars
  <2>2. Slack' = Slack
    BY Zenon, <2>1 DEF Slack, Tickets
  <2> QED BY Zenon, <1>l, <2>1, <2>2 DEF SpaceInv
<1>e. ASSUME \A p \in Proc : depth[p] = 0, UNCHANGED <<depth, wrote, panicked>>,
             Len(lh') <= LOGBLOCKS, Len(head') <= LOGBLOCKS, Len(lh') \in Nat
      PROVE  SpaceInv'
  <2>1. Cardinality(Slack)' = 0
    BY Zenon, <1>e, NoTickets DEF Slack, Tickets
  <2>2. \A q \in Proc, d \in 1 .. 2 : wrote[q][d] = {}
    BY Zenon, <1>e, NoTickets
  <2>3. Len(lh') + Cardinality(Slack)' <= LOGBLOCKS
    BY <1>c, <1>e, <2>1
  <2> QED BY Zenon, <1>e, <2>2, <2>3 DEF SpaceInv
<1>7. ASSUME NEW p \in Proc, ClearHead(p)
      PROVE  SpaceInv'
  <2>1. \A q \in Proc : depth[q] = 0
    BY Zenon, <1>7 DEF ClearHead, Running, ControlInv, CommitsAlone
  <2> QED BY <1>7, <1>c, <1>e, <2>1, EmptyBlocks DEF ClearHead
<1>8. ASSUME NEW b \in Block, Recycle(b)
      PROVE  SpaceInv'
  BY Zenon, <1>8, <1>u DEF Recycle, diskVars
<1>9. CASE Crash
  <2>1. Tickets' = {}
    BY <1>9 DEF Crash, Tickets
  <2>2. Slack' = {}
    BY Zenon, <2>1 DEF Slack
  <2>3. Cardinality(Slack)' = 0 /\ Len(lh') = 0
    BY Zenon, <1>9, <2>2, EmptyBlocks, FS_EmptySet DEF Crash
  <2>4. \A q \in Proc, d \in 1 .. 2 : wrote'[q][d] = {}
    BY Zenon, <1>9 DEF Crash
  <2>5. \A q \in Proc, d \in 1 .. 2 :
          /\ IsFiniteSet(wrote'[q][d])
          /\ Cardinality(wrote'[q][d]) = 0
          /\ wrote'[q][d] \subseteq Range(lh')
    BY <2>4, FS_EmptySet, Zenon
  <2>6. ~panicked' /\ head' = head
    BY Zenon, <1>9 DEF Crash, diskVars
  <2> QED BY <1>c, <2>3, <2>4, <2>5, <2>6 DEF SpaceInv
<1>i. ASSUME boot # "up"
      PROVE  \A q \in Proc : depth[q] = 0
  BY Zenon, <1>i DEF ControlInv
<1>10. CASE ReadHead
  <2>1. lh' = head /\ UNCHANGED <<depth, wrote, panicked, head>>
    BY Zenon, <1>10 DEF ReadHead, diskVars
  <2>2. \A q \in Proc : depth[q] = 0
    BY Zenon, <1>10, <1>i DEF ReadHead
  <2>3. Len(head) <= LOGBLOCKS /\ Len(head) \in Nat
    BY DEF SpaceInv, LogTypeOK
  <2> QED BY Zenon, <1>e, <2>1, <2>2, <2>3
<1>11. CASE RecoverInstall
  BY Zenon, <1>11, <1>u DEF RecoverInstall, memVars
<1>12. CASE RecoverClear
  <2>1. \A q \in Proc : depth[q] = 0
    BY Zenon, <1>12, <1>i DEF RecoverClear
  <2> QED BY <1>12, <1>c, <1>e, <2>1, EmptyBlocks DEF RecoverClear
<1>13. CASE UNCHANGED vars
  BY Zenon, <1>13, <1>u DEF vars, memVars, diskVars
<1> QED
  BY Zenon, <1>1, <1>2, <1>3, <1>4, <1>5, <1>6, <1>7, <1>8, <1>9, <1>10, <1>11,
     <1>12, <1>13, Zenon DEF Next, Step, Recovery

-----------------------------------------------------------------------------
(* What a commit and a recovery find. *)

\* While p commits, the other threads are elsewhere and nobody recovers.
LEMMA CommitterAlone ==
  ASSUME LogTypeOK, ControlInv, NEW p \in Proc, pc[p] \in CommitPlace
  PROVE  /\ committing /\ boot = "up" /\ outstanding = 0
         /\ \A q \in Proc \ {p} : pc[q] \notin CommitPlace
         /\ \A q \in Proc : depth[q] = 0
BY Zenon DEF ControlInv, CommitsAlone, CommitPlace

\* A block has one position in the list.
LEMMA Positions ==
  ASSUME NEW s \in Seq(Block), IsInjective(s)
  PROVE  /\ \A i \in 1 .. Len(s) : s[i] \in Block
         /\ \A i, j \in 1 .. Len(s) : s[i] = s[j] => i = j
         /\ Range(s) = {s[i] : i \in 1 .. Len(s)}
BY DEF IsInjective, Range

\* Recovery would find the blocks of the header in the log, others at home.
RecoveredFacts ==
  /\ Recovered = [b \in Block |-> Recovered[b]]
  /\ \A i \in 1 .. Len(head) : Recovered[head[i]] = log[i]
  /\ \A b \in Block \ Range(head) : Recovered[b] = home[b]

\* The positions of the header are unique.
LEMMA RecoveredValue == LogInv => RecoveredFacts
<1> SUFFICES ASSUME LogInv PROVE RecoveredFacts
  BY Zenon
<1>1. /\ \A i \in 1 .. Len(head) : head[i] \in Block
      /\ \A i, j \in 1 .. Len(head) : head[i] = head[j] => i = j
      /\ Range(head) = {head[i] : i \in 1 .. Len(head)}
  BY Zenon, Positions DEF LogInv, LogTypeOK, DataInv
<1>2. Recovered = [b \in Block |-> Recovered[b]]
  BY Zenon DEF Recovered
<1>3. ASSUME NEW i \in 1 .. Len(head)
      PROVE  Recovered[head[i]] = log[i]
  <2> DEFINE b == head[i]
             j == CHOOSE k \in 1 .. Len(head) : head[k] = b
  <2>1. \E k \in 1 .. Len(head) : head[k] = b
    BY Zenon
  <2>2. j \in 1 .. Len(head) /\ head[j] = b
    BY Zenon, <2>1
  <2>3. j = i
    BY Zenon, <1>1, <2>2
  <2>4. b \in Block
    BY Zenon, <1>1
  <2>5. Recovered[b] = log[j]
    BY Zenon, <2>1, <2>4 DEF Recovered
  <2> QED BY Zenon, <2>3, <2>5
<1>4. ASSUME NEW b \in Block \ Range(head)
      PROVE  Recovered[b] = home[b]
  <2>1. ~\E k \in 1 .. Len(head) : head[k] = b
    BY Zenon, <1>1
  <2> QED BY Zenon, <2>1 DEF Recovered
<1> QED BY Zenon, <1>2, <1>3, <1>4 DEF RecoveredFacts

\* Two states with the same header recover the same contents if the log
\* agrees on its blocks and the disk agrees elsewhere.
LEMMA RecoveredSame ==
  ASSUME LogInv, LogInv', head' = head,
         \A i \in 1 .. Len(head) : log'[i] = log[i],
         \A b \in Block \ Range(head) : home'[b] = home[b]
  PROVE  Recovered' = Recovered
<1>1. RecoveredFacts
  BY Zenon, RecoveredValue
<1>2. RecoveredFacts'
  BY RecoveredValue, PTL
<1>3. Range(head) = {head[i] : i \in 1 .. Len(head)}
  BY Zenon, Positions DEF LogInv, LogTypeOK, DataInv
<1>4. \A b \in Block : Recovered'[b] = Recovered[b]
  <2> SUFFICES ASSUME NEW b \in Block PROVE Recovered'[b] = Recovered[b]
    BY Zenon
  <2>1. CASE b \in Range(head)
    <3>1. PICK i \in 1 .. Len(head) : b = head[i]
      BY Zenon, <1>3, <2>1
    <3> QED BY <1>1, <1>2, <3>1 DEF RecoveredFacts
  <2>2. CASE b \notin Range(head)
    BY Zenon, <1>1, <1>2, <2>2 DEF RecoveredFacts
  <2> QED BY Zenon, <2>1, <2>2
<1> QED BY Zenon, <1>1, <1>2, <1>4 DEF RecoveredFacts

\* The second write_head() changes nothing: all blocks of the header are
\* at home by then.
LEMMA RecoveredCleared ==
  ASSUME LogInv, LogInv', head' = <<>>, home' = home,
         \A i \in 1 .. Len(head) : home[head[i]] = log[i]
  PROVE  Recovered' = Recovered /\ Recovered' = home
<1>1. RecoveredFacts
  BY Zenon, RecoveredValue
<1>2. RecoveredFacts'
  BY RecoveredValue, PTL
<1>3. Range(head) = {head[i] : i \in 1 .. Len(head)} /\ Range(head') = {}
  BY Zenon, Positions, EmptyBlocks DEF LogInv, LogTypeOK, DataInv
<1>4. \A b \in Block : Recovered'[b] = home[b]
  BY Zenon, <1>2, <1>3 DEF RecoveredFacts
<1>5. \A b \in Block : Recovered[b] = home[b]
  <2> SUFFICES ASSUME NEW b \in Block PROVE Recovered[b] = home[b]
    BY Zenon
  <2>1. CASE b \in Range(head)
    <3>1. PICK i \in 1 .. Len(head) : b = head[i]
      BY Zenon, <1>3, <2>1
    <3> QED BY Zenon, <1>1, <3>1 DEF RecoveredFacts
  <2>2. CASE b \notin Range(head)
    BY Zenon, <1>1, <2>2 DEF RecoveredFacts
  <2> QED BY Zenon, <2>1, <2>2
<1>6. home = [b \in Block |-> home[b]]
  BY Zenon DEF LogInv, LogTypeOK
<1>7. Recovered = [b \in Block |-> home[b]]
  BY Zenon, <1>1, <1>5 DEF RecoveredFacts
<1>8. Recovered' = [b \in Block |-> home[b]]
  BY Zenon, <1>2, <1>4 DEF RecoveredFacts
<1> QED BY Zenon, <1>6, <1>7, <1>8

\* write_head() is the commit: afterwards recovery finds what calls see.
LEMMA HeadCommits ==
  ASSUME LogInv, LogInv', NEW p \in Proc, WriteHead(p)
  PROVE  Recovered' = Seen
<1>1. RecoveredFacts'
  BY RecoveredValue, PTL
<1>2. /\ head' = lh /\ log' = log /\ home' = home
      /\ pinned = Range(lh) /\ Logged(1 .. Len(lh))
  BY Zenon DEF WriteHead, Running, LogInv, DataInv, CommitInv
<1>3. /\ \A i \in 1 .. Len(lh) : lh[i] \in Block
      /\ Range(lh) = {lh[i] : i \in 1 .. Len(lh)}
  BY Zenon, Positions DEF LogInv, LogTypeOK, DataInv
<1>4. CacheInv
  BY Zenon DEF LogInv, DataInv
<1>5. \A b \in Block : Recovered'[b] = Seen[b]
  <2> SUFFICES ASSUME NEW b \in Block PROVE Recovered'[b] = Seen[b]
    BY Zenon
  <2>1. CASE b \in Range(lh)
    <3>1. PICK i \in 1 .. Len(lh) : b = lh[i]
      BY Zenon, <1>3, <2>1
    <3>2. Recovered'[b] = log[i] /\ log[i] = cache[b]
      BY Zenon, <1>1, <1>2, <3>1 DEF RecoveredFacts, Logged
    <3>3. cache[b] # Absent
      BY Zenon, <1>2, <1>4, <2>1 DEF CacheInv
    <3> QED BY Zenon, <3>2, <3>3 DEF Seen
  <2>2. CASE b \notin Range(lh)
    <3>1. Recovered'[b] = home[b]
      BY Zenon, <1>1, <1>2, <2>2 DEF RecoveredFacts
    <3>2. cache[b] \in {Absent, home[b]}
      BY Zenon, <1>2, <1>4, <2>2 DEF CacheInv
    <3> QED BY Zenon, <3>1, <3>2 DEF Seen
  <2> QED BY Zenon, <2>1, <2>2
<1>6. Seen = [b \in Block |-> Seen[b]]
  BY Zenon DEF Seen
<1> QED BY Zenon, <1>1, <1>5, <1>6 DEF RecoveredFacts

-----------------------------------------------------------------------------
(* Contents. *)

\* An empty log and an empty cache.
LEMMA InitData == Init => DataInv
<1> SUFFICES ASSUME Init PROVE DataInv
  BY Zenon
<1>1. IsInjective(lh) /\ IsInjective(head) /\ Range(lh) = {}
  BY Zenon, EmptyBlocks DEF Init
<1>2. CacheInv
  BY Zenon DEF Init, CacheInv
<1>3. IdleInv /\ RecoveryInv
  BY Zenon, <1>1 DEF Init, IdleInv, RecoveryInv
<1>4. \A p \in Proc : CommitInv(p)
  BY Zenon DEF Init, CommitInv
<1> QED BY Zenon, <1>1, <1>2, <1>3, <1>4 DEF DataInv

\* The steps of begin_op(), log_write() and end_op().
LEMMA OpData ==
  ASSUME LogTypeOK, ControlInv, SpaceInv, DataInv, LogTypeOK', ControlInv',
         NEW p \in Proc,
         \/ StartOp(p) \/ BeginSleep(p) \/ BeginOp(p) \/ EndOp(p)
         \/ \E b \in Block, v \in Val : LogWrite(p, b, v)
  PROVE  DataInv'
<1>u. ASSUME UNCHANGED <<tail, lh, cache, pinned, head, log, home>>
      PROVE  /\ CacheInv' /\ IsInjective(lh') /\ IsInjective(head')
             /\ \A q \in Proc : pc'[q] = pc[q] => CommitInv(q)'
  BY <1>u DEF DataInv, CacheInv, CommitInv, Logged, Installed
<1>1. CASE StartOp(p) \/ BeginSleep(p)
  <2>1. /\ UNCHANGED <<tail, lh, cache, pinned, head, log, home, boot,
                       committing, outstanding>>
        /\ \A q \in Proc : pc'[q] = pc[q] \/ pc'[q] \notin CommitPlace
    BY Zenon, <1>1 DEF StartOp, BeginSleep, Goto, memVars, diskVars, LogTypeOK,
                CommitPlace
  <2>2. IdleInv' /\ RecoveryInv'
    BY Zenon, <2>1 DEF DataInv, IdleInv, RecoveryInv, Installed
  <2>3. \A q \in Proc : CommitInv(q)'
    BY Zenon, <1>u, <2>1 DEF CommitInv, CommitPlace
  <2> QED BY Zenon, <1>u, <2>1, <2>2, <2>3 DEF DataInv
<1>2. CASE BeginOp(p)
  <2>1. /\ UNCHANGED <<tail, lh, cache, pinned, head, log, home, boot,
                       committing>>
        /\ outstanding' = outstanding + 1 /\ boot = "up" /\ ~committing
        /\ \A q \in Proc : pc'[q] = pc[q] \/ pc'[q] = "op"
    BY Zenon, <1>2 DEF BeginOp, Goto, diskVars, LogTypeOK, Running, MustWait
  <2>2. IdleInv' /\ RecoveryInv'
    BY <2>1 DEF DataInv, IdleInv, RecoveryInv, LogTypeOK
  <2>3. \A q \in Proc : CommitInv(q)'
    BY Zenon, <1>u, <2>1 DEF CommitInv
  <2> QED BY Zenon, <1>u, <2>1, <2>2, <2>3 DEF DataInv
<1>3. CASE EndOp(p)
  <2>1. outstanding >= 1 /\ ~committing /\ boot = "up"
    BY Zenon, <1>3, OpHoldsTicket DEF EndOp, Running
  <2>2. /\ UNCHANGED <<lh, cache, pinned, head, log, home, boot>>
        /\ tail' = 1 /\ outstanding' = outstanding - 1
    BY Zenon, <1>3 DEF EndOp, diskVars
  <2>3. CacheInv' /\ IsInjective(lh') /\ IsInjective(head') /\ RecoveryInv'
    BY Zenon, <2>1, <2>2 DEF DataInv, CacheInv, RecoveryInv
  <2>4. head = <<>> /\ pinned = Range(lh)
    BY Zenon, <2>1 DEF DataInv, IdleInv
  <2>5. CASE outstanding = 1
    <3>1. committing'
      BY Zenon, <1>3, <2>5 DEF EndOp
    <3>2. \A q \in Proc \ {p} : CommitInv(q)'
      <4>1. ASSUME NEW q \in Proc \ {p}
            PROVE  pc'[q] \notin CommitPlace
        <5>1. pc'[q] = pc[q]
          BY Zenon, <1>3, <2>5 DEF EndOp, Goto, LogTypeOK
        <5> QED BY Zenon, <2>1, <5>1 DEF ControlInv
      <4> QED BY Zenon, <4>1 DEF CommitInv, CommitPlace
    <3>3. CASE lh = <<>>
      <4>1. pc'[p] = "wake" /\ pinned = {}
        BY Zenon, <1>3, <2>4, <2>5, <3>3, EmptyBlocks DEF EndOp, Goto,
           LogTypeOK
      <4>2. CommitInv(p)'
        BY Zenon, <2>2, <2>4, <3>3, <4>1 DEF CommitInv
      <4> QED BY Zenon, <2>3, <3>1, <3>2, <4>2 DEF DataInv, IdleInv
    <3>4. CASE lh # <<>>
      <4>1. pc'[p] = "write_log" /\ Len(lh) >= 1
        BY <1>3, <2>5, <3>4 DEF EndOp, Goto, LogTypeOK
      <4>2. tail' \in 1 .. Len(lh') /\ Logged(1 .. (tail - 1))'
        BY <2>2, <4>1 DEF Logged, LogTypeOK
      <4>3. CommitInv(p)'
        BY Zenon, <2>2, <2>4, <4>1, <4>2 DEF CommitInv
      <4> QED BY <2>3, <3>1, <3>2, <4>3 DEF DataInv, IdleInv
    <3> QED BY Zenon, <3>3, <3>4
  <2>6. CASE outstanding # 1
    <3>1. ~committing' /\ outstanding' # 0
      BY <1>3, <2>1, <2>2, <2>6 DEF EndOp, LogTypeOK
    <3>2. \A q \in Proc : CommitInv(q)'
      BY Zenon, <3>1 DEF ControlInv, CommitInv, CommitPlace
    <3>3. IdleInv'
      BY Zenon, <2>2, <2>4, <3>1 DEF IdleInv
    <3> QED BY Zenon, <2>3, <3>2, <3>3 DEF DataInv
  <2> QED BY Zenon, <2>5, <2>6
<1>4. ASSUME NEW b \in Block, NEW v \in Val, LogWrite(p, b, v)
      PROVE  DataInv'
  <2>1. outstanding >= 1 /\ ~committing /\ boot = "up"
    BY Zenon, <1>4, OpHoldsTicket DEF LogWrite, Running
  <2>2. /\ cache' = [cache EXCEPT ![b] = v]
        /\ IF b \in Range(lh)
           THEN UNCHANGED <<lh, pinned>>
           ELSE lh' = Append(lh, b) /\ pinned' = pinned \cup {b}
        /\ UNCHANGED <<outstanding, committing, boot, head, home>>
    BY <1>4, LogWriteEffect
  <2>3. head = <<>> /\ pinned = Range(lh)
    BY Zenon, <2>1 DEF DataInv, IdleInv
  <2>4. /\ IsInjective(lh') /\ pinned' = Range(lh')
        /\ pinned' = pinned \cup {b}
    <3>1. CASE b \in Range(lh)
      BY Zenon, <2>2, <2>3, <3>1 DEF DataInv
    <3>2. CASE b \notin Range(lh)
      <4>1. lh \in Seq(Block) /\ IsInjective(lh)
        BY Zenon DEF LogTypeOK, DataInv
      <4>2. /\ Range(Append(lh, b)) = Range(lh) \cup {b}
            /\ IsInjective(Append(lh, b))
        BY Zenon, <3>2, <4>1, AppendBlock
      <4> QED BY Zenon, <2>2, <2>3, <3>2, <4>2
    <3> QED BY Zenon, <3>1, <3>2
  <2>5. CacheInv'
    <3>1. v # Absent
      BY Zenon, LogAssumption
    <3> QED BY Zenon, <2>2, <2>4, <3>1 DEF DataInv, CacheInv, LogTypeOK
  <2>6. IdleInv' /\ RecoveryInv'
    BY <2>1, <2>2, <2>3, <2>4 DEF IdleInv, RecoveryInv, LogTypeOK
  <2>7. \A q \in Proc : CommitInv(q)'
    BY Zenon, <2>1, <2>2 DEF ControlInv, CommitInv, CommitPlace
  <2> QED BY Zenon, <2>2, <2>4, <2>5, <2>6, <2>7 DEF DataInv
<1> QED BY Zenon, <1>1, <1>2, <1>3, <1>4

\* The steps of commit().
LEMMA CommitData ==
  ASSUME LogTypeOK, ControlInv, SpaceInv, DataInv, LogTypeOK', ControlInv',
         NEW p \in Proc,
         \/ WriteLog(p) \/ WriteHead(p) \/ Install(p) \/ ClearHead(p)
         \/ CommitDone(p)
  PROVE  DataInv'
<1>1. /\ pc[p] \in CommitPlace
      /\ boot' = boot /\ outstanding' = outstanding
      /\ \A q \in Proc \ {p} : pc'[q] = pc[q] \/ pc'[q] = "begin"
  BY DEF WriteLog, WriteHead, Install, ClearHead, CommitDone, Running, Goto,
         GotoAndWake, CommitPlace, LogTypeOK, memVars
<1>2. /\ committing /\ boot = "up" /\ outstanding = 0
      /\ \A q \in Proc \ {p} : pc[q] \notin CommitPlace
  BY Zenon, <1>1, CommitterAlone
<1>3. \A q \in Proc \ {p} : CommitInv(q)'
  BY Zenon, <1>1, <1>2 DEF CommitInv, CommitPlace
<1>4. RecoveryInv'
  BY Zenon, <1>1, <1>2 DEF RecoveryInv
<1>5. lh \in Seq(Block) /\ IsInjective(lh) /\ Len(lh) \in Nat
  BY DEF LogTypeOK, DataInv
<1>6. /\ \A i \in 1 .. Len(lh) : lh[i] \in Block
      /\ \A i, j \in 1 .. Len(lh) : lh[i] = lh[j] => i = j
      /\ Range(lh) = {lh[i] : i \in 1 .. Len(lh)}
  BY Zenon, <1>5, Positions
<1>7. 1 .. Len(lh) \subseteq Slot
  BY Zenon, LogFits
<1>8. CASE WriteLog(p)
  <2>1. /\ head = <<>> /\ pinned = Range(lh)
        /\ tail \in 1 .. Len(lh) /\ Logged(1 .. (tail - 1))
    BY Zenon, <1>8 DEF WriteLog, Running, DataInv, CommitInv
  <2>2. /\ log' = [log EXCEPT ![tail] = cache[lh[tail]]]
        /\ UNCHANGED <<lh, cache, pinned, committing, head, home>>
    BY Zenon, <1>8 DEF WriteLog, memVars
  <2>3. \A i \in 1 .. tail : log'[i] = cache'[lh'[i]]
    BY <1>5, <1>7, <2>1, <2>2 DEF Logged, LogTypeOK
  <2>4. CommitInv(p)'
    <3>1. CASE tail = Len(lh)
      <4>1. pc'[p] = "write_head" /\ tail' = 1
        BY Zenon, <1>8, <3>1 DEF WriteLog, Goto, LogTypeOK
      <4>2. lh # <<>>
        BY <2>1, <3>1, EmptyBlocks
      <4>3. Logged(1 .. Len(lh))'
        BY Zenon, <2>2, <2>3, <3>1 DEF Logged
      <4> QED BY Zenon, <2>1, <2>2, <4>1, <4>2, <4>3 DEF CommitInv
    <3>2. CASE tail # Len(lh)
      <4>1. pc'[p] = "write_log" /\ tail' = tail + 1
        BY Zenon, <1>8, <3>2 DEF WriteLog, Running
      <4>2. tail' \in 1 .. Len(lh') /\ tail' - 1 = tail
        BY <1>5, <2>1, <2>2, <3>2, <4>1
      <4>3. Logged(1 .. (tail - 1))'
        BY Zenon, <2>3, <4>2 DEF Logged
      <4> QED BY Zenon, <2>1, <2>2, <4>1, <4>2, <4>3 DEF CommitInv
    <3> QED BY Zenon, <3>1, <3>2
  <2>5. CacheInv'
    BY Zenon, <2>2 DEF DataInv, CacheInv
  <2> QED BY Zenon, <1>2, <1>3, <1>4, <2>2, <2>4, <2>5 DEF DataInv, IdleInv
<1>9. CASE WriteHead(p)
  <2>1. /\ pinned = Range(lh) /\ tail = 1
        /\ lh # <<>> /\ Logged(1 .. Len(lh))
    BY Zenon, <1>9 DEF WriteHead, Running, DataInv, CommitInv
  <2>2. /\ head' = lh /\ pc'[p] = "install"
        /\ UNCHANGED <<tail, lh, cache, pinned, committing, log, home>>
    BY Zenon, <1>9 DEF WriteHead, Goto, memVars, LogTypeOK
  <2>3. Len(lh) >= 1
    BY <1>5, <2>1
  <2>4. CommitInv(p)'
    <3>1. tail' \in 1 .. Len(lh')
      BY <1>5, <2>1, <2>2, <2>3
    <3>2. pinned' = {lh'[i] : i \in tail' .. Len(lh')}
      BY Zenon, <1>6, <2>1, <2>2
    <3>3. Logged(tail .. Len(lh))' /\ Installed(1 .. (tail - 1))'
      BY <2>1, <2>2 DEF Logged, Installed
    <3> QED BY Zenon, <2>2, <3>1, <3>2, <3>3 DEF CommitInv
  <2>5. CacheInv'
    BY Zenon, <2>2 DEF DataInv, CacheInv
  <2> QED BY Zenon, <1>2, <1>3, <1>4, <1>5, <2>2, <2>4, <2>5
           DEF DataInv, IdleInv
<1>10. CASE Install(p)
  <2>1. /\ head = lh /\ tail \in 1 .. Len(lh)
        /\ pinned = {lh[i] : i \in tail .. Len(lh)}
        /\ Logged(tail .. Len(lh)) /\ Installed(1 .. (tail - 1))
    BY Zenon, <1>10 DEF Install, Running, DataInv, CommitInv
  <2>2. /\ home' = [home EXCEPT ![lh[tail]] = log[tail]]
        /\ cache' = [cache EXCEPT ![lh[tail]] = log[tail]]
        /\ pinned' = pinned \ {lh[tail]}
        /\ UNCHANGED <<lh, committing, head, log>>
    BY Zenon, <1>10 DEF Install
  <2>3. pinned' = {lh[i] : i \in (tail + 1) .. Len(lh)}
    <3>1. tail .. Len(lh) = {tail} \cup ((tail + 1) .. Len(lh))
      BY <1>5, <2>1
    <3>2. \A i \in (tail + 1) .. Len(lh) : lh[i] # lh[tail]
      BY <1>5, <1>6, <2>1
    <3>3. pinned = {lh[tail]} \cup {lh[i] : i \in (tail + 1) .. Len(lh)}
      BY Zenon, <2>1, <3>1
    <3> QED BY Zenon, <2>2, <3>2, <3>3
  <2>4. \A i \in 1 .. tail : home'[lh'[i]] = log'[i]
    BY <1>5, <1>6, <2>1, <2>2 DEF Installed, LogTypeOK
  <2>5. \A i \in (tail + 1) .. Len(lh) : log'[i] = cache'[lh'[i]]
    BY <1>5, <1>6, <2>1, <2>2 DEF Logged, LogTypeOK
  <2>6. CacheInv'
    <3>1. lh[tail] \in Block /\ lh[tail] \notin pinned'
      BY Zenon, <1>6, <2>1, <2>2
    <3> QED BY Zenon, <2>2, <3>1 DEF DataInv, CacheInv, LogTypeOK
  <2>7. CommitInv(p)'
    <3>1. CASE tail = Len(lh)
      <4>1. pc'[p] = "clear"
        BY <1>10, <3>1 DEF Install, Goto, LogTypeOK
      <4>2. pinned' = {}
        BY <1>5, <2>3, <3>1
      <4>3. Installed(1 .. Len(lh))'
        BY Zenon, <2>2, <2>4, <3>1 DEF Installed
      <4> QED BY Zenon, <2>1, <2>2, <4>1, <4>2, <4>3 DEF CommitInv
    <3>2. CASE tail # Len(lh)
      <4>1. pc'[p] = "install" /\ tail' = tail + 1
        BY Zenon, <1>10, <3>2 DEF Install, Running
      <4>2. tail' \in 1 .. Len(lh') /\ tail' - 1 = tail
        BY <1>5, <2>1, <2>2, <3>2, <4>1
      <4>3. Logged(tail .. Len(lh))' /\ Installed(1 .. (tail - 1))'
        BY Zenon, <2>2, <2>4, <2>5, <4>1, <4>2 DEF Logged, Installed
      <4>4. pinned' = {lh'[i] : i \in tail' .. Len(lh')}
        BY Zenon, <2>2, <2>3, <4>1
      <4> QED BY Zenon, <2>1, <2>2, <4>1, <4>2, <4>3, <4>4 DEF CommitInv
    <3> QED BY <3>1, <3>2
  <2> QED BY Zenon, <1>2, <1>3, <1>4, <2>2, <2>6, <2>7 DEF DataInv, IdleInv
<1>11. CASE ClearHead(p)
  <2>1. pinned = {}
    BY Zenon, <1>11 DEF ClearHead, Running, DataInv, CommitInv
  <2>2. /\ lh' = <<>> /\ head' = <<>> /\ pc'[p] = "wake"
        /\ UNCHANGED <<cache, pinned, committing, home>>
    BY Zenon, <1>11 DEF ClearHead, Goto, LogTypeOK
  <2>3. CommitInv(p)' /\ CacheInv'
    BY Zenon, <2>1, <2>2 DEF CommitInv, DataInv, CacheInv
  <2>4. IsInjective(lh') /\ IsInjective(head')
    BY Zenon, <2>2, EmptyBlocks
  <2> QED BY Zenon, <1>2, <1>3, <1>4, <2>2, <2>3, <2>4 DEF DataInv, IdleInv
<1>12. CASE CommitDone(p)
  <2>1. head = <<>> /\ lh = <<>> /\ pinned = {}
    BY Zenon, <1>12 DEF CommitDone, Running, DataInv, CommitInv
  <2>2. /\ UNCHANGED <<lh, head, cache, pinned, home>>
        /\ pc'[p] = "idle"
    BY Zenon, <1>12 DEF CommitDone, GotoAndWake, LogTypeOK, diskVars
  <2>3. CommitInv(p)' /\ CacheInv'
    BY Zenon, <2>2 DEF CommitInv, DataInv, CacheInv
  <2>4. IdleInv'
    BY Zenon, <2>1, <2>2, EmptyBlocks DEF IdleInv
  <2> QED BY Zenon, <1>3, <1>4, <2>2, <2>3, <2>4 DEF DataInv
<1> QED BY Zenon, <1>8, <1>9, <1>10, <1>11, <1>12

\* Recycled buffers, crashes and the steps of recovery.
LEMMA RestData ==
  ASSUME LogTypeOK, ControlInv, SpaceInv, DataInv, LogTypeOK', ControlInv',
         (\E b \in Block : Recycle(b)) \/ Crash \/ Recovery
  PROVE  DataInv'
<1>1. ASSUME NEW b \in Block, Recycle(b)
      PROVE  DataInv'
  <2>1. /\ b \notin pinned /\ cache' = [cache EXCEPT ![b] = Absent]
        /\ UNCHANGED <<pc, tail, outstanding, committing, lh, pinned, boot,
                       head, log, home>>
    BY Zenon, <1>1 DEF Recycle, diskVars
  <2>2. CacheInv'
    BY Zenon, <2>1 DEF DataInv, CacheInv, LogTypeOK
  <2>3. IdleInv' /\ RecoveryInv'
    BY Zenon, <2>1 DEF DataInv, IdleInv, RecoveryInv, Installed
  <2>4. ASSUME NEW q \in Proc
        PROVE  CommitInv(q)'
    <3>1. ASSUME NEW S \in SUBSET (1 .. Len(lh)),
                 {lh[i] : i \in S} \subseteq pinned, Logged(S)
          PROVE  Logged(S)'
      BY Zenon, <2>1, <3>1 DEF Logged, LogTypeOK
    <3>2. CommitInv(q) /\ Len(lh) \in Nat
      BY DEF DataInv, LogTypeOK
    <3>3. Range(lh) = {lh[i] : i \in 1 .. Len(lh)}
      BY DEF LogTypeOK, Range
    <3>4. CASE pc[q] = "write_log"
      <4>1. Logged(1 .. (tail - 1))'
        <5>1. 1 .. (tail - 1) \subseteq 1 .. Len(lh)
          BY <3>2, <3>4 DEF CommitInv
        <5>2. {lh[i] : i \in 1 .. (tail - 1)} \subseteq pinned
          BY Zenon, <3>2, <3>3, <3>4, <5>1 DEF CommitInv
        <5>3. Logged(1 .. (tail - 1))
          BY Zenon, <3>2, <3>4 DEF CommitInv
        <5> QED BY <2>1, <5>1, <5>2, <5>3 DEF Logged, LogTypeOK
      <4> QED BY Zenon, <2>1, <3>2, <3>4, <4>1 DEF CommitInv
    <3>5. CASE pc[q] = "write_head"
      <4>1. Logged(1 .. Len(lh))'
        BY <2>1, <3>2, <3>3, <3>5 DEF CommitInv, Logged, LogTypeOK
      <4> QED BY Zenon, <2>1, <3>2, <3>5, <4>1 DEF CommitInv
    <3>6. CASE pc[q] = "install"
      <4>1. Logged(tail .. Len(lh))' /\ Installed(1 .. (tail - 1))'
        BY <2>1, <3>2, <3>6 DEF CommitInv, Logged, Installed, LogTypeOK
      <4> QED BY Zenon, <2>1, <3>2, <3>6, <4>1 DEF CommitInv
    <3>7. CASE pc[q] \notin {"write_log", "write_head", "install"}
      BY Zenon, <2>1, <3>2, <3>7 DEF CommitInv, Installed
    <3> QED BY Zenon, <3>4, <3>5, <3>6, <3>7
  <2> QED BY Zenon, <2>1, <2>2, <2>3, <2>4 DEF DataInv
<1>2. CASE Crash
  <2>1. /\ lh' = <<>> /\ pinned' = {} /\ boot' = "read_head" /\ head' = head
        /\ cache' = [b \in Block |-> Absent] /\ pc' = [q \in Proc |-> "idle"]
    BY Zenon, <1>2 DEF Crash, diskVars
  <2>2. CacheInv' /\ IdleInv' /\ RecoveryInv'
    BY Zenon, <2>1 DEF CacheInv, IdleInv, RecoveryInv
  <2>3. \A q \in Proc : CommitInv(q)'
    BY Zenon, <2>1 DEF CommitInv
  <2> QED BY Zenon, <2>1, <2>2, <2>3, EmptyBlocks DEF DataInv
<1>3. CASE Recovery
  <2>1. /\ boot # "up" /\ UNCHANGED <<pc, cache, pinned, committing, log>>
    BY Zenon, <1>3 DEF Recovery, ReadHead, RecoverInstall, RecoverClear,
       memVars,
                diskVars
  <2>2. /\ pinned = {} /\ \A q \in Proc : pc[q] = "idle"
        /\ \A b \in Block : cache[b] = Absent
    BY Zenon, <2>1 DEF ControlInv
  <2>3. CacheInv' /\ \A q \in Proc : CommitInv(q)'
    BY Zenon, <2>1, <2>2 DEF CacheInv, CommitInv
  <2>4. CASE ReadHead
    <3>1. lh' = head /\ head' = head /\ tail' = 1 /\ home' = home
      BY Zenon, <2>4 DEF ReadHead, diskVars
    <3>2. CASE head = <<>>
      <4>1. boot' = "clear" /\ Len(lh') = 0
        BY Zenon, <2>4, <3>1, <3>2, EmptyBlocks DEF ReadHead
      <4>2. IdleInv' /\ RecoveryInv'
        BY <3>1, <4>1 DEF IdleInv, RecoveryInv, Installed
      <4> QED BY Zenon, <2>3, <3>1, <4>2 DEF DataInv
    <3>3. CASE head # <<>>
      <4>1. boot' = "install" /\ Len(head) \in Nat /\ Len(head) >= 1
        BY <2>4, <3>3 DEF ReadHead, LogTypeOK
      <4>2. IdleInv' /\ RecoveryInv'
        BY <3>1, <4>1 DEF IdleInv, RecoveryInv, Installed
      <4> QED BY <2>3, <3>1, <4>2 DEF DataInv
    <3> QED BY Zenon, <3>2, <3>3
  <2>5. CASE RecoverInstall
    <3>1. /\ head = lh /\ tail \in 1 .. Len(lh) /\ Installed(1 .. (tail - 1))
          /\ home' = [home EXCEPT ![lh[tail]] = log[tail]]
          /\ UNCHANGED <<lh, head>>
      BY Zenon, <2>5 DEF RecoverInstall, DataInv, RecoveryInv, memVars
    <3>2. /\ \A i \in 1 .. Len(lh) : lh[i] \in Block
          /\ \A i, j \in 1 .. Len(lh) : lh[i] = lh[j] => i = j
          /\ Len(lh) \in Nat
      BY Positions DEF LogTypeOK, DataInv
    <3>3. \A i \in 1 .. tail : home'[lh'[i]] = log'[i]
      BY <2>1, <3>1, <3>2 DEF Installed, LogTypeOK
    <3>4. RecoveryInv' /\ IdleInv'
      <4>1. CASE tail = Len(lh)
        <5>1. boot' = "clear"
          BY Zenon, <2>5, <4>1 DEF RecoverInstall
        <5>2. Installed(1 .. Len(lh))'
          BY Zenon, <3>1, <3>3, <4>1 DEF Installed
        <5> QED BY Zenon, <3>1, <5>1, <5>2 DEF RecoveryInv, IdleInv
      <4>2. CASE tail # Len(lh)
        <5>1. boot' = "install" /\ tail' = tail + 1
          BY Zenon, <2>5, <4>2 DEF RecoverInstall
        <5>2. tail' \in 1 .. Len(lh') /\ tail' - 1 = tail
          BY <3>1, <3>2, <4>2, <5>1
        <5>3. Installed(1 .. (tail - 1))'
          BY Zenon, <3>3, <5>2 DEF Installed
        <5> QED BY Zenon, <3>1, <5>1, <5>2, <5>3 DEF RecoveryInv, IdleInv
      <4> QED BY Zenon, <4>1, <4>2
    <3> QED BY Zenon, <2>3, <3>1, <3>4 DEF DataInv
  <2>6. CASE RecoverClear
    <3>1. lh' = <<>> /\ head' = <<>> /\ boot' = "up"
      BY Zenon, <2>6 DEF RecoverClear
    <3>2. RecoveryInv' /\ IdleInv'
      BY Zenon, <2>1, <2>2, <3>1, EmptyBlocks DEF RecoveryInv, IdleInv
    <3>3. IsInjective(lh') /\ IsInjective(head')
      BY Zenon, <3>1, EmptyBlocks
    <3> QED BY Zenon, <2>3, <3>2, <3>3 DEF DataInv
  <2> QED BY Zenon, <1>3, <2>4, <2>5, <2>6 DEF Recovery
<1> QED BY Zenon, <1>1, <1>2, <1>3

-----------------------------------------------------------------------------
(* The invariant, and what follows from it. *)

\* The invariant is inductive.
LEMMA LogInvInductive == LogInv /\ [Next]_vars => LogInv'
<1> SUFFICES ASSUME LogInv, [Next]_vars PROVE LogInv'
  BY Zenon
<1>1. LogTypeOK /\ ControlInv /\ SpaceInv /\ DataInv
  BY Zenon DEF LogInv
<1>2. LogTypeOK'
  BY Zenon, <1>1, StepTypes
<1>3. ControlInv'
  BY Zenon, <1>1, StepControl
<1>4. SpaceInv'
  BY Zenon, <1>1, StepSpace
<1>5. DataInv'
  <2>1. ASSUME NEW p \in Proc,
               \/ StartOp(p) \/ BeginSleep(p) \/ BeginOp(p) \/ EndOp(p)
               \/ \E b \in Block, v \in Val : LogWrite(p, b, v)
        PROVE  DataInv'
    BY Zenon, <1>1, <1>2, <1>3, <2>1, OpData
  <2>2. ASSUME NEW p \in Proc,
               \/ WriteLog(p) \/ WriteHead(p) \/ Install(p) \/ ClearHead(p)
               \/ CommitDone(p)
        PROVE  DataInv'
    BY Zenon, <1>1, <1>2, <1>3, <2>2, CommitData
  <2>3. CASE (\E b \in Block : Recycle(b)) \/ Crash \/ Recovery
    BY Zenon, <1>1, <1>2, <1>3, <2>3, RestData
  <2>4. CASE UNCHANGED vars
    BY <1>1, <2>4 DEF vars, memVars, diskVars, DataInv, CacheInv, IdleInv,
                      RecoveryInv, CommitInv, Logged, Installed
  <2> QED BY <2>1, <2>2, <2>3, <2>4, Zenon DEF Next, Step
<1> QED BY Zenon, <1>2, <1>3, <1>4, <1>5 DEF LogInv

\* The invariant holds in every state, crashes and recovery included.
THEOREM LogInvariant == Spec => []LogInv
<1>1. Init => LogInv
  BY Zenon, InitTypes, InitControl, InitSpace, InitData DEF LogInv
<1> QED BY <1>1, LogInvInductive, PTL DEF Spec

\* The reservation in begin_op() is enough for every number of threads and
\* every size of the log: log_write() and end_op() never panic.
THEOREM LogSpace == Spec => []LogSpaceSuffices
<1>1. LogInv => LogSpaceSuffices
  BY Zenon DEF LogInv, SpaceInv, LogSpaceSuffices
<1> QED BY <1>1, LogInvariant, PTL

\* A commit never contains half of a call: commit() runs when no call is
\* inside a transaction, in one thread.
THEOREM CommitAlone == Spec => []CommitsAlone
<1>1. LogInv => CommitsAlone
  BY Zenon DEF LogInv, ControlInv
<1> QED BY <1>1, LogInvariant, PTL

\* When no call is in progress everything is at home on disk.
THEOREM QuiescentIsDurable == Spec => []QuiescentDurable
<1>1. LogInv => QuiescentDurable
  <2> SUFFICES ASSUME LogInv, boot = "up", outstanding = 0, ~committing
               PROVE  /\ head = <<>> /\ pinned = {}
                      /\ \A b \in Block : Seen[b] = home[b]
    BY Zenon DEF QuiescentDurable
  <2>1. head = <<>> /\ pinned = {}
    BY Zenon, EmptyBlocks DEF LogInv, DataInv, IdleInv
  <2>2. \A b \in Block : cache[b] \in {Absent, home[b]}
    BY Zenon, <2>1 DEF LogInv, DataInv, CacheInv
  <2> QED BY Zenon, <2>1, <2>2 DEF Seen
<1> QED BY <1>1, LogInvariant, PTL

-----------------------------------------------------------------------------
(* The log implements Transactions. *)

\* What file system calls see, and the threads inside a transaction.
Current == IF boot = "up" THEN Seen ELSE Recovered
Active == {p \in Proc : depth[p] > 0}

\* Steps that change neither what is seen, nor what would be recovered, nor
\* who is inside a transaction.
LEMMA Stutters ==
  ASSUME Recovered' = Recovered, Current' = Current, depth' = depth
  PROVE  [T!TNext]_(T!tvars)
BY Zenon DEF T!tvars, Current

\* Every step of the log is a step of Transactions, or changes none of its
\* variables.
LEMMA LogSimulates == LogInv /\ LogInv' /\ [Next]_vars => [T!TNext]_(T!tvars)
<1> SUFFICES ASSUME LogInv, LogInv', [Next]_vars
             PROVE  [T!TNext]_(T!tvars)
  BY Zenon
<1>t. LogTypeOK /\ ControlInv /\ SpaceInv /\ DataInv
  BY Zenon DEF LogInv
<1>r. ASSUME UNCHANGED diskVars
      PROVE  Recovered' = Recovered
  BY Zenon, <1>r DEF Recovered, diskVars
<1>s. ASSUME UNCHANGED <<cache, home, boot>>, Recovered' = Recovered
      PROVE  Current' = Current
  BY Zenon, <1>s DEF Current, Seen
<1>1. ASSUME NEW p \in Proc, StartOp(p) \/ BeginSleep(p) \/ CommitDone(p)
      PROVE  [T!TNext]_(T!tvars)
  <2>1. UNCHANGED <<diskVars, cache, home, boot, depth>>
    BY Zenon, <1>1 DEF StartOp, BeginSleep, CommitDone, memVars, diskVars
  <2> QED BY Zenon, <1>r, <1>s, <2>1, Stutters
<1>2. ASSUME NEW p \in Proc, BeginOp(p)
      PROVE  [T!TNext]_(T!tvars)
  <2>1. /\ UNCHANGED <<diskVars, cache, home, boot>>
        /\ depth' = [depth EXCEPT ![p] = @ + 1]
    BY Zenon, <1>2 DEF BeginOp, diskVars
  <2>2. Recovered' = Recovered /\ Current' = Current
    BY Zenon, <1>r, <1>s, <2>1
  <2>3. CASE depth[p] = 0
    <3>1. p \notin Active /\ Active' = Active \cup {p}
      BY <1>t, <2>1, <2>3 DEF Active, LogTypeOK
    <3>2. T!Begin(p)
      BY Zenon, <2>2, <3>1 DEF T!Begin, Current, Active
    <3> QED BY Zenon, <3>2 DEF T!TNext
  <2>4. CASE depth[p] # 0
    <3>1. Active' = Active
      BY <1>t, <2>1, <2>4 DEF Active, LogTypeOK
    <3> QED BY Zenon, <2>2, <3>1 DEF T!tvars, Current, Active
  <2> QED BY Zenon, <2>3, <2>4
<1>3. ASSUME NEW p \in Proc, NEW b \in Block, NEW v \in Val, LogWrite(p, b, v)
      PROVE  [T!TNext]_(T!tvars)
  <2>1. /\ pc[p] = "op" /\ cache' = [cache EXCEPT ![b] = v]
        /\ UNCHANGED <<diskVars, home, boot, depth>>
    BY <1>3, <1>t, LogWriteEffect DEF diskVars
  <2>2. depth[p] \in 1 .. 2 /\ boot = "up"
    BY Zenon, <1>t, <2>1, OpHoldsTicket
  <2>3. Recovered' = Recovered
    BY Zenon, <1>r, <2>1
  <2>4. Seen' = [Seen EXCEPT ![b] = v]
    <3>1. v # Absent
      BY Zenon, LogAssumption
    <3> QED BY Zenon, <1>t, <2>1, <3>1 DEF Seen, LogTypeOK
  <2>5. Current = Seen /\ Current' = Seen'
    BY Zenon, <2>1, <2>2 DEF Current
  <2>6. p \in Active /\ Active' = Active
    BY <2>1, <2>2 DEF Active
  <2>7. T!Update(p, b, v)
    BY Zenon, <2>3, <2>4, <2>5, <2>6 DEF T!Update, Current, Active
  <2> QED BY Zenon, <2>7 DEF T!TNext
<1>4. ASSUME NEW p \in Proc, EndOp(p)
      PROVE  [T!TNext]_(T!tvars)
  <2>1. /\ UNCHANGED <<diskVars, cache, home, boot>>
        /\ depth' = [depth EXCEPT ![p] = @ - 1] /\ pc[p] = "op"
    BY Zenon, <1>4 DEF EndOp, diskVars, Running
  <2>2. Recovered' = Recovered /\ Current' = Current
    BY Zenon, <1>r, <1>s, <2>1
  <2>3. depth[p] \in 1 .. 2
    BY Zenon, <1>t, <2>1, OpHoldsTicket
  <2>4. CASE depth[p] = 1
    <3>1. p \in Active /\ Active' = Active \ {p}
      BY <1>t, <2>1, <2>4 DEF Active, LogTypeOK
    <3>2. T!End(p)
      BY Zenon, <2>2, <3>1 DEF T!End, Current, Active
    <3> QED BY Zenon, <3>2 DEF T!TNext
  <2>5. CASE depth[p] = 2
    <3>1. Active' = Active
      BY <1>t, <2>1, <2>5 DEF Active, LogTypeOK
    <3> QED BY <2>2, <3>1 DEF T!tvars, Current, Active
  <2> QED BY <2>3, <2>4, <2>5
<1>5. ASSUME NEW p \in Proc, WriteLog(p)
      PROVE  [T!TNext]_(T!tvars)
  <2>1. UNCHANGED <<head, cache, home, boot, depth>> /\ head = <<>>
    BY Zenon, <1>5, <1>t DEF WriteLog, Running, memVars, DataInv, CommitInv
  <2>2. Recovered' = Recovered
    <3>1. 1 .. Len(head) = {}
      BY <2>1, EmptyBlocks
    <3> QED BY Zenon, <2>1, <3>1, RecoveredSame
  <2> QED BY Zenon, <1>s, <2>1, <2>2, Stutters
<1>6. ASSUME NEW p \in Proc, WriteHead(p)
      PROVE  [T!TNext]_(T!tvars)
  <2>1. Recovered' = Seen
    BY Zenon, <1>6, HeadCommits
  <2>2. UNCHANGED <<cache, home, boot, depth>> /\ boot = "up"
    BY Zenon, <1>6 DEF WriteHead, Running, memVars
  <2>3. Current = Seen /\ Current' = Seen
    BY Zenon, <2>2 DEF Current, Seen
  <2>4. Active = {} /\ Active' = {}
    <3>1. \A q \in Proc : depth[q] = 0
      BY Zenon, <1>6, <1>t, CommitterAlone DEF WriteHead, Running, CommitPlace
    <3> QED BY <2>2, <3>1 DEF Active
  <2>5. T!Commit
    BY Zenon, <2>1, <2>3, <2>4 DEF T!Commit, Current, Active
  <2> QED BY Zenon, <2>5 DEF T!TNext
<1>7. ASSUME NEW p \in Proc, Install(p)
      PROVE  [T!TNext]_(T!tvars)
  <2>1. /\ head = lh /\ tail \in 1 .. Len(lh)
        /\ pinned = {lh[i] : i \in tail .. Len(lh)}
        /\ Logged(tail .. Len(lh))
    BY Zenon, <1>7, <1>t DEF Install, Running, DataInv, CommitInv
  <2>2. /\ home' = [home EXCEPT ![lh[tail]] = log[tail]]
        /\ cache' = [cache EXCEPT ![lh[tail]] = log[tail]]
        /\ UNCHANGED <<boot, head, log, depth>>
    BY Zenon, <1>7 DEF Install
  <2>3. /\ lh[tail] \in Block /\ lh[tail] \in Range(head)
        /\ lh[tail] \in pinned /\ log[tail] = cache[lh[tail]]
    BY <1>t, <2>1, Positions DEF LogTypeOK, DataInv, Logged
  <2>4. Recovered' = Recovered
    <3>1. \A b \in Block \ Range(head) : home'[b] = home[b]
      BY Zenon, <1>t, <2>2, <2>3 DEF LogTypeOK
    <3> QED BY Zenon, <2>2, <3>1, RecoveredSame
  <2>5. Seen' = Seen
    <3>1. cache[lh[tail]] # Absent
      BY Zenon, <1>t, <2>3 DEF DataInv, CacheInv
    <3>2. cache' = cache
      BY Zenon, <1>t, <2>2, <2>3 DEF LogTypeOK
    <3>3. \A b \in Block : cache[b] = Absent => home'[b] = home[b]
      BY Zenon, <1>t, <2>2, <2>3, <3>1 DEF LogTypeOK
    <3> QED BY Zenon, <3>2, <3>3 DEF Seen
  <2>6. Current' = Current
    BY Zenon, <2>2, <2>4, <2>5 DEF Current
  <2> QED BY Zenon, <2>2, <2>4, <2>6, Stutters
<1>8. ASSUME NEW p \in Proc, ClearHead(p)
      PROVE  [T!TNext]_(T!tvars)
  <2>1. head = lh /\ Installed(1 .. Len(lh))
    BY Zenon, <1>8, <1>t DEF ClearHead, Running, DataInv, CommitInv
  <2>2. head' = <<>> /\ UNCHANGED <<cache, home, boot, depth>>
    BY Zenon, <1>8 DEF ClearHead
  <2>3. Recovered' = Recovered
    BY Zenon, <2>1, <2>2, RecoveredCleared DEF Installed
  <2> QED BY Zenon, <1>s, <2>2, <2>3, Stutters
<1>9. ASSUME NEW b \in Block, Recycle(b)
      PROVE  [T!TNext]_(T!tvars)
  <2>1. /\ UNCHANGED <<diskVars, home, boot, depth>>
        /\ cache' = [cache EXCEPT ![b] = Absent]
        /\ cache[b] # Absent /\ b \notin pinned
    BY Zenon, <1>9 DEF Recycle, diskVars
  <2>2. cache[b] = home[b]
    BY Zenon, <1>t, <2>1 DEF DataInv, CacheInv
  <2>3. Seen' = Seen
    BY Zenon, <1>t, <2>1, <2>2 DEF Seen, LogTypeOK
  <2>4. Recovered' = Recovered
    BY Zenon, <1>r, <2>1
  <2>5. Current' = Current
    BY Zenon, <2>1, <2>3, <2>4 DEF Current
  <2> QED BY Zenon, <2>1, <2>4, <2>5, Stutters
<1>10. CASE Crash
  <2>1. UNCHANGED diskVars /\ boot' = "read_head"
        /\ depth' = [p \in Proc |-> 0]
    BY Zenon, <1>10 DEF Crash
  <2>2. Recovered' = Recovered
    BY Zenon, <1>r, <2>1
  <2>3. Current' = Recovered
    BY Zenon, <2>1, <2>2 DEF Current
  <2>4. Active' = {}
    BY <2>1 DEF Active
  <2>5. T!Lose
    BY Zenon, <2>2, <2>3, <2>4 DEF T!Lose, Current, Active
  <2> QED BY Zenon, <2>5 DEF T!TNext
<1>11. CASE ReadHead
  <2>1. UNCHANGED <<diskVars, depth>> /\ boot # "up" /\ boot' # "up"
    BY Zenon, <1>11 DEF ReadHead
  <2>2. Recovered' = Recovered
    BY Zenon, <1>r, <2>1
  <2> QED BY Zenon, <2>1, <2>2, Stutters DEF Current
<1>12. CASE RecoverInstall
  <2>1. /\ head = lh /\ tail \in 1 .. Len(lh)
    BY Zenon, <1>12, <1>t DEF RecoverInstall, DataInv, RecoveryInv
  <2>2. /\ home' = [home EXCEPT ![lh[tail]] = log[tail]]
        /\ UNCHANGED <<head, log, depth>> /\ boot # "up" /\ boot' # "up"
    BY Zenon, <1>12 DEF RecoverInstall
  <2>3. lh[tail] \in Range(head)
    BY <1>t, <2>1, Positions DEF LogTypeOK, DataInv
  <2>4. Recovered' = Recovered
    <3>1. \A b \in Block \ Range(head) : home'[b] = home[b]
      BY Zenon, <1>t, <2>2, <2>3 DEF LogTypeOK
    <3> QED BY Zenon, <2>2, <3>1, RecoveredSame
  <2> QED BY Zenon, <2>2, <2>4, Stutters DEF Current
<1>13. CASE RecoverClear
  <2>1. head = lh /\ Installed(1 .. Len(lh))
    BY Zenon, <1>13, <1>t DEF RecoverClear, DataInv, RecoveryInv
  <2>2. /\ head' = <<>> /\ boot # "up" /\ boot' = "up"
        /\ UNCHANGED <<cache, home, depth>>
    BY Zenon, <1>13 DEF RecoverClear
  <2>3. Recovered' = Recovered /\ Recovered' = home
    BY Zenon, <2>1, <2>2, RecoveredCleared DEF Installed
  <2>4. Seen' = home
    <3>1. \A b \in Block : cache'[b] = Absent
      BY Zenon, <1>t, <2>2 DEF ControlInv
    <3> QED BY Zenon, <1>t, <2>2, <3>1 DEF Seen, LogTypeOK
  <2>5. Current' = Current
    BY Zenon, <2>2, <2>3, <2>4 DEF Current
  <2> QED BY Zenon, <2>2, <2>3, <2>5, Stutters
<1>14. CASE UNCHANGED vars
  <2>1. UNCHANGED <<diskVars, cache, home, boot, depth>>
    BY Zenon, <1>14 DEF vars, memVars, diskVars
  <2> QED BY Zenon, <1>r, <1>s, <2>1, Stutters
<1> QED
  BY Zenon, <1>1, <1>2, <1>3, <1>4, <1>5, <1>6, <1>7, <1>8, <1>9, <1>10, <1>11,
     <1>12, <1>13, <1>14, Zenon DEF Next, Step, Recovery

\* begin_op(), log_write(), end_op(), commit() and recover_from_log() keep
\* what the log promises: calls see their writes at once, a crash brings
\* back the last commit, and no commit contains half of a call.
THEOREM LogImplementsTransactions == Spec => ImplementsTransactions
<1>1. Init => T!TInit
  <2> SUFFICES ASSUME Init PROVE T!TInit
    BY Zenon
  <2>1. LogInv
    BY Zenon, InitTypes, InitControl, InitSpace, InitData DEF LogInv
  <2>2. RecoveredFacts /\ Range(head) = {}
    BY Zenon, <2>1, RecoveredValue, EmptyBlocks DEF Init
  <2>3. Recovered = [b \in Block |-> Zero]
    BY Zenon, <2>2 DEF RecoveredFacts, Init
  <2>4. Seen = [b \in Block |-> Zero]
    BY Zenon DEF Seen, Init
  <2>5. Recovered \in [Block -> Val]
    BY Zenon, <2>3, LogAssumption
  <2>6. Active = {}
    BY DEF Init, Active
  <2>7. Current = Recovered
    BY Zenon, <2>3, <2>4 DEF Current
  <2> QED BY Zenon, <2>5, <2>6, <2>7 DEF T!TInit, Current, Active
<1>2. LogInv /\ LogInv' /\ [Next]_vars => [T!TNext]_(T!tvars)
  BY Zenon, LogSimulates
<1> QED BY <1>1, <1>2, LogInvariant, PTL DEF Spec, ImplementsTransactions,
           T!TSpec
=============================================================================
