---------------------------- MODULE PipeChannel ----------------------------
(***************************************************************************)
(* What a pipe promises: bytes arrive in the order in which they were      *)
(* written, none is lost or invented, at most PIPESIZE are under way, and  *)
(* end of file is reported only when nobody can write any more.            *)
(***************************************************************************)
EXTENDS Naturals, Sequences

CONSTANTS Slot, Byte, PIPESIZE

VARIABLES
  queue,    \* bytes under way
  holders,  \* processes that have each end open
  result    \* what the last read() or write() of each process returned

cvars == <<queue, holders, result>>

CInit ==
  /\ queue = <<>>
  /\ \E S \in SUBSET Slot : holders = [e \in {"r", "w"} |-> S]
  /\ result = [p \in Slot |-> "none"]

\* A byte is tagged with its writer.
Put(p, b) ==
  /\ b[1] = p
  /\ p \in holders["w"] /\ Len(queue) < PIPESIZE
  /\ queue' = Append(queue, b)
  /\ UNCHANGED <<holders, result>>

\* read() returns the first m bytes, fewer than asked for if need be.
Get(p, m) ==
  /\ p \in holders["r"] /\ m \in 1 .. Len(queue)
  /\ queue' = SubSeq(queue, m + 1, Len(queue))
  /\ result' = [result EXCEPT ![p] = "ok"]
  /\ UNCHANGED holders

Eof(p) ==
  /\ p \in holders["r"] /\ queue = <<>> /\ holders["w"] = {}
  /\ result' = [result EXCEPT ![p] = "eof"]
  /\ UNCHANGED <<queue, holders>>

\* A write() is complete, a call fails, a new call starts.
Other(p) ==
  /\ \E r \in {"ok", "fail", "none"} : result' = [result EXCEPT ![p] = r]
  /\ UNCHANGED <<queue, holders>>

\* pipe(), fork() and exec(), close() and exit().
Open(p) ==
  /\ queue = <<>> /\ holders = [e \in {"r", "w"} |-> {}]
  /\ holders' = [e \in {"r", "w"} |-> {p}]
  /\ UNCHANGED <<queue, result>>

Inherit(p, q) ==
  /\ holders' = [e \in {"r", "w"} |-> IF p \in holders[e] THEN holders[e] \cup {q}
                                      ELSE holders[e]]
  /\ result' = [result EXCEPT ![q] = "none"]
  /\ UNCHANGED queue

Close(p, e) ==
  /\ p \in holders[e]
  /\ holders' = [holders EXCEPT ![e] = @ \ {p}]
  /\ UNCHANGED <<queue, result>>

\* Bytes that nobody can read any more are dropped.
Vanish ==
  /\ holders = [e \in {"r", "w"} |-> {}]
  /\ queue' = <<>>
  /\ UNCHANGED <<holders, result>>

CNext ==
  \/ \E p \in Slot :
       \/ \E b \in Byte : Put(p, b)
       \/ \E m \in 1 .. PIPESIZE : Get(p, m)
       \/ Eof(p) \/ Other(p) \/ Open(p)
       \/ \E q \in Slot : Inherit(p, q)
       \/ \E e \in {"r", "w"} : Close(p, e)
  \/ Vanish

CSpec == CInit /\ [][CNext]_cvars
=============================================================================
