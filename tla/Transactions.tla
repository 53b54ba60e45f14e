---------------------------- MODULE Transactions ----------------------------
(***************************************************************************)
(* What the log promises: disk blocks that file system calls change inside *)
(* transactions.  A crash brings back the contents of the last commit, and *)
(* a commit happens only when no call is inside a transaction, so it never *)
(* contains half of one.                                                   *)
(***************************************************************************)
CONSTANTS
  Proc,    \* threads that make file system calls
  Block,   \* disk blocks outside the log
  Val      \* contents of a block

VARIABLES
  durable,   \* contents that survive a crash
  current,   \* contents that file system calls see
  active     \* threads inside a transaction

tvars == <<durable, current, active>>

TInit ==
  /\ durable \in [Block -> Val]
  /\ current = durable
  /\ active = {}

Begin(p) ==
  /\ p \notin active
  /\ active' = active \cup {p}
  /\ UNCHANGED <<durable, current>>

Update(p, b, v) ==
  /\ p \in active
  /\ current' = [current EXCEPT ![b] = v]
  /\ UNCHANGED <<durable, active>>

End(p) ==
  /\ p \in active
  /\ active' = active \ {p}
  /\ UNCHANGED <<durable, current>>

Commit ==
  /\ active = {}
  /\ durable' = current
  /\ UNCHANGED <<current, active>>

Lose ==
  /\ current' = durable
  /\ active' = {}
  /\ UNCHANGED durable

TNext ==
  \/ \E p \in Proc : Begin(p) \/ End(p)
  \/ \E p \in Proc, b \in Block, v \in Val : Update(p, b, v)
  \/ Commit
  \/ Lose

TSpec == TInit /\ [][TNext]_tvars
=============================================================================
