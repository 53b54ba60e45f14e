----------------------------- MODULE BlockStore -----------------------------
(***************************************************************************)
(* What the buffer cache promises: every block has one contents, and one   *)
(* thread at a time may look at it and change it.                          *)
(***************************************************************************)
CONSTANTS Proc, Nobody, BlockNo, Val, Zero

VARIABLES
  contents,  \* of each block
  holder     \* the thread that has bread() the block, or Nobody

svars == <<contents, holder>>

SInit ==
  /\ contents = [n \in BlockNo |-> Zero]
  /\ holder = [n \in BlockNo |-> Nobody]

Take(p, n) ==
  /\ holder[n] = Nobody
  /\ holder' = [holder EXCEPT ![n] = p]
  /\ UNCHANGED contents

Put(p, n, v) ==
  /\ holder[n] = p
  /\ contents' = [contents EXCEPT ![n] = v]
  /\ UNCHANGED holder

Release(p, n) ==
  /\ holder[n] = p
  /\ holder' = [holder EXCEPT ![n] = Nobody]
  /\ UNCHANGED contents

SNext ==
  \E p \in Proc, n \in BlockNo :
    Take(p, n) \/ Release(p, n) \/ \E v \in Val : Put(p, n, v)

SSpec == SInit /\ [][SNext]_svars
=============================================================================
