-------------------------- MODULE CacheRefinement ---------------------------
(***************************************************************************)
(* How the buffer cache implements the block store that its users rely on: *)
(* a block's contents are those of its valid buffer, or else of the disk,  *)
(* and its holder is the thread that bread() has returned it to.           *)
(***************************************************************************)
EXTENDS Bcache

Contents ==
  [n \in BlockNo |->
     IF \E b \in Cached(n) : valid[b]
     THEN data[CHOOSE b \in Cached(n) : valid[b]] ELSE disk[n]]

Using(n) == {p \in Proc : pc[p] \in {"have", "writing"} /\ bno[cur[p]] = n}

Holder ==
  [n \in BlockNo |-> IF Using(n) = {} THEN Nobody
                     ELSE CHOOSE p \in Using(n) : TRUE]

S == INSTANCE BlockStore WITH contents <- Contents, holder <- Holder

\* At most one buffer per block, and one that the log holds or a thread
\* uses is not recycled: bread() and the log see all changes.
ImplementsBlockStore == S!SSpec
=============================================================================
