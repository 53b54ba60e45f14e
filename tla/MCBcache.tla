------------------------------ MODULE MCBcache ------------------------------
EXTENDS CacheRefinement, TLC
NameSymmetry == Permutations(Proc) \cup Permutations(BlockNo)
=============================================================================
