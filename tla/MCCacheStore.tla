---------------------------- MODULE MCCacheStore ----------------------------
(* Small instances of CacheStore for TLC.                                   *)
EXTENDS CacheStore, TLC

Symmetry == Permutations(Keys) \cup Permutations(Writers)
=============================================================================
