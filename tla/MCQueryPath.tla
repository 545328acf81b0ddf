---------------------------- MODULE MCQueryPath ----------------------------
(* Small instances of QueryPath for TLC.                                    *)
EXTENDS QueryPath, TLC

CONSTANTS k1, k2    \* two keys

NoneSimilar == {}
OneWay == {<<k1, k2>>}    \* k1 may be answered from k2, not the reverse
Symmetry == Permutations(Clients \ Droppable)
=============================================================================
