-------------------------- MODULE MCBatchProcessor --------------------------
(* Small instances of BatchProcessor for TLC.                               *)
EXTENDS BatchProcessor

CONSTANTS k1, k2

\* Three queries, the first and the last of them the same.
Twins == [i \in Items |-> IF i = 2 THEN k2 ELSE k1]

\* Without fail-fast, other requests ask for what two items of the batch ask for.
SomeConfigs ==
    [parallel : BOOLEAN, failFast : {TRUE}, maxParallel : {1, 2},
     upstream : {TRUE}, key : {Twins}, others : {{}}]
    \cup [parallel : BOOLEAN, failFast : {FALSE}, maxParallel : {1, 2},
          upstream : {TRUE}, key : {Twins}, others : {{k1}}]
    \cup [parallel : BOOLEAN, failFast : {TRUE}, maxParallel : {1},
          upstream : {FALSE}, key : {Twins}, others : {{}}]
=============================================================================
