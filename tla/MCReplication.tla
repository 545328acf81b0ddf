--------------------------- MODULE MCReplication ---------------------------
(* Small instances of Replication for TLC.                                  *)
EXTENDS Replication, TLC

CONSTANTS a, b, c

\* b follows a, where the clients are, and c follows b.
Chain ==
    [peers |-> (a :> {} @@ b :> {a} @@ c :> {b}), home |-> [w \in Writers |-> a],
     snapshot |-> FALSE, load |-> 3]

\* c joins a and b, which do not know each other.
Joining == [Chain EXCEPT !.peers = (a :> {} @@ b :> {} @@ c :> {a, b}),
                          !.snapshot = TRUE, !.load = 2]

\* a and b subscribe to each other.
Mutual == [Chain EXCEPT !.peers = (a :> {b} @@ b :> {a}), !.load = 1]

FollowConfigs == {Chain, Joining}
MutualConfigs == {Mutual}
=============================================================================
