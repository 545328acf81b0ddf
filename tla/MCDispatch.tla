----------------------------- MODULE MCDispatch -----------------------------
(* Small instances of Dispatch for TLC.                                     *)
EXTENDS Dispatch

\* Two requests of the pool at once, so that their health records interleave.
PoolRaces ==
    [mode |-> "pool", embed |-> FALSE, limit |-> 2, retries |-> 0, depth |-> 0,
     offlineAt |-> 2, onlineAt |-> 1]
\* One permit for two requests, with a retry.
PoolRetries == [PoolRaces EXCEPT !.limit = 1, !.retries = 1, !.onlineAt = 2]
CascadeShallow == [PoolRaces EXCEPT !.mode = "cascade", !.limit = 1, !.retries = 1, !.depth = 1]
CascadeDeep == [CascadeShallow EXCEPT !.embed = TRUE, !.depth = 2, !.retries = 0]
\* Two requests that find out the mode of the only upstream at the same time.
Single == [PoolRaces EXCEPT !.mode = "single", !.embed = TRUE, !.retries = 1]

AllConfigs == {PoolRaces, PoolRetries, CascadeShallow, CascadeDeep, Single}
=============================================================================
