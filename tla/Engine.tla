------------------------------- MODULE Engine -------------------------------
(***************************************************************************)
(* The engine embedded in another process (engine/mod.rs): the cache with  *)
(* its copy on disk (cache.rs, persistence.rs), the queries and background *)
(* refreshes that write both, the refresh worker (refresh.rs), clear,      *)
(* close, drop, a crash at any moment, and the restart that restores what  *)
(* the disk holds.                                                         *)
(*                                                                         *)
(* A response is the number of the upstream's answer.  A job is one insert *)
(* from its fetch to its end: a query or the refresh a stale hit spawns    *)
(* (Writers), or a task of the refresh worker (Tasks).  Which entries an   *)
(* admission or the memory ticker evicts is the module CacheStore; here    *)
(* any may go.                                                             *)
(***************************************************************************)
EXTENDS Naturals, FiniteSets

CONSTANTS
    Keys,        \* hashes of the cached queries, as numbers
    Writers,     \* queries and stale-hit refreshes at a time
    Tasks,       \* tasks of the refresh worker at a time
    Capacities,  \* the values of max_entries an engine is built with
    MaxAnswers   \* bound: answers the upstream gives

ASSUME EngineAssumption ==
    /\ Keys \subseteq Nat \ {0} /\ IsFiniteSet(Keys)
    /\ Capacities \subseteq Nat \ {0}
    /\ MaxAnswers \in Nat
    /\ Writers \cap Tasks = {}

Jobs == Writers \cup Tasks
Answers == 1 .. MaxAnswers

VARIABLES
    life,      \* "down", "open", "closed" or "dropped"
    memory,    \* the answer cached for each key, 0 for none
    age,       \* its freshness class
    disk,      \* the answer persisted for each key, 0 for none
    answered,  \* answers the upstream has given
    pc,        \* where each job is
    key,       \* its key, 0 when idle
    got,       \* its answer, 0 before it has one
    tracked,   \* query_map of the refresh worker
    pending,   \* its pending map
    looping,   \* its loop runs
    scan,      \* the hashes its cycle has still to look at
    serving,   \* memory ticker and dashboard: "on", "draining" or "off"
    clearing,  \* clear() has emptied memory and not yet the disk
    doomed,    \* history: the answers whose inserts had ended when clear() began
    wiped,     \* history: the doomed answers of every clear() that has succeeded
    disputed   \* history: keys whose last insert overlapped another change or failed

store == <<memory, age, disk>>
jobs == <<answered, pc, key, got>>
worker == <<tracked, pending, looping, scan>>
clears == <<clearing, doomed, wiped>>
vars == <<life, store, jobs, worker, serving, clears, disputed>>

Cached == {k \in Keys : memory[k] # 0}
Stale(k) == memory[k] # 0 /\ age[k] = "stale"
At(k, p) == {j \in Jobs : pc[j] = p /\ key[j] = k}
Ended == {a \in 1 .. answered : \A j \in Jobs : got[j] # a}
Alive == life # "down"

Init ==
    /\ life = "down"
    /\ memory = [k \in Keys |-> 0]
    /\ age = [k \in Keys |-> "fresh"]
    /\ disk = [k \in Keys |-> 0]
    /\ answered = 0
    /\ pc = [j \in Jobs |-> "idle"]
    /\ key = [j \in Jobs |-> 0]
    /\ got = [j \in Jobs |-> 0]
    /\ tracked = {} /\ pending = {} /\ looping = FALSE /\ scan = {}
    /\ serving = "off"
    /\ clearing = FALSE /\ doomed = {} /\ wiped = {}
    /\ disputed = {}

-----------------------------------------------------------------------------
(* Life of an engine                                                       *)

\* At most max_entries entries, less those that cannot be read or that the memory
\* limit evicts, all as if new.
Restore(n) ==
    /\ \E kept \in SUBSET {k \in Keys : disk[k] # 0} :
           /\ Cardinality(kept) <= n
           /\ memory' = [k \in Keys |-> IF k \in kept THEN disk[k] ELSE 0]
    /\ age' = [k \in Keys |-> "fresh"]

\* The cache is restored before anything else holds it.  The builder starts the
\* worker, which has not heard of the restored queries, the memory ticker and the
\* dashboard, which may as well be there: they hold the cache and change nothing else.
Build ==
    /\ life = "down"
    /\ life' = "open"
    /\ \E n \in Capacities : Restore(n)
    /\ looping' = TRUE
    /\ serving' = "on"
    /\ UNCHANGED <<disk, jobs, tracked, pending, scan, clears, disputed>>

\* The cancellation token: queries are refused and the worker's loop will end.
Close ==
    /\ life = "open"
    /\ life' = "closed"
    /\ UNCHANGED <<store, jobs, worker, serving, clears, disputed>>

\* The owner lets go of the engine, which no call may be using.
Drop ==
    /\ life \in {"open", "closed"}
    /\ ~clearing
    /\ life' = "dropped"
    /\ UNCHANGED <<store, jobs, worker, serving, clears, disputed>>

\* What the process held in memory is gone, the unfinished transaction too.
Forget ==
    /\ life' = "down"
    /\ memory' = [k \in Keys |-> 0]
    /\ age' = [k \in Keys |-> "fresh"]
    /\ pc' = [j \in Jobs |-> "idle"]
    /\ key' = [j \in Jobs |-> 0]
    /\ got' = [j \in Jobs |-> 0]
    /\ tracked' = {} /\ pending' = {} /\ looping' = FALSE /\ scan' = {}
    /\ serving' = "off"
    /\ clearing' = FALSE /\ doomed' = {}
    /\ disputed' = {}
    /\ UNCHANGED <<disk, answered, wiped>>

\* The last holder of the cache is gone and the file is closed.
Release ==
    /\ life = "dropped" /\ ~looping /\ serving = "off"
    /\ \A j \in Jobs : pc[j] = "idle"
    /\ Forget

Crash ==
    /\ Alive
    /\ Forget

-----------------------------------------------------------------------------
(* Inserts                                                                 *)

\* Of the entries m with their ages a, those of the keys in kept stay.
Keep(kept, m, a) ==
    /\ memory' = [k \in Keys |-> IF k \in kept THEN m[k] ELSE 0]
    /\ age' = [k \in Keys |-> IF k \in kept THEN a[k] ELSE "fresh"]

Goes(j, p) == pc' = [pc EXCEPT ![j] = p]

End(j) ==
    /\ Goes(j, "idle")
    /\ key' = [key EXCEPT ![j] = 0]
    /\ got' = [got EXCEPT ![j] = 0]

\* A query that is not answered from the cache, or skips it, or the refresh of a
\* stale hit.  Queries for one key share a leader; refreshes share nothing.
Ask(j, k) ==
    /\ life = "open" /\ pc[j] = "idle"
    /\ Goes(j, "fetch")
    /\ key' = [key EXCEPT ![j] = k]
    /\ UNCHANGED <<life, store, answered, got, worker, serving, clears, disputed>>

Answer(j) ==
    /\ pc[j] = "fetch" /\ answered < MaxAnswers
    /\ answered' = answered + 1
    /\ got' = [got EXCEPT ![j] = answered + 1]
    /\ Goes(j, "persist")
    /\ UNCHANGED <<life, store, key, worker, serving, clears, disputed>>

\* The upstream fails, or its answer does not validate.  A task's removal of its
\* hash from pending, here and at the end of Store, is done on a copy of the map.
Fail(j) ==
    /\ pc[j] = "fetch"
    /\ End(j)
    /\ UNCHANGED <<life, store, answered, worker, serving, clears, disputed>>

\* Mutation of Persist: only entries that are new are written.
PersistNew(j) ==
    LET k == key[j] IN
    /\ pc[j] = "persist"
    /\ disk' = [disk EXCEPT ![k] = IF memory[k] = 0 THEN got[j] ELSE @]
    /\ disputed' = IF At(k, "store") = {} /\ ~clearing
                   THEN disputed \ {k} ELSE disputed \cup {k}
    /\ Goes(j, "store")
    /\ UNCHANGED <<life, memory, age, answered, key, got, worker, serving, clears>>

\* The entry is written to disk, in a transaction of its own, before it is cached.
Persist(j) ==
    LET k == key[j] IN
    /\ pc[j] = "persist"
    /\ disk' = [disk EXCEPT ![k] = got[j]]
    /\ disputed' = IF At(k, "store") = {} /\ ~clearing
                   THEN disputed \ {k} ELSE disputed \cup {k}
    /\ Goes(j, "store")
    /\ UNCHANGED <<life, memory, age, answered, key, got, worker, serving, clears>>

\* A write that fails is logged, and the entry cached all the same.
PersistFails(j) ==
    /\ pc[j] = "persist"
    /\ disputed' = disputed \cup {key[j]}
    /\ Goes(j, "store")
    /\ UNCHANGED <<life, store, answered, key, got, worker, serving, clears>>

\* The entry replaces the cached one.  A new one is admitted, which may evict any
\* entry, the new one too; what is on disk stays.  A writer then registers its query
\* with the worker.
Store(j) ==
    LET k == key[j]
        all == Cached \cup {k}
    IN
    /\ pc[j] = "store"
    /\ \E kept \in IF memory[k] = 0 THEN SUBSET all ELSE {all} :
           Keep(kept, [memory EXCEPT ![k] = got[j]], [age EXCEPT ![k] = "fresh"])
    /\ tracked' = IF j \in Writers THEN tracked \cup {k} ELSE tracked
    /\ End(j)
    /\ UNCHANGED <<life, disk, answered, pending, looping, scan, serving, clears, disputed>>

-----------------------------------------------------------------------------
(* Time and memory                                                         *)

Grow(k) ==
    /\ Alive /\ memory[k] # 0 /\ age[k] # "expired"
    /\ age' = [age EXCEPT ![k] = IF @ = "fresh" THEN "stale" ELSE "expired"]
    /\ UNCHANGED <<life, memory, disk, jobs, worker, serving, clears, disputed>>

\* The ticker lowers the memory cap and enforces it, perhaps once more after close()
\* when its sleep and the token are ready together.
MemoryTick ==
    /\ serving = "on"
    /\ \E kept \in SUBSET Cached : kept # Cached /\ Keep(kept, memory, age)
    /\ UNCHANGED <<life, disk, jobs, worker, serving, clears, disputed>>

-----------------------------------------------------------------------------
(* clear()                                                                 *)

\* The map first; inserts go on meanwhile.
ClearMemory ==
    /\ life \in {"open", "closed"} /\ ~clearing
    /\ Keep({}, memory, age)
    /\ clearing' = TRUE
    /\ doomed' = Ended
    /\ disputed' = disputed \cup {k \in Keys : At(k, "store") # {}}
    /\ UNCHANGED <<life, disk, jobs, worker, serving, wiped>>

\* Mutation of ClearDisk: only tracked queries are removed.
ClearDiskTracked ==
    /\ clearing
    /\ disk' = [k \in Keys |-> IF k \in tracked THEN 0 ELSE disk[k]]
    /\ clearing' = FALSE
    /\ wiped' = wiped \cup doomed
    /\ doomed' = {}
    /\ UNCHANGED <<life, memory, age, jobs, worker, serving, disputed>>

\* Then the table on disk, in one transaction.
ClearDisk ==
    /\ clearing
    /\ disk' = [k \in Keys |-> 0]
    /\ clearing' = FALSE
    /\ wiped' = wiped \cup doomed
    /\ doomed' = {}
    /\ UNCHANGED <<life, memory, age, jobs, worker, serving, disputed>>

ClearDiskFails ==
    /\ clearing
    /\ clearing' = FALSE
    /\ doomed' = {}
    /\ UNCHANGED <<life, store, jobs, worker, serving, wiped, disputed>>

-----------------------------------------------------------------------------
(* The refresh worker                                                      *)

\* Mutation of Tick: entries past their stale period only.
TickLate ==
    /\ looping /\ scan = {}
    /\ scan' = {k \in Keys : memory[k] # 0 /\ age[k] = "expired"}
    /\ scan' # {}
    /\ UNCHANGED <<life, store, jobs, tracked, pending, looping, serving, clears, disputed>>

\* A cycle starts with a list of the stale entries.  An empty one ends at once.
Tick ==
    /\ looping /\ scan = {}
    /\ scan' = {k \in Keys : Stale(k)}
    /\ scan' # {}
    /\ UNCHANGED <<life, store, jobs, tracked, pending, looping, serving, clears, disputed>>

\* A hash that is pending or not tracked is passed over.
Skip(k) ==
    /\ k \in scan
    /\ k \in pending \/ k \notin tracked
    /\ scan' = scan \ {k}
    /\ UNCHANGED <<life, store, jobs, tracked, pending, looping, serving, clears, disputed>>

\* The hash is marked and its task spawned.
Spawn(j, k) ==
    /\ k \in scan /\ k \in tracked \ pending /\ pc[j] = "idle"
    /\ scan' = scan \ {k}
    /\ pending' = pending \cup {k}
    /\ Goes(j, "fetch")
    /\ key' = [key EXCEPT ![j] = k]
    /\ UNCHANGED <<life, store, answered, got, tracked, looping, serving, clears, disputed>>

\* Mutation of Stop: the loop does not look at the token.
StopNever == FALSE /\ UNCHANGED vars

\* Between two cycles the loop sees that the engine is closed or dropped.
Stop ==
    /\ looping /\ scan = {} /\ life \in {"closed", "dropped"}
    /\ looping' = FALSE
    /\ UNCHANGED <<life, store, jobs, tracked, pending, scan, serving, clears, disputed>>

-----------------------------------------------------------------------------
(* The end of the ticker and of the dashboard                              *)

\* The token ends the ticker and the dashboard's listener.  The graceful shutdown waits
\* for the requests it finds, each of which holds the cache.
StopServing ==
    /\ serving = "on" /\ life \in {"closed", "dropped"}
    /\ serving' \in {"draining", "off"}
    /\ UNCHANGED <<life, store, jobs, worker, clears, disputed>>

\* The last client of the dashboard has its response or is gone.
Drained ==
    /\ serving = "draining"
    /\ serving' = "off"
    /\ UNCHANGED <<life, store, jobs, worker, clears, disputed>>

-----------------------------------------------------------------------------
JobStep(j) ==
    Answer(j) \/ Fail(j) \/ Persist(j) \/ PersistFails(j) \/ Store(j)

ClearStep == ClearDisk \/ ClearDiskFails

SpawnSome(k) == \E j \in Tasks : Spawn(j, k)

Next ==
    \/ Build \/ Close \/ Drop \/ Release \/ Crash
    \/ \E j \in Writers, k \in Keys : Ask(j, k)
    \/ \E j \in Jobs : JobStep(j)
    \/ \E k \in Keys : Grow(k) \/ Skip(k) \/ SpawnSome(k)
    \/ MemoryTick
    \/ ClearMemory \/ ClearStep
    \/ Tick \/ Stop
    \/ StopServing \/ Drained

Spec == Init /\ [][Next]_vars

\* The runtime runs every task, calls to the upstream end in an answer or an error,
\* the interval ticks, and between two cycles the token is always ready, the
\* interval seldom.  A client of the dashboard may take its time for ever.
Fairness ==
    /\ \A j \in Jobs : WF_vars(JobStep(j))
    /\ WF_vars(ClearStep)
    /\ WF_vars(Tick)
    /\ \A k \in Keys : WF_vars(Skip(k) \/ SpawnSome(k))
    /\ SF_vars(Stop) /\ WF_vars(StopServing)
    /\ WF_vars(Release)

FairSpec == Spec /\ Fairness

-----------------------------------------------------------------------------
\* Types; a job has a key while it runs, and an answer exactly while it inserts one.
TypeOK ==
    /\ life \in {"down", "open", "closed", "dropped"}
    /\ memory \in [Keys -> 0 .. MaxAnswers]
    /\ age \in [Keys -> {"fresh", "stale", "expired"}]
    /\ disk \in [Keys -> 0 .. MaxAnswers]
    /\ answered \in 0 .. MaxAnswers
    /\ pc \in [Jobs -> {"idle", "fetch", "persist", "store"}]
    /\ key \in [Jobs -> Keys \cup {0}]
    /\ got \in [Jobs -> 0 .. MaxAnswers]
    /\ \A j \in Jobs : /\ key[j] = 0 <=> pc[j] = "idle"
                       /\ got[j] = 0 <=> pc[j] \in {"idle", "fetch"}
    /\ tracked \subseteq Keys /\ pending \subseteq Keys /\ scan \subseteq Keys
    /\ looping \in BOOLEAN /\ clearing \in BOOLEAN
    /\ serving \in {"on", "draining", "off"}
    /\ doomed \subseteq Answers /\ wiped \subseteq Answers
    /\ disputed \subseteq Keys

\* Write-through (insert_impl, insert_by_hash, persist_entry): a cached entry is on
\* disk as it is in memory, so that a restart brings back exactly it, unless its last
\* insert overlapped another insert or a clear, failed to write, or is under way.
WriteThrough ==
    \A k \in Cached \ disputed : At(k, "store") = {} => disk[k] = memory[k]

\* What had been inserted when a clear() began that then emptied the disk is never
\* seen again, in memory or on disk, evicted or not, in this life or after a restart.
ClearIsDurable ==
    \A k \in Keys : memory[k] \notin wiped /\ disk[k] \notin wiped

\* A stale entry the worker knows of and has not tried yet is tried, unless it is
\* refreshed, evicted or expires first, or the engine is closed.
StaleIsTried ==
    \A k \in Keys :
        (life = "open" /\ Stale(k) /\ k \in tracked \ pending)
            ~> (life # "open" \/ ~Stale(k) \/ k \in pending)

\* An engine that is dropped lets go of its file: the worker's loop, the ticker and the
\* dashboard end, and so does every refresh the worker or a stale hit has spawned, unless
\* a client of the dashboard never takes its response.
FileReleased == []<>(life # "dropped") \/ <>[](serving = "draining")
=============================================================================
