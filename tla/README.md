# conproxy in TLA+

conproxy is a caching proxy that sits between clients (HTTP, gRPC, MCP) and
search back ends ("upstreams": REST services, vector databases, full-text
engines). This directory holds TLA+ models of its concurrent core, the TLC
configurations that check them on small instances, and TLAPS proofs that hold
for instances of any size. All source paths are relative to `src/src/proxy/`
unless they start with `docs/`.

Contents: [the system](#the-system) · [the modules](#the-modules) ·
[the runs](#the-runs) · [findings](#findings) · [observations](#observations) ·
[proofs](#proofs) · [abstractions](#abstractions-and-assumptions) ·
[not modelled](#not-modelled) · [plan](#plan).

## The system

### Components

| Component | State | Operations | Hard behaviour | What makes it correct |
|---|---|---|---|---|
| Query core (`server/query_core.rs`) | none of its own; reads and writes the ones below | `execute_query`: lookup, semantic lookup, breaker, fetch, store, answer | every `.await` lets another task in; a dropped connection drops the future | every request is answered, with a response to its own query |
| Request coalescer (`coalesce.rs`) | map from query hash to a broadcast sender | `get_or_insert`, `complete` | leader, waiters and latecomers race on one entry | one leader per key; nobody waits without a leader |
| Circuit breaker (`circuit.rs`) | state, two counters, `opened_at`, window, config: atomics and three RwLocks | `allow_request`, `record_success`, `record_failure`, `state`, `set_config` | no operation is atomic; two locks are nested | no trip or close is lost; an open circuit is probed again; calls return |
| Connection pool (`connection_pool.rs`) | semaphore, queue of oneshot senders, counters | `acquire`, drop of the guard, `wake_next_waiter` | wake-up races time-out, cancellation and barging | permits are conserved; waiters are not forgotten |
| Cache store (`cache.rs`) | lock-free map, memory counter, S3-FIFO queues behind a mutex, ghost set | get, insert, remove, clear, admit and evict, `enforce_memory_limit` | three pieces of state that no one lock covers | what is cached can be found by eviction; limits hold; loops end |
| Semantic tier (`semantic_cache.rs`) | embeddings by query hash | `lookup`, `insert` | never purged with the cache | a match is similar and not expired; only this tier crosses keys |
| Client tracker, pause (`server/mod.rs`, `server/admin.rs`) | active requests, paused flag | track, complete, pause, resume | a dropped request is never completed | what is active is reported |
| Upstream pool, health, retry, cascade (`pool.rs`, `upstream.rs`, `retry.rs`, `cascade.rs`) | health counters and flags, global permits, round-robin cursor | select, query with fall-back, cascade, probe, record outcome, retry | a record is three atomic steps; candidates are a snapshot; dropped requests | permits are conserved and calls bounded; a failure means every candidate failed; an all-offline pool recovers |
| Refresh worker (`refresh.rs`) | tracked queries, pending set | register, cycle, spawn, stop | the pending set is cloned by value; tasks outlive the loop | every stale entry is tried |
| Change stream and peers (`cdc/`, `peer/`) | broadcast buffer, receivers, node state | publish, subscribe, snapshot, deduplicate, apply | lost, late and crossing events; restarts; applying publishes again | a follower agrees with its source on every key whose last change it was told of; events die out; every node becomes ready |
| Engine and persistence (`src/src/engine/mod.rs`, `persistence.rs`) | entries in memory and on disk, cancellation token | build and restore, query, write-through, clear, close, drop, dashboard | crash between the disk's write and the map's; inserts that cross a clear | memory and disk agree; a clear survives a restart; the file is let go of |
| Batch processor (`batch.rs`, `server/batch.rs`) | semaphore, fail-fast flag, the response | run items in parallel up to a deadline, or in sequence | the flag is stale after the wait; items outlive their batch; duplicates, and other requests, share a fetch | the counts of the response add up; permits bound the work; everyone ends |
| Configuration and reload (`server/mod.rs`, `config/`) | ArcSwaps, breaker config | `apply_reload` | several stores, one request in between | a reload returns; a request keeps the upstream it bound |

Federated search, contexts and agents, scope filters, workers, metrics, tuning,
MCP and the command line complete the program; `PROJECT.json` lists each with
its status and the reason.

### Interactions

An HTTP, gRPC or batch handler runs `execute_query`. It asks the cache store for
the freshness of the key and serves a fresh or stale entry (a stale one spawns a
background refresh); otherwise it asks the semantic tier, then the circuit
breaker. A rejected request falls back to whatever the cache holds. An admitted
one joins the coalescer: the leader runs the retry loop around
`dispatch_upstream_query` (one upstream, the pool with its connection pools, or
a cascade), filters and stores the response, reports to the breaker, and
broadcasts to the waiters. A batch runs the same lookup for each of its queries
and uses the same coalescer: items and ordinary requests wait for each other.
Every store may evict, is written to disk first when the embedded engine has a
file, and is published to the peers when the change stream is enabled; applying
a peer's event is itself a store. Administrative calls pause, clear and reload
all of this while requests are in progress.

## The modules

| Module | Models | Composition |
|---|---|---|
| `CircuitBreaker` | `circuit.rs`, one step per shared-memory access | the verdict is a free choice in `QueryPath` |
| `Flights` | nothing in the code: what request coalescing promises | implemented by `QueryPath` and by `BatchProcessor` (`Coalesces`) |
| `QueryPath` | `execute_query`, the coalescer, the semantic index, the tracker, pause, reload | abstracts `CacheStore` to one age per key and any removal, `Dispatch` to success or failure |
| `Dispatch` | retry loop, global permits, pool, cascade, health trackers | the leader's fetch of `QueryPath` and `BatchProcessor`; abstracts `ConnectionPool` to a call that may fail |
| `ConnectionPool` | `acquire` and the drop of a `PooledConnection` | what `query_pooled` wraps around an upstream call |
| `CacheStore` | the map, the memory counter and S3-FIFO | what the cache of `QueryPath`, `Engine` and `Replication` stands for |
| `Replication` | change stream, receivers, deduplication, snapshot, readiness | an insert is two steps, and is the same for clients and peers |
| `BatchProcessor` | `process` with the closure `handle_batch` gives it | shares `Flights` with `QueryPath` |
| `Engine` | engine life cycle, disk copy, refresh worker, memory ticker | evictions are any subset, as `CacheStore` allows |
| `MC...` | constants and symmetry for TLC | extend the module they are named after |
| `...Proofs` | theorems | extend the module they are named after |

**CircuitBreaker.** A caller runs `allow_request` and then `record_success`,
`record_failure` or nothing; a reloader runs `set_config`. Each atomic
operation and each lock operation is an action; the name gives the function
and the access (`OpenCas`, `CloseOpened`). The `parking_lot` lock is task-fair:
a queued writer keeps new readers out, which is what makes the nested read
locks dangerous; `LockCycle` names the states in which they close a cycle with
a queued reload. Instants are reduced to whether the open duration or the
failure window has elapsed.

**Flights.** Each key has at most one flight, led by one member; others board
while it is in the air or leave; when it lands all on board are served at once.
`QueryPath` maps the coalescer's map to `leader` and the requests that wait
without mail to `aboard`; `BatchProcessor` maps `flight` and its waiting items.

**QueryPath.** `Clients` are request slots that run one request after another.
`pc` names the place between two awaits or two accesses to shared state. A
response is its label (`Hit`, `Stale`, `Frozen`, ...), the key whose data it
carries and that data's age when served. `Drop` is a connection closed at an
await. An item of a batch differs in what the code does differently: it is not
tracked, ignores the pause, and binds its upstream when the batch begins.

**Dispatch.** A request takes a permit, selects its candidates, and calls one
upstream after another. Where the build has an embedder and an adapter does not
know its query mode yet, one call is up to three requests: the text, the probe
that finds the mode out (`qmode`, shared by all requests), the vector. Each
outcome is recorded in the `HealthTracker` in three steps (reset the opposite
count, count, set or clear the flag), between which other requests record
theirs. The counters are kept as far as the thresholds tell apart. `calls`
(requests made to upstreams), `oks` and `bad` are what the request has learnt in
this attempt. `Abandon` is a dropped request at any await.

**ConnectionPool.** `acquire` is split after its first `try_acquire`, at the
wait, and between permit and count. A guard's drop is three actions in Rust's
order: count, wake, and only then the permit. A waiter's `late` flag is its
deadline, which the waker reads from `enqueued_at` and the waiter from its
timer; the waiter's entry outlives it, as in the code.

**CacheStore.** A writer runs insert (`CheckNew`, `Store`, `Admit` and the
eviction loops), a removal, `enforce_memory_limit` or `clear`; readers act at
any moment. The eviction loops are explicit: `test`, scan of small, scan of
main, victim. `overlap` is a history variable: it remembers whether a read or
another write has ever happened while a writer was at work, and lets a
property say what it needs (`NoOrphan` tolerates reads, `WithinCapacity`
nothing).

**Replication.** A change of a node's cache, by a client or by an event from a
peer, is stored in one step and published in the next, each under the time of
its step. A subscription is a queue of `Buffer` events whose oldest is lost on
overflow; a connection may break at any time and is opened again without what
was published meanwhile. Any node may restart with what its disk kept (nothing, if
it has none); its streams break with it and its subscribers connect again. A
joining node asks its peers in turn for a snapshot, lists, streams and gives up
as `peer/mod.rs` does. `missed` (per subscription and key) and `overlaps` (per
node and key) are history variables: they name the only excuses the properties
accept, and the next undisturbed change of the key takes them back.

**BatchProcessor.** The handler spawns, joins in order and answers at the
deadline, or runs the items itself; each item looks at the flag, waits for a
permit, looks in the cache, and leads or waits in the coalescer. The coalescer is
the server's: `OutsideLeads` and `OutsideLands` are the requests that are not of
this batch, for which items may wait, and which may be dropped and never land. A
panic leaves the key in the coalescer and the item joined as an error, as in the
code.

**Engine.** `life` is the embedder's view (`down`, `open`, `closed`, `dropped`).
A job is one insert: fetch, disk, memory. The worker's cycle scans the tracked
hashes (`Tick`, `Skip`, `Spawn`) and stops between two cycles when its token is
cancelled. `serving` stands for the memory ticker and the dashboard, which hold
the cache too: the token ends both, and the dashboard's graceful shutdown waits
for the requests it finds (`draining`). `clear` empties memory, then the disk,
and may fail in between. `Crash` loses memory and every task at any moment;
`Build` restores. `wiped` collects the answers whose insert had ended before a
successful clear began; `disputed` names keys whose last insert overlapped
another change or failed half-way.

## The runs

| Run | Instance | Shows |
|---|---|---|
| `circuit_races` | 2 callers, 1 reloader, 2 configurations (thresholds 1/2 and 2/1), counters to 2 | `NoLostTrip`, `NoLostClose` under every interleaving; `CallsReturn`: no call waits for ever except in a `LockCycle`, which needs a queued reload |
| `circuit_reload_deadlock` | 2 callers, 1 reloader | violated: see findings |
| `query_coalescing` | 3 clients, 1 key, one droppable, queries and batches, pause, reload | `SingleLeader`, `WaiterHasLeader`, and `Coalesces`: the query path implements `Flights` |
| `query_answered` | 2 clients, 2 keys, with and without `skip_cache` | `AnswerFitsQuery`; `RequestsAnswered` when nobody disconnects |
| `query_dropped_leader` | 2 clients, 1 key | violated: see findings |
| `dispatch` | 2 requests, 2 upstreams, 5 configurations (pool with 2 permits, pool with 1 permit and a retry, shallow cascade, deep cascade and one upstream with an embedder) | `PermitsConserved`, `CallBound`, `FailedMeansAllTried`, `OkIsBacked`, `RequestsEnd`, `PoolRecovers` |
| `pool_queue` | 5 requests, 2 permits, 3 queue places | `PermitsConserved`, `NoForgottenWaiter` |
| `cache_eviction` | 3 keys of size 1, 2 writers, 2 entries, a memory cap of 1, counter modulo 4 | `GhostBounded`, `NoOrphan`, `MemoryExact`, `WithinCapacity`, `GivesUpCooled`, `EvictionEnds` |
| `replication` | 3 nodes: a chain of two followers behind 2 clients (3 operations), and a node that joins two peers with snapshots (2 operations); 1 key, buffer 2, clock 2; evictions and restarts count as operations | `FollowerKeysAgree`, `FollowerCatchesUp`, `BecomesReady` |
| `replication_echo` | 2 nodes that subscribe to each other, 1 client, 1 operation | `EventsDieOut` is violated: see findings |
| `batch` | 3 queries, two of them the same; parallel and sequential, with and without fail-fast, 1 or 2 permits, with and without an upstream, with other requests for the duplicated query | `ParallelBound`, `AnswerAddsUp`, `LeaderAtWork`, `Coalesces`, `BatchAnswered`, `ItemsFinish` |
| `engine` | 2 keys, 1 writer, 1 worker task, capacity 1 or 2, 2 answers | `WriteThrough`, `ClearIsDurable`, `StaleIsTried`, `FileReleased` |

`cache_eviction`, `dispatch` and `replication` also check `TypeOK`. For every
module it is a theorem, and so are `TripInv`, `CloseInv`, `MapInv`,
`OnlyLeaderCompletes` and `ActiveIsHeld`, which no run repeats.

**Why the bounds are enough.** Two callers are what a race between two
operations of the breaker needs, and with a reloader what its lock cycle needs;
a threshold of 2 is the least that makes a count matter; counters saturate at
`MaxCount`, the largest threshold, since the code only compares them with
thresholds. Three clients give a leader, a waiter and a latecomer on one key;
two keys give a wrong answer something to be. Five requests fill two permits and
the queue of three. Two upstreams and an offline threshold of 2 let the records
of two requests cross, put one or both upstreams offline, and make the fall-back
loop call the primary again, and let one request find out a query mode while
another is in the middle of asking. In `CacheStore` three keys with two writers
exceed a capacity of two, put two entries over the memory cap and reach every
branch of both eviction scans, since lazily removed and re-admitted keys appear
in the queues several times; `MaxQueued` only stops new inserts while three keys
are queued, one above the capacity. `Wrap` is above the largest sum of sizes, so
a counter that is right never wraps and one that went below zero is seen. In
`Replication` three operations overflow a buffer of two, and two instants are
what comparing an arrival with a later write needs; a third node shows a
follower that is itself followed, and two peers one that fails before the other
is asked. Three queries give a batch a leader, a duplicate and a stranger for
one or two permits. The requests outside it lead the key its duplicates share.
In `Engine` two answers are an old and a new value of a key, a writer and a task
insert at the same time, and a capacity of 1 evicts; `MaxAnswers` ends fetching,
never the life cycle. The passing runs fire every action.

**Deadlock** is checked in all runs but `query_coalescing`,
`query_dropped_leader` (a dropped client is never replaced) and
the two circuit runs (the deadlock is the finding, reported by
`circuit_reload_deadlock` as the liveness violation it causes and named by
`LockCycle` in `circuit_races`).

**Fairness.** `CircuitBreaker`: a task that is runnable is scheduled by tokio
and a `parking_lot` lock is handed over fairly, so a step that is enabled again
and again is taken (strong fairness of `Step`); requests keep coming (weak
fairness of `BeginRequest`) and time passes (`OpenDurationElapses`).
`QueryPath`: a request whose next step is possible takes it; for the fetch this
is the HTTP client's own time-out, which every HTTP adapter sets (`pgvector.rs`
stores `timeout_secs` and does not apply it to its queries, so with that adapter
the assumption rests on the database). `Dispatch`: the same, and retry delays
end; that the upstreams answer again and requests keep coming is a hypothesis of
`PoolRecovers`, not an assumption. `Replication`: what is stored is published,
what is received applied, and a snapshot that has been asked for is listed or
given up (a connection attempt ends). Nothing is assumed of the snapshot's body,
of which each message is awaited without a time-out (`peer/snapshot.rs:125`), of
connections, clients, restarts or the clock. `BatchProcessor`: handler, items
and deadline move, and tokio's semaphore is first-in first-out (strong fairness
of `Acquire`); nothing is assumed of other requests that lead a key. `Engine`:
jobs, clear, ticks and the cycle move; the worker's loop selects between its
token, which stays ready once cancelled, and its interval, which is ready only
now and then, so `Stop` is taken at the latest when it has been possible again
and again (strong fairness); the ticker and the listener see the token, but a
client of the dashboard may keep its request for ever. Nothing is assumed of
arrivals, evictions, crashes or administrators. `ConnectionPool` and
`CacheStore` assume no fairness.

## Findings

1. **A reload can deadlock the breaker** (`circuit_reload_deadlock`).
   `record_success` holds the config lock while it takes `opened_at`,
   `maybe_transition` the other way round; a queued `set_config` blocks the
   second reader and closes the cycle.
2. **A dropped leader blocks its query for ever** (`query_dropped_leader`,
   `server/query_core.rs`). Nothing removes the sender of a leader whose
   connection is dropped at an await; every later request for the query waits.
3. **An event echoes between mutual peers for ever** (`replication_echo`,
   `peer/receiver.rs:88`). An applied removal is published again under the
   receiver's own id, also when the key is absent, so that echo prevention
   (`docs/architecture.md:265`, `docs/configuration.md:441`, the comment on
   `origin_node_id` in `proto/conproxy/cdc/v1/cdc.proto:37`) never sees its own
   event. The run's only fairness is that receivers and tasks move on.

`PROJECT.json` quotes for each the comment or document it disagrees with.

## Observations

What the modelling showed beside the three findings. No run is about these: some
are outside what a module states, for the others the excuse is written into the
property (`disputed`, `missed`, `overlaps`, the panic and the outside leader of
`ItemsFinish`, the client of `FileReleased`, the waiting node of `BecomesReady`).

*Breaker, query path and pool*

* `close` stores `Closed` before it clears `opened_at`. A failure recorded in
  between opens the circuit again, and `close` then overwrites its `opened_at`
  with `None`; `maybe_transition` never leaves `Open` without one.
* The fall-backs read an entry without asking its age (`query_core.rs:396`),
  where `cache.rs:129` says that entries past the frozen age "cannot be served".
* The semantic tier knows no context (`query_core.rs:348`): it compares the
  embeddings of context-qualified texts and may answer one context's query with
  another's entry, where `docs/tour.md:223` promises isolation between contexts.
  `AnswerFitsQuery` holds every other path to the very key asked and names this
  tier as the one exception.
* `enforce_memory_limit` ("until total memory is under the current cap",
  `cache.rs:364`) and an insert give up when every entry of main is hot: the scan
  cools them all and finds no victim (`cache.rs:598`), and the cache stays over
  its cap until the next pass. `GivesUpCooled` says that the pass leaves nothing
  hot behind.
* The drop of a connection signals the waiter (`connection_pool.rs:305`) before
  the permit is back: the waiter's second `try_acquire` may fail.

*Upstreams*

* An offline upstream is called again only when all are offline:
  `docs/multi-upstream.md:240` speaks of periodic probes, which belong to
  `UpstreamStateManager`, and nothing constructs it.
* A cascade that reaches its depth with nothing but errors answers
  `Ok` with no results, which is cached as fresh (`query_core.rs:85`);
  `OkIsBacked` therefore excepts the maximal depth. A parallel RRF group that
  times out last does the same.
* The server always builds its pool round-robin (`server/mod.rs:528`, `:788`):
  the other strategies of `pool.rs` cannot be configured.

*Peers*

* A node that restarts without its cache publishes nothing: its followers keep
  the keys it lost until each is written again (`missed`). The snapshot is asked
  for at start only, never when a receiver connects again.
* A peer that accepts a snapshot request and then sends nothing leaves the node
  in `Warming`: `peer/snapshot.rs:125` awaits the next message without a time-out.
* An entry is stamped with its arrival: a write made at the source before that
  counts as stale and is dropped, the exception in `FollowerCatchesUp`.
* Store and publication, and `deduplicate` and application, are each two steps:
  two changes of one key may be published, or applied, in the other order.
* An entry's TTL begins anew at every peer; `evict_filter` publishes the removal
  of a key `"bulk:N"` that no peer has.

*Batch*

* Fail-fast in parallel leaves `complete` true, though `batch.rs:12` says
  "`complete` is `false` when the batch aborts early or times out".
* The duplicates of a leader that panicked, or of a request outside the batch
  that was dropped (finding 2), wait for ever and keep the batch's
  permits; a client that disconnects in the middle of a sequential batch leaves
  its key in the coalescer.

*Engine*

* `pending.clone()` (`refresh.rs:298`) copies the map, so a task takes its hash
  out of the copy: each key is refreshed by the worker at most once in the
  engine's life, though the field's comment says that it tracks hashes being
  refreshed. `StaleIsTried` holds for keys that are not yet pending.
* The dashboard's graceful shutdown has no deadline: a client that does not take
  its response keeps the cache, and with it the single-writer file, after the
  engine was dropped.
* The worker is registered with the context-prefixed key and sends it to the
  upstream as the query (`refresh.rs:304`, `query_core.rs:542`), without the
  scope filter of the query path.
* A restart makes every persisted entry fresh and brings back evicted ones.
  Two overlapping inserts may leave one answer in memory and the other on disk.
* The builder's `max_entries` is set after the restore and does not reach the
  queues. `memory_fraction = 0` is floored at 16 MiB, where `docs/engine.md:89`
  says that it disables the cap.

*Registries*

* `AgentRegistry::rotate_key` removes the old key and then inserts the new one
  (`agent.rs:245`), its comment says the opposite; in between neither is found.
* The token bucket's refill is a load and a store (`middleware.rs:89`): tokens
  taken in between are given back.

## Proofs

Every theorem holds for all values of the constants that satisfy the module's
named assumptions; no other assumption is made unless it is in the statement.
Every safety property of a passing run, invariant or action property, is the
subject of a theorem.

* `CircuitBreakerProofs`: `TypeCorrect`; `TripsAreNotLost` and
  `ClosesAreNotLost`, for any number of callers and reloads. A reload may lower a
  threshold below the present count, so a full count is one that fills every
  configuration that may be installed (`Trips`, `Closes`).
  `NoLostTrip` speaks only of moments with no call in progress and is not
  inductive; `TripInv` says who is going to act on a full count at any moment,
  and is (`TripIsPending`, `CloseIsPending`). One case per action.
* `QueryPathProofs`: `TypeCorrect`, `Singleflight`, `WaitersHaveLeaders`,
  `CompletionIsTheLeaders`, `MapAgrees`. The inductive invariant is
  `TypeOK /\ MapInv`: the coalescer's map is exactly the leaders at work and
  those dropped. `ImplementsFlights` maps each action to a take-off, a
  boarding, a landing, a leave or a stutter of `Flights`. `AnswersFit` carries
  the source of every answer from the cache, the mail or the semantic match to
  the client.
* `ConnectionPoolProofs`: `PoolCorrect` and its parts `TypeCorrect` and
  `ActiveExact`. The three conjuncts are inductive together; each step moves at
  most one request into or out of the set whose cardinality is counted.
  `WaitersKept` (`NoForgottenWaiter`) rests on `WaitInv`: only waiters are
  signalled, an unsignalled waiter has one live entry and nobody else has any.
  What it needs of the waker is that the entries it passes over are dead.
* `DispatchProofs`: `DispatchCorrect` and its parts `TypeCorrect`,
  `PermitsNeverLeak` and `CallsBounded`, `NoCandidateSkipped`,
  `ResultsAreBacked`, for any number of upstreams and requests and every
  configuration. `CallBound` counts requests to upstreams, three for a call
  whose query mode is still unknown, and is not inductive; `Sound` says that the
  requests made, those the call in progress may still make (`Slack`) and those
  of the upstreams left to try are within the bound together (`CallInv`), which
  fields matter at which point of an attempt (`PlaceInv`), and that a candidate
  is still to be tried, is being tried or has failed (`TriedInv`). The one call
  more than there are upstreams is the primary, which the fall-back loop may try
  again.
* `CacheStoreProofs`. `CoreInv` is the typing of the control state, that the
  lock is held exactly by the one writer inside the loops, and that a scan of
  main never has more attempts left than main has keys; `GhostInv` adds the
  rest of the types and the bound on the ghosts (`TypeCorrect`,
  `GhostsBounded`).
  `EntriesStayQueued` adds that, while no writers have met, at most one is at
  work and every cached key is queued or in its hands.
  `MemoryCounted` needs of a writer at work that the counter is the sum of the
  sizes at every step but the one in which `clear` has emptied the map and not
  yet reset the counter (`MemInv`), and `MemoryFits`: the sizes of all entries
  together are below the counter's modulus, in the code 2^64.
  `CapacityKept` says of an undisturbed store that the queues are within bounds
  but during an admission, which is at most one over and has a cold key ahead of
  the scan for as long as it is (`CapInv`): the key just admitted, which nobody
  has read. That is why the property tolerates no read.
  `GivingUpCools` (`GivesUpCooled`) rests on what a scan of main that has found no
  victim yet has done: the keys it has passed are at the back and cold, unless a
  reader has come in between.
  `EvictionTerminates` shows that a lexicographic measure (loop, keys left,
  stage, attempts) falls with every step of the lock's holder and is touched
  by nobody else, `LoopsAreMeasured` that the measure is four naturals and their
  order well founded: together, the loops end without any assumption on readers
  or other writers.
* `ReplicationProofs`: `TypeCorrect`, `FollowersAgree` and `FollowersCatchUp`,
  for any number of nodes, clients and keys, any buffer, and any wiring around
  the follower: its source may itself follow others, in chains or rings, and
  join by a snapshot is excluded by `Follows` itself. Agreement at rest is not
  inductive. `FollowInv` says for each key what is on its way from a source to a
  follower that was told of the key's last change: the newest change (stored at
  the source and not yet published, else the last in the queue, else in the
  receiver's hands and already judged) agrees with the source's entry, and when
  nothing is on its way the two entries agree (`Pipeline`). A restart, an
  eviction or a loss takes the key out of the invariant's scope (`ToldOf`), and
  `MadeInv` brings it back with the next change: one that met no other is
  unpublished only while it stands. `Sound` carries what that needs: types,
  which subscription belongs to which task (`Wired`), and that no stamp lies in
  the future (`Past`).
* `BatchProcessorProofs`: `BatchTypes`, `PermitsHold`, `LeadersWork`,
  `AnswersAddUp`, and `BatchImplementsFlights`, for any number of queries and
  every configuration, and whatever other requests do with the shared coalescer.
  `AnswerAddsUp` speaks of a finished answer; the
  inductive `CountInv` says at every join what has been counted, in which mode
  (`ModeInv`), and `LeadInv` that one item at most leads a key, which the
  landing of a flight needs.
* `EngineProofs`: `EngineTypes`, `MemoryIsOnDisk`, `WipedForGood`, for any keys,
  writers, tasks and capacities. `ClearIsDurable` needs that the answers still in
  hand when a clear ends are not among the ones it dooms (`WipedInv`);
  `WriteThrough` needs that an undisputed key has at most one insert between disk
  and memory, holding what is on disk (`UndisputedInv`); both need that nothing
  runs while the process is down (`DownIsQuiet`).

**Induction.** The library's induction theorems take a predicate, which the
backends cannot instantiate. Where a proof needs induction over the numbers
(what `Without` leaves of a queue, what one entry changes in a sum, the order of
the measure), the predicate is given as the *set* of the numbers that have it:
a set of naturals with 0 that is closed under successor is all of them, by the
least-element principle. The remaining sequence arguments use only `Head`,
`Tail`, `Append` and indices.

**Only model-checked.** Liveness under fairness, which the prover cannot state
(no `ENABLED`): `CallsReturn`, `RequestsAnswered`, `RequestsEnd`,
`PoolRecovers`, `BecomesReady`, `BatchAnswered`, `ItemsFinish`, `StaleIsTried`,
`FileReleased`. The findings `ReloadReturns`, `RequestsAnswered` with dropped
clients and `EventsDieOut` are counterexamples of TLC's.

## Abstractions and assumptions

* Atomics are sequentially consistent. The code uses `Relaxed` for counters;
  reorderings between two atomics are not modelled.
* A map operation and the counter update that follows it in the same helper
  are one step in `CacheStore`.
* An entry's frequency (0 to 3) is hot or cold: its only reader swaps it with
  0 and compares with 0.
* `MaxEntries` and `MaxMemory` are constants: `set_max_entries` does not reach
  the queues' capacities, and a new memory limit is met by the state it finds
  over it, which updates in place also produce.
* A request to an upstream is one step that succeeds or fails. In `QueryPath` and
  `BatchProcessor` so is all of `Dispatch`. The round-robin cursor is moved by
  every request, so any candidate may be the primary. Embedding similarity is a
  given relation.
* Time is a flag or a class of ages that changes at any moment. In
  `Replication` all nodes read one clock, the best case for last-write-wins.
* In `BatchProcessor` the other requests of the server are one leader per key at a
  time; those that wait change nothing for the batch.
* In `Replication` the broadcast buffer and the gRPC stream behind it are one
  queue per subscription.
* In `Engine` an admission or the memory ticker evicts any subset; a writer is
  a query or the refresh of a stale hit; an entry is registered with the worker
  in the step that stores it; a disk transaction is atomic and durable.
* Statistics are left out except where a property is about them (`active`).

## Not modelled

* Nothing calls it outside tests: `drain_queue`, `RequestCoalescer::remove`,
  `warmup`, `extend_ttl`, `evict_smart`, `UpstreamStateManager`,
  `DistributedCoalescer`, the schedulers of `workers/`, the health and context
  tables of `persistence.rs`.
* Formatting, conversion and I/O with no state to reason about: configuration
  parsing, the gRPC and HTTP conversions, status and dashboard pages, metrics,
  audit logs, the adapters' requests, MCP, the command line, socket options.
* Offline tools that run alone: the benchmarks under `src/src/bin/`, `tune/`,
  distillation, sandbox.
* Contexts, agents and the rate limiter are registries of one operation per
  step; a refusal by any of them is `Refuse` in `QueryPath`.

These are the larger part of the repository's lines. The modules cover the part
in which tasks share state: `PROJECT.json` maps their definitions to it.

## Plan

What is left, in order of importance.

1. `Access`: `AgentRegistry`, `ContextManager` and the rate limiter, whose
   operations are several map or atomic steps (key rotation, eviction of a
   context with its policy, refill against take).
2. The parallel RRF group of `cascade.rs` and `federated.rs` as a mode of
   `Dispatch`.
3. Further refinements: an abstract semaphore under `ConnectionPool` and
   `Dispatch`, and `CacheStore` as an implementation of `QueryPath`'s cache.
4. Pure algorithms against reference definitions: score fusion, percentile
   time-outs, similarity eviction.
