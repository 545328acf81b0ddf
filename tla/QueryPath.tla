----------------------------- MODULE QueryPath -----------------------------
(***************************************************************************)
(* The query path of the proxy: execute_query (server/query_core.rs), the  *)
(* per-item closure of the batch handlers (server/batch.rs,                *)
(* grpc/search.rs), the RequestCoalescer they share (coalesce.rs), the     *)
(* client tracker and the semantic tier's index.                           *)
(*                                                                         *)
(* Every place where a request's future may be suspended or where another  *)
(* task may observe shared state is a separate action.  A key is the hash  *)
(* of a context-qualified query.  Payloads are abstracted to the key they  *)
(* answer; ages to the four Freshness classes, which time moves an entry   *)
(* through.  The circuit breaker's verdict is a free choice here (module   *)
(* CircuitBreaker models how it is reached) and so is the outcome of an    *)
(* upstream call with its retries.                                         *)
(***************************************************************************)
EXTENDS Naturals, FiniteSets

CONSTANTS
    Clients,      \* request slots; each runs one request at a time
    Keys,         \* context-qualified query hashes
    Similar,      \* pairs <<asked, stored>> whose embeddings pass the threshold
    SemanticMax,  \* capacity of the semantic tier; 0 disables it
    Kinds,        \* the handlers in use: "query", "skip_cache", "batch"
    Droppable,    \* clients whose connection may be dropped mid-request
    AdminOps,     \* which administrative operations happen: "pause", "reload"
    NoKey, Nobody \* "no key" and "no client"

ASSUME QueryPathAssumption ==
    /\ Droppable \subseteq Clients
    /\ Similar \subseteq Keys \X Keys
    /\ "query" \in Kinds /\ Kinds \subseteq {"query", "skip_cache", "batch"}
    /\ AdminOps \subseteq {"pause", "reload"}
    /\ SemanticMax \in Nat
    /\ IsFiniteSet(Keys)
    /\ NoKey \notin Keys
    /\ Nobody \notin Clients

VARIABLES
    cache,      \* the age of the entry of each key, or "Absent"
    semantic,   \* the keys the semantic tier holds an embedding of
    inFlight,   \* the coalescer's map: the client whose Sender is registered
    tracked,    \* the client tracker's active requests
    refresh,    \* the background refresh each client's stale hit has spawned
    paused,     \* the admin pause flag
    configured, \* some cascade, pool or single upstream is configured
    pc,         \* where each client's request is
    key,        \* the key each client asks for
    kind,       \* which handler serves it
    bound,      \* the batch context bound an upstream when the batch began
    mail,       \* what the client's broadcast Receiver holds
    answer      \* the response handed back

env == <<paused, configured>>
shared == <<cache, semantic, inFlight, tracked, refresh>>
local == <<pc, key, kind, bound, mail, answer>>
vars == <<shared, env, local>>

Ages == {"Fresh", "Stale", "Frozen", "Expired"}
Labels == {"Hit", "Stale", "Miss", "Frozen", "Error"}
Places == {"idle", "lookup", "get_fresh", "get_stale", "semantic", "gate", "join", "fetch",
           "filter", "stored", "failed", "wait", "done", "gone"}

Response(label, k, age) == [label |-> label, src |-> k, age |-> age]
Empty == Response("None", NoKey, "New")
Failure == Response("Error", NoKey, "New")
Responses == [label : Labels \cup {"None"}, src : Keys \cup {NoKey}, age : Ages \cup {"New"}]

Init ==
    /\ cache = [k \in Keys |-> "Absent"]
    /\ semantic = {}
    /\ inFlight = [k \in Keys |-> Nobody]
    /\ tracked = {}
    /\ refresh = [c \in Clients |-> NoKey]
    /\ paused = FALSE
    /\ configured \in BOOLEAN
    /\ pc = [c \in Clients |-> "idle"]
    /\ key = [c \in Clients |-> NoKey]
    /\ kind = [c \in Clients |-> "query"]
    /\ bound = [c \in Clients |-> FALSE]
    /\ mail = [c \in Clients |-> Empty]
    /\ answer = [c \in Clients |-> Empty]

At(c, p) == pc[c] = p
Goto(c, p) == pc' = [pc EXCEPT ![c] = p]

\* Return from the handler: the request leaves the tracker with its response.
Finish(c, r) ==
    /\ Goto(c, "done")
    /\ answer' = [answer EXCEPT ![c] = r]
    /\ tracked' = tracked \ {c}

\* get_by_hash on a fallback path: whatever is cached, whatever its age.
Cached(k, label) == IF cache[k] = "Absent" THEN Failure ELSE Response(label, k, cache[k])

-----------------------------------------------------------------------------
(* Arrival                                                                 *)

\* Paused (503), invalid (400) or a context the agent may not use (403).
Refuse(c, k, kd) ==
    /\ At(c, "idle")
    /\ key' = [key EXCEPT ![c] = k]
    /\ kind' = [kind EXCEPT ![c] = kd]
    /\ Finish(c, Failure)
    /\ UNCHANGED <<cache, semantic, inFlight, refresh, env, bound, mail>>

\* Batch items are neither tracked nor subject to the pause flag; their upstream
\* is the one loaded when the batch began.
Arrive(c, k, kd) ==
    /\ At(c, "idle")
    /\ kd = "batch" \/ ~paused
    /\ key' = [key EXCEPT ![c] = k]
    /\ kind' = [kind EXCEPT ![c] = kd]
    /\ bound' = [bound EXCEPT ![c] = kd = "batch" /\ configured]
    /\ tracked' = IF kd = "batch" THEN tracked ELSE tracked \cup {c}
    /\ Goto(c, IF kd = "skip_cache" THEN "gate" ELSE "lookup")
    /\ UNCHANGED <<cache, semantic, inFlight, refresh, env, mail, answer>>

-----------------------------------------------------------------------------
(* Cache lookup, exact then semantic                                       *)

AfterLookup(c) == IF kind[c] = "query" /\ SemanticMax > 0 THEN "semantic" ELSE "gate"

CheckFreshness(c) ==
    /\ At(c, "lookup")
    /\ Goto(c, CASE cache[key[c]] = "Fresh" -> "get_fresh"
                 [] cache[key[c]] = "Stale" -> "get_stale"
                 [] OTHER -> AfterLookup(c))
    /\ UNCHANGED <<shared, env, key, kind, bound, mail, answer>>

\* The entry may have gone since its freshness was read; then it is a miss.
GetGone(c) ==
    /\ pc[c] \in {"get_fresh", "get_stale"} /\ cache[key[c]] = "Absent"
    /\ Goto(c, AfterLookup(c))
    /\ UNCHANGED <<shared, env, key, kind, bound, mail, answer>>

\* The label and the age reported are those of the freshness check.
\* A stale hit of execute_query spawns a refresh when a single upstream is set.
GetHit(c) ==
    /\ pc[c] \in {"get_fresh", "get_stale"} /\ cache[key[c]] # "Absent"
    /\ \/ At(c, "get_fresh") /\ Finish(c, Response("Hit", key[c], "Fresh"))
       \/ At(c, "get_stale") /\ Finish(c, Response("Stale", key[c], "Stale"))
    /\ \/ UNCHANGED refresh
       \/ /\ At(c, "get_stale") /\ kind[c] = "query" /\ configured
          /\ refresh' = [refresh EXCEPT ![c] = key[c]]
    /\ UNCHANGED <<cache, semantic, inFlight, env, key, kind, bound, mail>>

\* Mutation of Matches: the best match is served whatever its similarity.
MatchesAny(k) == IF k \in semantic THEN {k} ELSE semantic

\* The best match: a query's own embedding before any other.
Matches(k) == IF k \in semantic THEN {k} ELSE {m \in semantic : <<k, m>> \in Similar}

SemanticHit(c) ==
    /\ At(c, "semantic")
    /\ \E m \in Matches(key[c]) :
          /\ cache[m] \in {"Fresh", "Stale", "Frozen"}
          /\ Finish(c, Response("Hit", m, cache[m]))
    /\ UNCHANGED <<cache, semantic, inFlight, refresh, env, key, kind, bound, mail>>

\* No match, an expired or vanished match, or the embedding call failed.
SemanticMiss(c) ==
    /\ At(c, "semantic") /\ Goto(c, "gate")
    /\ UNCHANGED <<shared, env, key, kind, bound, mail, answer>>

-----------------------------------------------------------------------------
(* Upstream availability and the circuit breaker                           *)

HasUpstream(c) == IF kind[c] = "batch" THEN bound[c] ELSE configured

NoUpstream(c) ==
    /\ At(c, "gate") /\ ~HasUpstream(c)
    /\ Finish(c, Cached(key[c], "Hit"))
    /\ UNCHANGED <<cache, semantic, inFlight, refresh, env, key, kind, bound, mail>>

\* Batch items do not consult the breaker.
CircuitRejects(c) ==
    /\ At(c, "gate") /\ HasUpstream(c) /\ kind[c] # "batch"
    /\ Finish(c, Cached(key[c], "Frozen"))
    /\ UNCHANGED <<cache, semantic, inFlight, refresh, env, key, kind, bound, mail>>

CircuitAllows(c) ==
    /\ At(c, "gate") /\ HasUpstream(c)
    /\ Goto(c, "join")
    /\ UNCHANGED <<shared, env, key, kind, bound, mail, answer>>

-----------------------------------------------------------------------------
(* RequestCoalescer::get_or_insert and complete                            *)

\* Mutation of GetOrInsert: the occupied entry is overwritten.
GetOrInsertOverwrites(c) ==
    /\ At(c, "join") /\ Goto(c, "fetch")
    /\ inFlight' = [inFlight EXCEPT ![key[c]] = c]
    /\ UNCHANGED <<cache, semantic, tracked, refresh, env, key, kind, bound, mail, answer>>

GetOrInsert(c) ==
    /\ At(c, "join")
    /\ IF inFlight[key[c]] = Nobody
       THEN inFlight' = [inFlight EXCEPT ![key[c]] = c] /\ Goto(c, "fetch")
       ELSE UNCHANGED inFlight /\ Goto(c, "wait")
    /\ UNCHANGED <<cache, semantic, tracked, refresh, env, key, kind, bound, mail, answer>>

Waiting(c, k) == pc[c] = "wait" /\ key[c] = k /\ mail[c] = Empty

\* complete(): take the Sender out of the map and broadcast to its receivers.  A
\* receiver subscribes under the map's entry lock, so none comes in between.
Complete(k, r) ==
    /\ inFlight' = [inFlight EXCEPT ![k] = Nobody]
    /\ mail' = [c \in Clients |->
                  IF inFlight[k] # Nobody /\ Waiting(c, k) THEN r ELSE mail[c]]

-----------------------------------------------------------------------------
(* The leader                                                              *)

FetchOk(c) ==
    /\ At(c, "fetch") /\ Goto(c, "filter")
    /\ UNCHANGED <<shared, env, key, kind, bound, mail, answer>>

FetchErr(c) ==
    /\ At(c, "fetch") /\ Goto(c, "failed")
    /\ UNCHANGED <<shared, env, key, kind, bound, mail, answer>>

\* SemanticCache::insert; the victim is the oldest, never the key just inserted.
SemanticInsert(k) ==
    LET grown == semantic \cup {k} IN
    IF Cardinality(grown) <= SemanticMax
    THEN semantic' = grown
    ELSE \E victim \in grown \ {k} : semantic' = grown \ {victim}

\* Scope filter done, response valid: cached, with its embedding if there is one.
Store(c) ==
    /\ At(c, "filter") /\ Goto(c, "stored")
    /\ cache' = [cache EXCEPT ![key[c]] = "Fresh"]
    /\ \/ UNCHANGED semantic
       \/ kind[c] # "batch" /\ SemanticMax > 0 /\ SemanticInsert(key[c])
    /\ UNCHANGED <<inFlight, tracked, refresh, env, key, kind, bound, mail, answer>>

\* complete() with the response; an invalid one skips the cache.
LeaderOk(c) ==
    /\ pc[c] \in {"filter", "stored"}
    /\ LET r == Response("Miss", key[c], "New") IN Complete(key[c], r) /\ Finish(c, r)
    /\ UNCHANGED <<cache, semantic, refresh, env, key, kind, bound>>

\* Mutation of LeaderErr: the error path returns without complete().
LeaderErrSilent(c) ==
    /\ At(c, "failed")
    /\ Finish(c, Cached(key[c], "Frozen"))
    /\ UNCHANGED <<cache, semantic, inFlight, refresh, env, key, kind, bound, mail>>

\* The upstream failed: any cached entry is broadcast as frozen, else the error.
LeaderErr(c) ==
    /\ At(c, "failed")
    /\ LET r == Cached(key[c], "Frozen") IN Complete(key[c], r) /\ Finish(c, r)
    /\ UNCHANGED <<cache, semantic, refresh, env, key, kind, bound>>

-----------------------------------------------------------------------------
(* The waiter                                                              *)

\* Mutation of Receive: a failed waiter removes the key from the map.
ReceiveRemoves(c) ==
    /\ At(c, "wait") /\ mail[c] # Empty
    /\ Finish(c, IF mail[c] = Failure THEN Cached(key[c], "Frozen") ELSE mail[c])
    /\ mail' = [mail EXCEPT ![c] = Empty]
    /\ inFlight' = IF mail[c] = Failure THEN [inFlight EXCEPT ![key[c]] = Nobody] ELSE inFlight
    /\ UNCHANGED <<cache, semantic, refresh, env, key, kind, bound>>

\* A broadcast error falls back to the cache.
Receive(c) ==
    /\ At(c, "wait") /\ mail[c] # Empty
    /\ Finish(c, IF mail[c] = Failure THEN Cached(key[c], "Frozen") ELSE mail[c])
    /\ mail' = [mail EXCEPT ![c] = Empty]
    /\ UNCHANGED <<cache, semantic, inFlight, refresh, env, key, kind, bound>>

-----------------------------------------------------------------------------
(* A dropped connection: the request's future is dropped at an await point. *)
(* A batch of one query runs inside its handler and goes with it; the items *)
(* of larger batches are spawned tasks, which a client not in Droppable is. *)

Drop(c) ==
    /\ c \in Droppable
    /\ pc[c] \in {"semantic", "fetch", "filter", "wait"}
    /\ Goto(c, "gone")
    /\ mail' = [mail EXCEPT ![c] = Empty]
    /\ UNCHANGED <<shared, env, key, kind, bound, answer>>

\* The slot takes its next request, once its background refresh is over: the
\* bound on concurrent refreshes is one per slot.
Recycle(c) ==
    /\ At(c, "done") /\ Goto(c, "idle")
    /\ key' = [key EXCEPT ![c] = NoKey]
    /\ kind' = [kind EXCEPT ![c] = "query"]
    /\ bound' = [bound EXCEPT ![c] = FALSE]
    /\ answer' = [answer EXCEPT ![c] = Empty]
    /\ refresh[c] = NoKey
    /\ UNCHANGED <<shared, env, mail>>

-----------------------------------------------------------------------------
(* Background refresh, time, eviction and administration                    *)

RefreshOk(c) ==
    /\ refresh[c] # NoKey
    /\ cache' = [cache EXCEPT ![refresh[c]] = "Fresh"]
    /\ refresh' = [refresh EXCEPT ![c] = NoKey]
    /\ UNCHANGED <<semantic, inFlight, tracked, env, local>>

RefreshFails(c) ==
    /\ refresh[c] # NoKey
    /\ refresh' = [refresh EXCEPT ![c] = NoKey]
    /\ UNCHANGED <<cache, semantic, inFlight, tracked, env, local>>

NextAge(a) == CASE a = "Fresh" -> "Stale" [] a = "Stale" -> "Frozen" [] OTHER -> "Expired"

\* check_freshness_by_hash's classes, in the order an entry passes through them.
Grow(k) ==
    /\ cache[k] \in {"Fresh", "Stale", "Frozen"}
    /\ cache' = [cache EXCEPT ![k] = NextAge(@)]
    /\ UNCHANGED <<semantic, inFlight, tracked, refresh, env, local>>

\* Any removal: S3-FIFO eviction, remove, clear.  The semantic tier keeps its embedding.
Remove(k) ==
    /\ cache[k] # "Absent"
    /\ cache' = [cache EXCEPT ![k] = "Absent"]
    /\ UNCHANGED <<semantic, inFlight, tracked, refresh, env, local>>

Pause ==
    /\ "pause" \in AdminOps /\ paused' = TRUE
    /\ UNCHANGED <<shared, configured, local>>

Resume ==
    /\ "pause" \in AdminOps /\ paused' = FALSE
    /\ UNCHANGED <<shared, configured, local>>

\* A hot reload adds the first upstream or takes the last one away.

Reload ==
    /\ "reload" \in AdminOps
    /\ configured' = ~configured
    /\ UNCHANGED <<shared, paused, local>>

Progress(c) ==
    \/ CheckFreshness(c) \/ GetGone(c) \/ GetHit(c)
    \/ SemanticHit(c) \/ SemanticMiss(c)
    \/ NoUpstream(c) \/ CircuitRejects(c) \/ CircuitAllows(c)
    \/ GetOrInsert(c)
    \/ FetchOk(c) \/ FetchErr(c) \/ Store(c) \/ LeaderOk(c) \/ LeaderErr(c)
    \/ Receive(c)

Next ==
    \/ \E c \in Clients, k \in Keys, kd \in Kinds : Refuse(c, k, kd) \/ Arrive(c, k, kd)
    \/ \E c \in Clients : Progress(c) \/ Drop(c) \/ Recycle(c) \/ RefreshOk(c) \/ RefreshFails(c)
    \/ \E k \in Keys : Grow(k) \/ Remove(k)
    \/ Pause \/ Resume \/ Reload

Spec == Init /\ [][Next]_vars
FairSpec == Spec /\ \A c \in Clients : WF_vars(Progress(c))
-----------------------------------------------------------------------------
(* Properties                                                              *)

\* Every variable has its type: a request past its arrival has a key, and the
\* semantic tier stays within max_entries after every insert.
TypeOK ==
    /\ cache \in [Keys -> Ages \cup {"Absent"}]
    /\ semantic \in SUBSET Keys
    /\ Cardinality(semantic) <= SemanticMax
    /\ inFlight \in [Keys -> Clients \cup {Nobody}]
    /\ tracked \in SUBSET Clients
    /\ refresh \in [Clients -> Keys \cup {NoKey}]
    /\ paused \in BOOLEAN
    /\ configured \in BOOLEAN
    /\ pc \in [Clients -> Places]
    /\ key \in [Clients -> Keys \cup {NoKey}]
    /\ kind \in [Clients -> Kinds]
    /\ bound \in [Clients -> BOOLEAN]
    /\ mail \in [Clients -> Responses]
    /\ answer \in [Clients -> Responses]
    /\ \A c \in Clients : pc[c] # "idle" => key[c] \in Keys

Leads(c, k) == pc[c] \in {"fetch", "filter", "stored", "failed"} /\ key[c] = k
Abandoned(c, k) == pc[c] = "gone" /\ key[c] = k
InProgress(c) == pc[c] \notin {"idle", "done", "gone"}

\* Singleflight: two requests never fetch the same key from the upstream at the
\* same time (RequestCoalescer::get_or_insert with every path to complete).
SingleLeader == \A k \in Keys, c, d \in Clients : Leads(c, k) /\ Leads(d, k) => c = d

\* A request that waits on the coalescer waits for a leader that is still at
\* work, or whose connection was dropped before it could call complete.
WaiterHasLeader ==
    \A k \in Keys, c \in Clients :
        Waiting(c, k) => \E d \in Clients : Leads(d, k) \/ Abandoned(d, k)

\* The coalescer's map is exactly the leaders at work and the ones dropped: the
\* strengthening that makes SingleLeader and WaiterHasLeader inductive.
MapInv ==
    \A k \in Keys :
        /\ \A c \in Clients : Leads(c, k) => inFlight[k] = c
        /\ inFlight[k] # Nobody =>
              Leads(inFlight[k], k) \/ Abandoned(inFlight[k], k)
        /\ \A c \in Clients : Waiting(c, k) => inFlight[k] # Nobody

\* A response is to the very key asked, its context included: a hit, a broadcast of
\* the coalescer, a frozen fallback.  The one exception is the semantic tier, which
\* compares the embeddings of context-qualified texts and never the contexts: an
\* ordinary query may get another key's entry, labelled a hit, if the two are similar
\* and the entry was not expired when it was looked at.
AnswerFitsQuery ==
    \A c \in Clients :
        answer[c].src \notin {NoKey, key[c]} =>
            /\ kind[c] = "query"
            /\ answer[c].label = "Hit" /\ answer[c].age # "Expired"
            /\ <<key[c], answer[c].src>> \in Similar

\* "This should only be called by the leader" (complete): a sender leaves the map
\* only by a step of the request that put it there.
OnlyLeaderCompletes ==
    [][\A k \in Keys :
          inFlight[k] # Nobody /\ inFlight'[k] # inFlight[k] =>
              Leads(inFlight[k], k) /\ pc'[inFlight[k]] = "done"]_vars

\* "All waiting clients receive the same response": every request in progress is
\* eventually answered, or its client has gone.
RequestsAnswered == \A c \in Clients : InProgress(c) ~> ~InProgress(c)

Flight ==
    INSTANCE Flights WITH
        Members <- Clients,
        leader <- inFlight,
        aboard <- [k \in Keys |-> {c \in Clients : Waiting(c, k)}]

\* Singleflight as its users see it: execute_query and the batch items, with all
\* their fallbacks, dropped connections and late messages, take off, board, land and
\* leave as module Flights says, and a landing serves everyone on board.
Coalesces == Flight!Spec
=============================================================================
