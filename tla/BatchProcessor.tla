--------------------------- MODULE BatchProcessor ---------------------------
(***************************************************************************)
(* One batch request: BatchProcessor::process of batch.rs with the closure *)
(* handle_batch gives it.  In parallel every query is a spawned task that  *)
(* looks at the fail-fast flag, waits for one of max_parallel permits and  *)
(* runs the closure, while the handler joins the tasks in order until the  *)
(* deadline.  Sequentially the handler runs the closure itself.            *)
(*                                                                         *)
(* The closure looks in the cache and then in the request coalescer.  Items *)
(* of one batch meet there when their queries are the same (duplicate ids  *)
(* are refused, duplicate queries are not), and so do the other requests   *)
(* of the server, whose flights an item may board.  What the leader's      *)
(* fetch does is the module Dispatch; here it succeeds, fails or panics.   *)
(***************************************************************************)
EXTENDS Naturals, FiniteSets

CONSTANTS
    N,         \* queries of the batch
    Keys,      \* hashes of their texts
    Configs    \* the configurations and options in question

Items == 1 .. N
Outside == N + 1    \* whoever leads a key and is not of this batch

ConfigType ==
    [parallel : BOOLEAN,        \* run in parallel
     failFast : BOOLEAN,        \* fail_fast
     maxParallel : Nat \ {0},   \* max_parallel
     upstream : BOOLEAN,        \* there is a cascade, a pool or an upstream
     key : [Items -> Keys],     \* which queries are the same
     others : SUBSET Keys]      \* what other requests of the server ask for

ASSUME BatchAssumption ==
    /\ N \in Nat \ {0}
    /\ Configs \subseteq ConfigType

VARIABLES
    config,    \* the configuration in use
    handler,   \* where the handler is
    j,         \* the item it waits for
    late,      \* the deadline has passed
    answer,    \* the response it is building
    pc,        \* where each item is
    res,       \* each item's result
    msg,       \* what a waiting item has been sent
    permits,   \* permits of the batch's semaphore
    failed,    \* the fail-fast flag
    flight,    \* state.coalescer: who leads each key in flight, 0 for nobody
    cached     \* each key's entry in the cache: none, usable or expired

vars == <<config, handler, j, late, answer, pc, res, msg, permits, failed, flight, cached>>
hvars == <<config, handler, j, late, answer>>

Parallel == config.parallel /\ N > 1
Key(i) == config.key[i]
Running == {"run", "miss", "fetch", "wait"}

Init ==
    /\ config \in Configs
    /\ handler = "start" /\ j = 1 /\ late = FALSE
    /\ answer = [results |-> {}, ok |-> 0, err |-> 0, complete |-> TRUE]
    /\ pc = [i \in Items |-> "none"]
    /\ res = [i \in Items |-> "none"]
    /\ msg = [i \in Items |-> "none"]
    /\ permits = config.maxParallel
    /\ failed = FALSE
    /\ flight = [k \in Keys |-> 0]
    /\ cached \in [Keys -> {"none", "expired"}]

-----------------------------------------------------------------------------
(* The handler                                                             *)

\* All tasks are spawned before the first one is joined.
Spawn ==
    /\ handler = "start" /\ Parallel
    /\ handler' = "join"
    /\ pc' = [i \in Items |-> "new"]
    /\ UNCHANGED <<config, j, late, answer, res, msg, permits, failed, flight, cached>>

StartSequential ==
    /\ handler = "start" /\ ~Parallel
    /\ handler' = "seq"
    /\ UNCHANGED <<config, j, late, answer, pc, res, msg, permits, failed, flight, cached>>

DeadlinePasses ==
    /\ ~late /\ handler \notin {"start", "returned", "dropped"}
    /\ late' = TRUE
    /\ UNCHANGED <<config, handler, j, answer, pc, res, msg, permits, failed, flight, cached>>

\* The answer with the result of item j.
Counted ==
    [results |-> answer.results \cup {j},
     ok |-> answer.ok + (IF res[j] = "ok" THEN 1 ELSE 0),
     err |-> answer.err + (IF res[j] = "ok" THEN 0 ELSE 1),
     complete |-> answer.complete]

\* A finished task is joined even after the deadline.
JoinResult ==
    /\ handler = "join" /\ j <= N /\ pc[j] = "done" /\ res[j] # "panic"
    /\ answer' = Counted
    /\ j' = j + 1
    /\ UNCHANGED <<config, handler, late, pc, res, msg, permits, failed, flight, cached>>

\* Mutation of JoinPanic: the batch still counts as complete.
JoinPanicUnseen ==
    /\ handler = "join" /\ j <= N /\ pc[j] = "done" /\ res[j] = "panic"
    /\ answer' = [answer EXCEPT !.err = @ + 1]
    /\ j' = j + 1
    /\ UNCHANGED <<config, handler, late, pc, res, msg, permits, failed, flight, cached>>

\* A panic counts as an error without a result.
JoinPanic ==
    /\ handler = "join" /\ j <= N /\ pc[j] = "done" /\ res[j] = "panic"
    /\ answer' = [answer EXCEPT !.err = @ + 1, !.complete = FALSE]
    /\ j' = j + 1
    /\ UNCHANGED <<config, handler, late, pc, res, msg, permits, failed, flight, cached>>

\* Mutation of JoinTimeout: the handler waits for every task.
JoinTimeoutNever == FALSE /\ UNCHANGED vars

\* The first task that is not done at the deadline ends the loop: the tasks behind it
\* run on, and their results, finished or not, are left out.
JoinTimeout ==
    /\ handler = "join" /\ j <= N /\ pc[j] # "done" /\ late
    /\ answer' = [answer EXCEPT !.complete = FALSE]
    /\ handler' = "returned"
    /\ UNCHANGED <<config, j, late, pc, res, msg, permits, failed, flight, cached>>

Return ==
    /\ handler \in {"join", "seq"} /\ j > N
    /\ handler' = "returned"
    /\ UNCHANGED <<config, j, late, answer, pc, res, msg, permits, failed, flight, cached>>

\* Sequentially the deadline is looked at between two queries only.
SeqTimeout ==
    /\ handler = "seq" /\ j <= N /\ late
    /\ answer' = [answer EXCEPT !.complete = FALSE]
    /\ handler' = "returned"
    /\ UNCHANGED <<config, j, late, pc, res, msg, permits, failed, flight, cached>>

SeqRun ==
    /\ handler = "seq" /\ j <= N /\ ~late
    /\ handler' = "await"
    /\ pc' = [pc EXCEPT ![j] = "run"]
    /\ UNCHANGED <<config, j, late, answer, res, msg, permits, failed, flight, cached>>

SeqResult ==
    LET stop == res[j] = "err" /\ config.failFast IN
    /\ handler = "await" /\ pc[j] = "done"
    /\ answer' = [Counted EXCEPT !.complete = @ /\ ~stop]
    /\ handler' = IF stop THEN "returned" ELSE "seq"
    /\ j' = IF stop THEN j ELSE j + 1
    /\ UNCHANGED <<config, late, pc, res, msg, permits, failed, flight, cached>>

\* The client disconnects and the handler's future is dropped: the query it was running
\* itself goes with it and leaves its key in the coalescer; spawned tasks run on.
Drop ==
    /\ handler \in {"join", "await"}
    /\ handler' = "dropped"
    /\ pc' = IF handler = "await" THEN [pc EXCEPT ![j] = "gone"] ELSE pc
    /\ UNCHANGED <<config, j, late, answer, res, msg, permits, failed, flight, cached>>

-----------------------------------------------------------------------------
(* One query                                                               *)

\* The item is done with result r: the flag is set, the permit given back.
Finish(i, r) ==
    /\ pc' = [pc EXCEPT ![i] = "done"]
    /\ res' = [res EXCEPT ![i] = r]
    /\ failed' = (failed \/ (r = "err" /\ Parallel /\ config.failFast))
    /\ permits' = IF Parallel /\ pc[i] \in Running THEN permits + 1 ELSE permits

\* The flag is looked at once, before the wait for a permit.
SkipFailed(i) ==
    /\ pc[i] = "new" /\ config.failFast /\ failed
    /\ Finish(i, "err")
    /\ UNCHANGED <<hvars, msg, flight, cached>>

PassFlag(i) ==
    /\ pc[i] = "new" /\ ~(config.failFast /\ failed)
    /\ pc' = [pc EXCEPT ![i] = "acquire"]
    /\ UNCHANGED <<hvars, res, msg, permits, failed, flight, cached>>

\* Mutation of Acquire: the permit is dropped at once (let _ = ... for let _permit = ...).
AcquireDrops(i) ==
    /\ pc[i] = "acquire" /\ permits > 0
    /\ pc' = [pc EXCEPT ![i] = "run"]
    /\ UNCHANGED <<hvars, res, msg, permits, failed, flight, cached>>

Acquire(i) ==
    /\ pc[i] = "acquire" /\ permits > 0
    /\ permits' = permits - 1
    /\ pc' = [pc EXCEPT ![i] = "run"]
    /\ UNCHANGED <<hvars, res, msg, failed, flight, cached>>

\* A fresh or a stale entry is the answer; an expired one is a miss.
CacheHit(i) ==
    /\ pc[i] = "run" /\ cached[Key(i)] = "usable"
    /\ Finish(i, "ok")
    /\ UNCHANGED <<hvars, msg, flight, cached>>

CacheMiss(i) ==
    /\ pc[i] = "run" /\ cached[Key(i)] # "usable"
    /\ pc' = [pc EXCEPT ![i] = "miss"]
    /\ UNCHANGED <<hvars, res, msg, permits, failed, flight, cached>>

\* Whether there is an entry to fall back on, however old.
Frozen(i) == IF cached[Key(i)] = "none" THEN "err" ELSE "ok"

\* Without an upstream the cache is all there is.
CacheOnly(i) ==
    /\ pc[i] = "miss" /\ ~config.upstream
    /\ Finish(i, Frozen(i))
    /\ UNCHANGED <<hvars, msg, flight, cached>>

\* get_or_insert: lead the key, or wait for whoever does, of this batch or not.
Coalesce(i) ==
    /\ pc[i] = "miss" /\ config.upstream
    /\ IF flight[Key(i)] = 0
       THEN flight' = [flight EXCEPT ![Key(i)] = i] /\ pc' = [pc EXCEPT ![i] = "fetch"]
       ELSE pc' = [pc EXCEPT ![i] = "wait"] /\ UNCHANGED flight
    /\ UNCHANGED <<hvars, res, msg, permits, failed, cached>>

\* Mutation of Complete: a waiter is told of success only.
CompleteOk(k, r) ==
    /\ flight' = [flight EXCEPT ![k] = 0]
    /\ msg' = [m \in Items |-> IF pc[m] = "wait" /\ Key(m) = k /\ msg[m] = "none" /\ r = "ok"
                              THEN r ELSE msg[m]]

\* coalescer.complete: the key is free, everyone who waits for it is sent r.
Complete(k, r) ==
    /\ flight' = [flight EXCEPT ![k] = 0]
    /\ msg' = [m \in Items |-> IF pc[m] = "wait" /\ Key(m) = k /\ msg[m] = "none"
                              THEN r ELSE msg[m]]

\* A response that does not validate is answered and not cached.
FetchOk(i) ==
    /\ pc[i] = "fetch"
    /\ cached' \in {cached, [cached EXCEPT ![Key(i)] = "usable"]}
    /\ Complete(Key(i), "ok")
    /\ Finish(i, "ok")
    /\ UNCHANGED hvars

\* Mutation of FetchFails: the waiters are not told.
FetchFailsSilently(i) ==
    /\ pc[i] = "fetch"
    /\ Finish(i, Frozen(i))
    /\ UNCHANGED <<hvars, cached, flight, msg>>

\* The frozen entry, if there is one, is the answer for all.
FetchFails(i) ==
    /\ pc[i] = "fetch"
    /\ Complete(Key(i), Frozen(i))
    /\ Finish(i, Frozen(i))
    /\ UNCHANGED <<hvars, cached>>

Wake(i) ==
    /\ pc[i] = "wait" /\ msg[i] # "none"
    /\ Finish(i, IF msg[i] = "ok" THEN "ok" ELSE Frozen(i))
    /\ UNCHANGED <<hvars, msg, flight, cached>>

\* The closure panics in a spawned task: the permit is returned by unwinding, the key
\* stays in the coalescer.
Panic(i) ==
    /\ Parallel /\ pc[i] = "fetch"
    /\ Finish(i, "panic")
    /\ UNCHANGED <<hvars, msg, flight, cached>>

\* The entry expires, or another request or the cleanup takes it out.
Age(k) ==
    /\ cached[k] # "none"
    /\ cached' \in {[cached EXCEPT ![k] = "expired"], [cached EXCEPT ![k] = "none"]}
    /\ UNCHANGED <<hvars, pc, res, msg, permits, failed, flight>>

-----------------------------------------------------------------------------
(* The rest of the server: execute_query, other batches and gRPC streams    *)

OutsideLeads(k) ==
    /\ k \in config.others /\ flight[k] = 0
    /\ flight' = [flight EXCEPT ![k] = Outside]
    /\ UNCHANGED <<hvars, pc, res, msg, permits, failed, cached>>

\* The other request has its response, the frozen entry, or an error for all.  One that
\* was dropped while it led never gets here.
OutsideLands(k) ==
    /\ flight[k] = Outside
    /\ \/ /\ Complete(k, "ok")
          /\ cached' \in {cached, [cached EXCEPT ![k] = "usable"]}
       \/ /\ cached[k] = "none" /\ Complete(k, "err")
          /\ UNCHANGED cached
    /\ UNCHANGED <<hvars, pc, res, permits, failed>>

-----------------------------------------------------------------------------
Handle ==
    \/ Spawn \/ StartSequential
    \/ JoinResult \/ JoinPanic \/ JoinTimeout \/ Return
    \/ SeqTimeout \/ SeqRun \/ SeqResult

Run(i) ==
    \/ SkipFailed(i) \/ PassFlag(i) \/ Acquire(i) \/ CacheHit(i) \/ CacheMiss(i)
    \/ CacheOnly(i) \/ Coalesce(i) \/ FetchOk(i) \/ FetchFails(i) \/ Wake(i)

Done == handler \in {"returned", "dropped"} /\ UNCHANGED vars

Next ==
    \/ Handle \/ DeadlinePasses \/ Drop \/ Done
    \/ \E i \in Items : Run(i) \/ Panic(i)
    \/ \E k \in Keys : Age(k) \/ OutsideLeads(k) \/ OutsideLands(k)

Spec == Init /\ [][Next]_vars

\* The runtime polls the handler and every task, the deadline comes, a fetch ends, and
\* tokio's semaphore is fair: an item whose turn it is again and again gets a permit.
\* Nothing is assumed of other requests: one that leads a key may never complete it.
FairSpec ==
    /\ Spec /\ WF_vars(Handle) /\ WF_vars(DeadlinePasses)
    /\ \A i \in Items : WF_vars(Run(i)) /\ SF_vars(Acquire(i))

-----------------------------------------------------------------------------
\* Every variable has its type.
TypeOK ==
    /\ config \in Configs
    /\ handler \in {"start", "join", "seq", "await", "returned", "dropped"}
    /\ j \in 1 .. N + 1 /\ late \in BOOLEAN
    /\ answer \in [results : SUBSET Items, ok : 0 .. N, err : 0 .. N, complete : BOOLEAN]
    /\ pc \in [Items -> {"none", "new", "acquire", "done", "gone"} \cup Running]
    /\ res \in [Items -> {"none", "ok", "err", "panic"}]
    /\ msg \in [Items -> {"none", "ok", "err"}]
    /\ permits \in 0 .. config.maxParallel
    /\ failed \in BOOLEAN
    /\ flight \in [Keys -> Items \cup {0, Outside}]
    /\ cached \in [Keys -> {"none", "usable", "expired"}]

\* No more than max_parallel queries run at a time, and no permit is lost: not to an
\* item that is skipped, panics or outlives its handler.
ParallelBound ==
    Parallel => permits + Cardinality({i \in Items : pc[i] \in Running}) = config.maxParallel

\* What the answer says adds up: everything before the item waited for has been counted
\* once, and an answer that says complete has a result for every query.
AnswerAddsUp ==
    /\ answer.ok = Cardinality({i \in answer.results : res[i] = "ok"})
    /\ answer.ok + answer.err >= Cardinality(answer.results)
    /\ handler = "returned" /\ answer.complete =>
         answer.results = Items /\ answer.ok + answer.err = N

\* An item that leads a key is at work on it: the batch leaves a key in flight only by a
\* panic or by a handler dropped in the middle of a sequential batch.
LeaderAtWork ==
    \A k \in Keys : flight[k] \in Items =>
        /\ Key(flight[k]) = k
        /\ pc[flight[k]] \in {"fetch", "gone"} \/ res[flight[k]] = "panic"

Flight ==
    INSTANCE Flights WITH
        Members <- Items \cup {Outside},
        Nobody <- 0,
        leader <- flight,
        aboard <- [k \in Keys |->
                     {i \in Items : pc[i] = "wait" /\ Key(i) = k /\ msg[i] = "none"}]

\* The duplicates of a batch take off, board and land as module Flights says.
Coalesces == Flight!Spec

\* Every batch is answered by its deadline, even when an item waits for a leader that
\* has panicked, as long as the items do not run in the handler itself.
BatchAnswered == config.parallel => <>(handler \in {"returned", "dropped"})

\* Every query that was started ends, also after the handler has timed out or gone,
\* unless a panic in the batch has left a key in flight or another request never
\* completes the key it leads: those who wait keep their permits for ever, and the
\* queries behind them never get one.
ItemsFinish ==
    \/ \E k \in Keys : <>[](flight[k] = Outside)
    \/ \A i \in Items :
          []<>(pc[i] \in {"none", "done", "gone"} \/ \E m \in Items : res[m] = "panic")
=============================================================================
