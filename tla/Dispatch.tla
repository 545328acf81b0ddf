------------------------------ MODULE Dispatch ------------------------------
(***************************************************************************)
(* What the leader of a query does to fetch it: the retry loop of retry.rs *)
(* around dispatch_upstream_query, which takes one of the global           *)
(* concurrency permits and asks the cascade, the pool or the only upstream.*)
(* Every outcome of a pool or cascade call is recorded in the called       *)
(* upstream's HealthTracker, three atomic steps each, and the trackers     *)
(* decide whom later requests may call.                                    *)
(*                                                                         *)
(* Upstreams are numbered in the order they are tried: the configured      *)
(* order for the pool's fall-back loop, the priority for the cascade.      *)
(* The upstreams themselves are the environment: any call may succeed or   *)
(* fail.  A call is one request of the upstream, or up to three of an      *)
(* upstream whose query mode is not known yet: the text, the probe for the *)
(* mode, the vector.  The connection pool below query_pooled is the module *)
(* ConnectionPool; its errors are failed calls here.  Round-robin picks by *)
(* a counter that every other request moves too, so any candidate may be   *)
(* the primary.  Delays are left out: a retry may start at any time.       *)
(***************************************************************************)
EXTENDS Naturals, FiniteSets

CONSTANTS
    N,          \* number of upstreams
    Requests,   \* leaders that fetch at the same time
    Named,      \* upstreams that requests ask for by name
    Configs     \* the configurations the proxy may be started with

ConfigType ==
    [mode : {"cascade", "pool", "single"},
     embed : BOOLEAN,          \* built with embed-api
     limit : Nat,              \* permits of global_concurrency
     retries : Nat,            \* max_retries
     depth : Nat,              \* max_cascade_depth
     offlineAt : Nat \ {0},    \* offline_threshold
     onlineAt : Nat \ {0}]     \* recovery_threshold

ASSUME DispatchAssumption ==
    /\ N \in Nat \ {0}
    /\ IsFiniteSet(Requests)
    /\ Named \subseteq 1 .. N
    /\ Configs \subseteq ConfigType

VARIABLES
    config,   \* the configuration in use
    failures, \* consecutive_failures, as far as the threshold tells apart
    wins,     \* consecutive_successes, likewise
    offline,  \* is_offline
    qmode,    \* query_mode of each adapter
    permits,  \* permits left in global_concurrency
    rq        \* each request: where it is and what it has learnt

vars == <<config, failures, wins, offline, qmode, permits, rq>>
hvars == <<failures, wins, offline>>

Upstreams == 1 .. N
NoTarget == 0
Ok == {"full", "thin"}               \* results that suffice, and ones that do not
Err == {"transient", "permanent"}    \* errors the policy retries, and the others
Outcomes == Ok \cup {"error"}
Modes == {"unknown", "text", "vector"}
Ended == {"ok", "err"}
Inside == {"select", "calling", "reset", "count", "mark", "judge", "next"}

\* One request: phase is the place of the call in progress, cands the upstreams
\* chosen at its start, rest those not yet tried by the loop, oks and bad those that
\* answered or failed in this attempt; ask is what the call in progress is waiting for:
\* the answer to a text, to a first text while the mode is unknown, to a probe or to a
\* vector; calls counts the requests made of upstreams.
RequestType ==
    [pc : {"idle", "start"} \cup Inside \cup Ended,
     target : {NoTarget} \cup Upstreams, attempt : Nat,
     phase : {"none", "single", "target", "primary", "loop"},
     cands : SUBSET Upstreams, rest : SUBSET Upstreams, u : Upstreams, out : Outcomes,
     seen : Nat, oks : SUBSET Upstreams, bad : SUBSET Upstreams, calls : Nat,
     ask : {"text", "first", "probe", "vector"}]

Fresh ==
    [pc |-> "idle", target |-> NoTarget, attempt |-> 0, phase |-> "none",
     cands |-> {}, rest |-> {}, u |-> 1, out |-> "thin", seen |-> 0,
     oks |-> {}, bad |-> {}, calls |-> 0, ask |-> "text"]

\* Single upstream and cascade look at the mode of an upstream, in a build that can
\* embed; the pool sends the text to everyone.
ModeAware == config.embed /\ config.mode # "pool"

Init ==
    /\ config \in Configs
    /\ failures = [u \in Upstreams |-> 0]
    /\ wins = [u \in Upstreams |-> 0]
    /\ offline = [u \in Upstreams |-> FALSE]
    /\ qmode \in [Upstreams -> IF ModeAware THEN Modes ELSE {"text"}]
    /\ permits = config.limit
    /\ rq = [r \in Requests |-> Fresh]

At(r, p) == rq[r].pc = p

-----------------------------------------------------------------------------
(* The retry loop and the global permit                                    *)

\* A request arrives at the executor, for one upstream by name or for any.
Begin(r, t) ==
    /\ rq[r].pc \in {"idle"} \cup Ended
    /\ rq' = [rq EXCEPT ![r] = [Fresh EXCEPT !.pc = "start", !.target = t]]
    /\ UNCHANGED <<config, qmode, permits, hvars>>

\* Mutation of ShouldRetry: one retry too many.
ShouldRetryLate(r, o) == o = "transient" /\ rq[r].attempt <= config.retries

\* should_retry: attempt counts from 0, so max_retries calls follow the first.
ShouldRetry(r, o) == o = "transient" /\ rq[r].attempt < config.retries

\* The request after an attempt that ended with outcome o.
Concluded(r, o) ==
    IF o \in Ok THEN [Fresh EXCEPT !.pc = "ok"]
    ELSE IF ShouldRetry(r, o)
         THEN [Fresh EXCEPT !.pc = "start", !.target = rq[r].target, !.attempt = rq[r].attempt + 1]
         ELSE [Fresh EXCEPT !.pc = "err"]

\* dispatch_upstream_query returns and drops its permit.
EndAttempt(r, o) ==
    /\ rq' = [rq EXCEPT ![r] = Concluded(r, o)]
    /\ permits' = permits + 1
    /\ UNCHANGED <<config, qmode, hvars>>

\* Mutation of Reject: the request asks again until a permit is free.
RejectSpins(r) == At(r, "start") /\ permits = 0 /\ UNCHANGED vars

\* try_acquire fails: the request does not wait, the attempt fails as Unavailable.
Reject(r) ==
    /\ At(r, "start") /\ permits = 0
    /\ rq' = [rq EXCEPT ![r] = Concluded(r, "transient")]
    /\ UNCHANGED <<config, qmode, permits, hvars>>

Admit(r) ==
    /\ At(r, "start") /\ permits > 0
    /\ permits' = permits - 1
    /\ rq' = [rq EXCEPT ![r].pc = "select"]
    /\ UNCHANGED <<config, qmode, hvars>>

\* Mutation of Abandon: a dropped request takes its permit with it.
AbandonKeepsPermit(r) ==
    /\ At(r, "calling") \/ (At(r, "start") /\ rq[r].attempt > 0)
    /\ rq' = [rq EXCEPT ![r] = Fresh]
    /\ UNCHANGED <<config, qmode, permits, hvars>>

\* The request's future is dropped where it awaits: asleep before a retry, or in a
\* call.  The permit goes back with the stack frame, and nothing is recorded.
Abandon(r) ==
    /\ At(r, "calling") \/ (At(r, "start") /\ rq[r].attempt > 0)
    /\ permits' = IF At(r, "calling") THEN permits + 1 ELSE permits
    /\ rq' = [rq EXCEPT ![r] = Fresh]
    /\ UNCHANGED <<config, qmode, hvars>>

-----------------------------------------------------------------------------
(* Whom to call                                                            *)

Available == {u \in Upstreams : ~offline[u]}

\* The available upstreams; all of them, as probes of last resort, when there is none.
Candidates == IF Available = {} THEN Upstreams ELSE Available

\* What an upstream is asked first, by its mode.
FirstAsk(u) == IF qmode[u] = "unknown" THEN "first" ELSE qmode[u]

\* rq with r calling u.
Calling(r, f, u) ==
    [rq EXCEPT ![r].pc = "calling", ![r].phase = f, ![r].u = u, ![r].calls = @ + 1,
               ![r].ask = FirstAsk(u)]

SelectSingle(r) ==
    /\ At(r, "select") /\ config.mode = "single"
    /\ rq' = Calling(r, "single", 1)
    /\ UNCHANGED <<config, qmode, permits, hvars>>

\* A request for a named upstream goes straight to it, offline or not.
SelectTarget(r) ==
    /\ At(r, "select") /\ config.mode # "single" /\ rq[r].target # NoTarget
    /\ rq' = Calling(r, "target", rq[r].target)
    /\ UNCHANGED <<config, qmode, permits, hvars>>

SelectPrimary(r) ==
    /\ At(r, "select") /\ config.mode = "pool" /\ rq[r].target = NoTarget
    /\ \E u \in Candidates :
          rq' = LET c == Calling(r, "primary", u) IN [c EXCEPT ![r].cands = Candidates]
    /\ UNCHANGED <<config, qmode, permits, hvars>>

\* cascade_order: r is about to try all candidates, nothing scored yet.
Ordered(r) ==
    [rq[r] EXCEPT !.pc = "next", !.cands = Candidates, !.rest = Candidates, !.oks = {}, !.bad = {}]

SelectCascade(r) ==
    /\ At(r, "select") /\ config.mode = "cascade" /\ rq[r].target = NoTarget
    /\ rq' = [rq EXCEPT ![r] = Ordered(r)]
    /\ UNCHANGED <<config, qmode, permits, hvars>>

-----------------------------------------------------------------------------
(* One call and its record                                                 *)

\* r with the outcome o of its call.
Heard(r, o) ==
    LET u == rq[r].u IN
    [rq[r] EXCEPT !.pc = IF rq[r].phase = "single" THEN "judge" ELSE "reset",
                  !.out = o, !.ask = "text",
                  !.oks = IF o \in Ok THEN @ \cup {u} ELSE @,
                  !.bad = IF o = "error" THEN @ \cup {u} ELSE @]

\* The answer of a call.  Results below the threshold matter to the cascade alone; a
\* text that worked settles the mode.
Answer(r, o) ==
    /\ At(r, "calling") /\ rq[r].ask # "probe"
    /\ o = "thin" => config.mode = "cascade"
    /\ rq' = [rq EXCEPT ![r] = Heard(r, o)]
    /\ qmode' = IF rq[r].ask = "first" /\ o \in Ok THEN [qmode EXCEPT ![rq[r].u] = "text"] ELSE qmode
    /\ UNCHANGED <<config, permits, hvars>>

\* rq with r asking a for another time within its call.
AskAgain(r, a) == [rq EXCEPT ![r].ask = a, ![r].calls = @ + 1]

\* A first text refused with an error that says texts are not supported: the upstream
\* is probed for its mode.
Unsupported(r) ==
    /\ At(r, "calling") /\ rq[r].ask = "first"
    /\ rq' = AskAgain(r, "probe")
    /\ UNCHANGED <<config, qmode, permits, hvars>>

\* Mutation of Discover: the query starts over with the mode that was found.
DiscoverStartsOver(r, m) ==
    /\ At(r, "calling") /\ rq[r].ask = "probe"
    /\ qmode' = [qmode EXCEPT ![rq[r].u] = m]
    /\ rq' = AskAgain(r, IF m = "unknown" THEN "first" ELSE m)
    /\ UNCHANGED <<config, permits, hvars>>

\* discover_query_mode answers: an upstream for vectors gets the embedded query, with
\* any other mode the call has failed.  (An embedder that fails is a failed request.)
Discover(r, m) ==
    /\ At(r, "calling") /\ rq[r].ask = "probe"
    /\ qmode' = [qmode EXCEPT ![rq[r].u] = m]
    /\ rq' = IF m = "vector" THEN AskAgain(r, "vector") ELSE [rq EXCEPT ![r] = Heard(r, "error")]
    /\ UNCHANGED <<config, permits, hvars>>

\* The probe fails: so does the call, and the mode stays as it is.
ProbeFails(r) ==
    /\ At(r, "calling") /\ rq[r].ask = "probe"
    /\ rq' = [rq EXCEPT ![r] = Heard(r, "error")]
    /\ UNCHANGED <<config, qmode, permits, hvars>>

\* Mutation of RecordReset: successes are cleared with the failures and never add up.
RecordResetBoth(r) ==
    LET u == rq[r].u IN
    /\ At(r, "reset")
    /\ failures' = IF rq[r].out \in Ok THEN [failures EXCEPT ![u] = 0] ELSE failures
    /\ wins' = [wins EXCEPT ![u] = 0]
    /\ rq' = [rq EXCEPT ![r].pc = "count"]
    /\ UNCHANGED <<config, qmode, permits, offline>>

\* record_success and record_failure first clear the other's counter, ...
RecordReset(r) ==
    LET u == rq[r].u IN
    /\ At(r, "reset")
    /\ IF rq[r].out \in Ok
       THEN failures' = [failures EXCEPT ![u] = 0] /\ UNCHANGED wins
       ELSE wins' = [wins EXCEPT ![u] = 0] /\ UNCHANGED failures
    /\ rq' = [rq EXCEPT ![r].pc = "count"]
    /\ UNCHANGED <<config, qmode, permits, offline>>

AtMost(n, bound) == IF n > bound THEN bound ELSE n

\* ... then count, each keeping the value its own fetch_add returned, ...
RecordCount(r) ==
    LET u == rq[r].u
        w == AtMost(wins[u] + 1, config.onlineAt)
        f == AtMost(failures[u] + 1, config.offlineAt)
    IN
    /\ At(r, "count")
    /\ IF rq[r].out \in Ok
       THEN wins' = [wins EXCEPT ![u] = w] /\ UNCHANGED failures
       ELSE failures' = [failures EXCEPT ![u] = f] /\ UNCHANGED wins
    /\ rq' = [rq EXCEPT ![r].pc = "mark", ![r].seen = IF rq[r].out \in Ok THEN w ELSE f]
    /\ UNCHANGED <<config, qmode, permits, offline>>

\* ... and mark by that value, however old it is by now.
RecordMark(r) ==
    LET u == rq[r].u IN
    /\ At(r, "mark")
    /\ offline' = [offline EXCEPT ![u] =
                     IF rq[r].out \in Ok
                     THEN @ /\ rq[r].seen < config.onlineAt
                     ELSE @ \/ rq[r].seen >= config.offlineAt]
    /\ rq' = [rq EXCEPT ![r].pc = "judge", ![r].seen = 0]
    /\ UNCHANGED <<config, qmode, permits, failures, wins>>

-----------------------------------------------------------------------------
(* What an answer means                                                    *)

\* Mutation of Decides: the pool's loop gives up at its first error.
DecidesEarly(r) ==
    \/ rq[r].phase \in {"single", "loop"}
    \/ config.mode = "pool" /\ (rq[r].phase = "target" \/ rq[r].out \in Ok)
    \/ config.mode = "pool" /\ rq[r].phase = "primary" /\ Cardinality(rq[r].cands) = 1
    \/ config.mode = "cascade" /\ rq[r].out = "full"

\* The call's outcome is the attempt's: any call of the single upstream, a named one
\* of the pool, a success of the pool, the failure of a pool's only candidate, and in
\* the cascade a result that suffices.
Decides(r) ==
    \/ rq[r].phase = "single"
    \/ config.mode = "pool" /\ (rq[r].phase = "target" \/ rq[r].out \in Ok)
    \/ config.mode = "pool" /\ rq[r].phase = "primary" /\ Cardinality(rq[r].cands) = 1
    \/ config.mode = "cascade" /\ rq[r].out = "full"

\* What the error is matters only here, to is_retryable.
JudgeFinal(r) ==
    /\ At(r, "judge") /\ Decides(r)
    /\ \E o \in (IF rq[r].out \in Ok THEN {rq[r].out} ELSE Err) : EndAttempt(r, o)

\* A failed primary: the loop starts over all candidates, the primary included.  A
\* named upstream of the cascade without results: the cascade starts.
JudgeFallBack(r) ==
    /\ At(r, "judge") /\ ~Decides(r)
    /\ LET back == [IF rq[r].phase = "target" THEN Ordered(r)
                    ELSE IF rq[r].phase = "primary"
                         THEN [rq[r] EXCEPT !.pc = "next", !.rest = rq[r].cands]
                         ELSE [rq[r] EXCEPT !.pc = "next"]
                    EXCEPT !.phase = "none", !.u = 1, !.out = "thin"]
       IN  rq' = [rq EXCEPT ![r] = back]
    /\ UNCHANGED <<config, qmode, permits, hvars>>

\* Mutation of TryNext: the upstream tried stays among those to try.
TryNextAgain(r) ==
    /\ At(r, "next")
    /\ config.mode = "cascade" => Cardinality(rq[r].oks \cup rq[r].bad) < config.depth
    /\ \E u \in rq[r].rest :
          /\ \A v \in rq[r].rest : u <= v
          /\ rq' = Calling(r, "loop", u)
    /\ UNCHANGED <<config, qmode, permits, hvars>>

\* The next upstream of the loop; the cascade stops at max_cascade_depth.
TryNext(r) ==
    /\ At(r, "next")
    /\ config.mode = "cascade" => Cardinality(rq[r].oks \cup rq[r].bad) < config.depth
    /\ \E u \in rq[r].rest :
          /\ \A v \in rq[r].rest : u <= v
          /\ rq' = LET c == Calling(r, "loop", u) IN [c EXCEPT ![r].rest = @ \ {u}]
    /\ UNCHANGED <<config, qmode, permits, hvars>>

PoolExhausted(r) ==
    /\ At(r, "next") /\ config.mode = "pool" /\ rq[r].rest = {}
    /\ EndAttempt(r, "transient")

\* Mutation of CascadeExhausted: an exhausted cascade is an empty miss.
CascadeExhaustedEmpty(r) ==
    /\ At(r, "next") /\ config.mode = "cascade" /\ rq[r].rest = {}
    /\ EndAttempt(r, "thin")

\* AllExhausted is a failure when every upstream tried has failed, and NoUpstreams is one.
CascadeExhausted(r) ==
    /\ At(r, "next") /\ config.mode = "cascade" /\ rq[r].rest = {}
    /\ EndAttempt(r, IF rq[r].oks = {} THEN "transient" ELSE "thin")

\* config.depthReached never is, whatever the upstreams tried have said.
CascadeTooDeep(r) ==
    /\ At(r, "next") /\ config.mode = "cascade" /\ rq[r].rest # {}
    /\ Cardinality(rq[r].oks \cup rq[r].bad) >= config.depth
    /\ EndAttempt(r, "thin")

\* The cascade's time-out, looked at before every call, is a failure even when an
\* upstream has answered.
CascadeTimeout(r) ==
    /\ At(r, "next") /\ config.mode = "cascade" /\ rq[r].rest # {}
    /\ Cardinality(rq[r].oks \cup rq[r].bad) < config.depth
    /\ EndAttempt(r, "transient")

-----------------------------------------------------------------------------
Probe(r) == Unsupported(r) \/ (\E m \in Modes : Discover(r, m)) \/ ProbeFails(r)
Select(r) == SelectSingle(r) \/ SelectTarget(r) \/ SelectPrimary(r) \/ SelectCascade(r)
Record(r) == RecordReset(r) \/ RecordCount(r) \/ RecordMark(r)
Judge(r) == JudgeFinal(r) \/ JudgeFallBack(r)
Continue(r) ==
    TryNext(r) \/ PoolExhausted(r) \/ CascadeExhausted(r) \/ CascadeTooDeep(r) \/ CascadeTimeout(r)

Step(r) ==
    \/ Reject(r) \/ Admit(r) \/ Select(r)
    \/ \E o \in Outcomes : Answer(r, o)
    \/ Probe(r) \/ Record(r) \/ Judge(r) \/ Continue(r)

Next ==
    \E r \in Requests :
        \/ \E t \in {NoTarget} \cup Named : Begin(r, t)
        \/ Step(r) \/ Abandon(r)

Spec == Init /\ [][Next]_vars

\* The runtime polls every task, every HTTP call has a time-out and every retry delay
\* ends: a request that can move does.  Nothing is assumed of arrivals, of drops or of
\* the upstreams.
FairSpec == Spec /\ \A r \in Requests : WF_vars(Step(r))

-----------------------------------------------------------------------------
\* Every variable has its type.
TypeOK ==
    /\ config \in Configs
    /\ failures \in [Upstreams -> 0 .. config.offlineAt]
    /\ wins \in [Upstreams -> 0 .. config.onlineAt]
    /\ offline \in [Upstreams -> BOOLEAN]
    /\ qmode \in [Upstreams -> IF ModeAware THEN Modes ELSE {"text"}]
    /\ permits \in Nat
    /\ rq \in [Requests -> RequestType]
    /\ \A r \in Requests : rq[r].attempt <= config.retries

HoldsPermit(r) == rq[r].pc \in Inside

\* global_concurrency keeps its limit: on every path through the pool, the cascade and
\* the retries, dropped requests included, each permit is free or with one request.
PermitsConserved ==
    permits + Cardinality({r \in Requests : HoldsPermit(r)}) = config.limit

\* The requests one call of an upstream may take.
CallCost == IF ModeAware THEN 3 ELSE 1

\* One attempt calls every upstream at most once and one of them (the pool's primary,
\* the cascade's named one) twice, and a call is one request, or text, probe and vector
\* where the mode matters: with max_retries a query costs the upstreams at most
\* (max_retries + 1) * (N + 1) requests, three times that with embedding.
CallBound == \A r \in Requests : rq[r].calls <= CallCost * (N + 1)

\* UpstreamPool::query does not give up early: a request of the pool whose attempt
\* fails after it was admitted has been refused by every upstream that was a candidate
\* when the attempt began, however their health changed meanwhile.
FailedMeansAllTried ==
    [][\A r \in Requests :
         /\ config.mode = "pool" /\ rq[r].target = NoTarget
         /\ At(r, "judge") \/ At(r, "next")
         /\ rq'[r].pc \in {"start", "err"}
         => rq[r].cands \subseteq rq[r].bad]_vars

\* An answer is some upstream's: no request succeeds in an attempt in which nobody
\* answered, unless the cascade stopped at its maximal depth.
OkIsBacked ==
    [][\A r \in Requests :
         ~At(r, "ok") /\ rq'[r].pc = "ok"
         => \/ rq[r].oks # {}
            \/ config.mode = "cascade" /\ Cardinality(rq[r].bad) >= config.depth]_vars

\* Every request ends, with a result, with an error or because its client is gone.
RequestsEnd == \A r \in Requests : []<>(rq[r].pc \in {"idle"} \cup Ended)

CallFails ==
    \E r \in Requests :
        \/ Answer(r, "error") \/ ProbeFails(r)
        \/ \E m \in Modes \ {"vector"} : Discover(r, m)

\* A pool whose upstreams have all been marked offline recovers: when the upstreams
\* answer again for good and requests keep coming, neither dropped nor out of time,
\* some upstream is back in the rotation for good.
PoolRecovers ==
    /\ <>[][~CallFails]_vars
    /\ []<>(config.mode # "single" /\ \E r \in Requests : At(r, "select"))
    /\ <>[][\A r \in Requests : ~Abandon(r) /\ ~CascadeTimeout(r)]_vars
    => <>[](\E u \in Upstreams : ~offline[u])
=============================================================================
