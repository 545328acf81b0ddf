--------------------------- MODULE CircuitBreaker ---------------------------
(***************************************************************************)
(* The circuit breaker of src/proxy/circuit.rs under concurrent callers,   *)
(* at the granularity of its shared-memory accesses: every atomic load,    *)
(* store, fetch_add and compare_exchange, and every lock operation on its  *)
(* three parking_lot RwLocks (config, opened_at, window_start), is a step  *)
(* of its own.  A caller runs what execute_query runs: allow_request, then *)
(* record_success or record_failure, or neither (a coalesced waiter, or    *)
(* the status endpoint's state(), which runs the same maybe_transition).   *)
(* The reloader runs set_config, the hot-reload entry point.               *)
(*                                                                         *)
(* Instants are kept as what the code asks of them: whether the open       *)
(* duration, respectively the failure window, has elapsed.  times_opened   *)
(* and times_tripped are write-only statistics and are left out.           *)
(***************************************************************************)
EXTENDS Naturals, FiniteSets

CONSTANTS
    Callers,    \* request tasks that consult the breaker
    Reloaders,  \* tasks that run set_config (config hot-reload)
    Configs,    \* the configurations set_config may install
    MaxCount    \* bound: counters saturate here (u32 in the code)

ASSUME CircuitAssumption ==
    /\ Callers \cap Reloaders = {}
    /\ Configs # {}
    /\ Configs \subseteq [failureThreshold : Nat \ {0}, successThreshold : Nat \ {0}]
    /\ MaxCount \in Nat
    /\ \A c \in Configs : c.failureThreshold <= MaxCount /\ c.successThreshold <= MaxCount

VARIABLES
    state,        \* AtomicU8 holding a CircuitState
    failureCount, \* failures in the current window
    successes,    \* half_open_successes
    openedAt,     \* opened_at: None, or Some(instant) not yet / already open_duration ago
    windowOver,   \* window_start is at least failure_window ago
    config,       \* the CircuitBreakerConfig behind its RwLock
    lock,         \* the three RwLocks: readers, writer and queued writers
    pc,           \* where each task is
    seen          \* the counter value each task's fetch_add produced

cvars == <<state, failureCount, successes, openedAt, windowOver, config>>
vars == <<state, failureCount, successes, openedAt, windowOver, config, lock, pc, seen>>

Tasks == Callers \cup Reloaders
CircuitStates == {"Closed", "Open", "HalfOpen"}
Locks == {"config", "openedAt", "window"}
Nobody == "nobody"

\* fetch_add, then saturating_add: only whether the count reaches a threshold is asked.
Plus(n) == IF n < MaxCount THEN n + 1 ELSE n

Init ==
    /\ state = "Closed"
    /\ failureCount = 0
    /\ successes = 0
    /\ openedAt = "None"
    /\ windowOver = FALSE
    /\ config \in Configs
    /\ lock = [l \in Locks |-> [readers |-> {}, queued |-> {}, writer |-> Nobody]]
    /\ pc = [t \in Tasks |-> "idle"]
    /\ seen = [t \in Tasks |-> 0]

At(t, p) == pc[t] = p
Goto(t, p) == pc' = [pc EXCEPT ![t] = p]
Load(t, v) == seen' = [seen EXCEPT ![t] = v]

-----------------------------------------------------------------------------
(* parking_lot::RwLock (external).  The lock is task-fair: a queued writer  *)
(* keeps new readers out, and gets the lock when the present readers leave. *)

CanRead(l) == lock[l].writer = Nobody /\ lock[l].queued = {}
CanWrite(l) == lock[l].writer = Nobody /\ lock[l].readers = {}
Reading(t, l) == [lock EXCEPT ![l].readers = @ \cup {t}]
NotReading(t, l) == [lock EXCEPT ![l].readers = @ \ {t}]
Queued(t, l) == [lock EXCEPT ![l].queued = @ \cup {t}]
Unqueued(t, l) == [lock EXCEPT ![l].queued = @ \ {t}]
Writing(t, l) == [lock EXCEPT ![l].queued = @ \ {t}, ![l].writer = t]

\* A task at p asks for the write lock l, and goes on at q once it is granted.
QueueWrite(t, p, l, q) ==
    /\ At(t, p) /\ Goto(t, q)
    /\ lock' = Queued(t, l)
    /\ UNCHANGED <<cvars, seen>>

-----------------------------------------------------------------------------
(* maybe_transition, half_open and the end of allow_request                *)

BeginRequest(t) ==
    /\ At(t, "idle") /\ Goto(t, "mt_load")
    /\ Load(t, 0)
    /\ UNCHANGED <<cvars, lock>>

MtLoad(t) ==
    /\ At(t, "mt_load")
    /\ Goto(t, IF state = "Open" THEN "mt_opened" ELSE "ar_load")
    /\ UNCHANGED <<cvars, lock, seen>>

\* opened_at.read(), held while config is read; None ends the transition.
MtReadOpened(t) ==
    /\ At(t, "mt_opened") /\ CanRead("openedAt")
    /\ IF openedAt = "None"
       THEN Goto(t, "ar_load") /\ UNCHANGED lock
       ELSE Goto(t, "mt_config") /\ lock' = Reading(t, "openedAt")
    /\ UNCHANGED <<cvars, seen>>

\* elapsed() >= open_duration is asked under both read locks, then both are dropped.
MtReadConfig(t) ==
    /\ At(t, "mt_config") /\ CanRead("config")
    /\ Goto(t, IF openedAt = "Elapsed" THEN "ho_cas" ELSE "ar_load")
    /\ lock' = NotReading(t, "openedAt")
    /\ UNCHANGED <<cvars, seen>>

HalfOpenCas(t) ==
    /\ At(t, "ho_cas")
    /\ IF state = "Open"
       THEN state' = "HalfOpen" /\ Goto(t, "ho_store")
       ELSE UNCHANGED state /\ Goto(t, "ar_load")
    /\ UNCHANGED <<failureCount, successes, openedAt, windowOver, config, lock, seen>>

HalfOpenStore(t) ==
    /\ At(t, "ho_store") /\ Goto(t, "ar_load")
    /\ successes' = 0
    /\ UNCHANGED <<state, failureCount, openedAt, windowOver, config, lock, seen>>

AllowLoad(t) ==
    /\ At(t, "ar_load")
    /\ Goto(t, CASE state = "Open" -> "idle"
                 [] state = "Closed" -> "allowed"
                 [] state = "HalfOpen" -> "probing")
    /\ UNCHANGED <<cvars, lock, seen>>

\* The upstream call ends; a coalesced waiter records nothing.
Outcome(t) ==
    /\ pc[t] \in {"allowed", "probing"}
    /\ \E p \in {"rs_load", "rf_load", "idle"} : Goto(t, p)
    /\ UNCHANGED <<cvars, lock, seen>>

-----------------------------------------------------------------------------
(* record_success and close                                                *)

SuccessLoad(t) ==
    /\ At(t, "rs_load")
    /\ Goto(t, CASE state = "Closed" -> "rs_reset"
                 [] state = "HalfOpen" -> "rs_count"
                 [] state = "Open" -> "idle")
    /\ UNCHANGED <<cvars, lock, seen>>

SuccessReset(t) ==
    /\ At(t, "rs_reset") /\ Goto(t, "idle")
    /\ failureCount' = 0
    /\ UNCHANGED <<state, successes, openedAt, windowOver, config, lock, seen>>

SuccessCount(t) ==
    /\ At(t, "rs_count") /\ Goto(t, "rs_config")
    /\ successes' = Plus(successes)
    /\ Load(t, Plus(successes))
    /\ UNCHANGED <<state, failureCount, openedAt, windowOver, config, lock>>

\* Mutation of SuccessConfig: > for >=.
SuccessConfigStrict(t) ==
    /\ At(t, "rs_config") /\ CanRead("config")
    /\ IF seen[t] > config.successThreshold
       THEN Goto(t, "cl_state") /\ lock' = Reading(t, "config")
       ELSE Goto(t, "idle") /\ UNCHANGED lock
    /\ UNCHANGED <<cvars, seen>>

\* The config read guard stays alive across close().
SuccessConfig(t) ==
    /\ At(t, "rs_config") /\ CanRead("config")
    /\ IF seen[t] >= config.successThreshold
       THEN Goto(t, "cl_state") /\ lock' = Reading(t, "config")
       ELSE Goto(t, "idle") /\ UNCHANGED lock
    /\ UNCHANGED <<cvars, seen>>

\* Mutation of CloseState: close() reads config again under its caller's read guard.
CloseStateRereads(t) ==
    /\ At(t, "cl_state") /\ CanRead("config") /\ Goto(t, "cl_opened")
    /\ state' = "Closed"
    /\ UNCHANGED <<failureCount, successes, openedAt, windowOver, config, lock, seen>>

CloseState(t) ==
    /\ At(t, "cl_state") /\ Goto(t, "cl_opened")
    /\ state' = "Closed"
    /\ UNCHANGED <<failureCount, successes, openedAt, windowOver, config, lock, seen>>

CloseOpenedQueue(t) == QueueWrite(t, "cl_opened", "openedAt", "cl_opened_w")

CloseOpened(t) ==
    /\ At(t, "cl_opened_w") /\ CanWrite("openedAt") /\ Goto(t, "cl_failures")
    /\ openedAt' = "None"
    /\ lock' = Unqueued(t, "openedAt")
    /\ UNCHANGED <<state, failureCount, successes, windowOver, config, seen>>

CloseFailures(t) ==
    /\ At(t, "cl_failures") /\ Goto(t, "cl_successes")
    /\ failureCount' = 0
    /\ UNCHANGED <<state, successes, openedAt, windowOver, config, lock, seen>>

CloseSuccesses(t) ==
    /\ At(t, "cl_successes") /\ Goto(t, "cl_window")
    /\ successes' = 0
    /\ UNCHANGED <<state, failureCount, openedAt, windowOver, config, lock, seen>>

CloseWindowQueue(t) == QueueWrite(t, "cl_window", "window", "cl_window_w")

CloseWindow(t) ==
    /\ At(t, "cl_window_w") /\ CanWrite("window") /\ Goto(t, "idle")
    /\ windowOver' = FALSE
    /\ lock' = [Unqueued(t, "window") EXCEPT !["config"].readers = @ \ {t}]
    /\ UNCHANGED <<state, failureCount, successes, openedAt, config, seen>>

-----------------------------------------------------------------------------
(* record_failure, maybe_reset_window and open                             *)

FailureLoad(t) ==
    /\ At(t, "rf_load")
    /\ Goto(t, CASE state = "Closed" -> "rw_window"
                 [] state = "HalfOpen" -> "op_load"
                 [] state = "Open" -> "idle")
    /\ UNCHANGED <<cvars, lock, seen>>

WindowQueue(t) == QueueWrite(t, "rw_window", "window", "rw_window_w")

WindowLock(t) ==
    /\ At(t, "rw_window_w") /\ CanWrite("window") /\ Goto(t, "rw_config")
    /\ lock' = Writing(t, "window")
    /\ UNCHANGED <<cvars, seen>>

\* config is read with window_start write-locked; the config guard outlives the store.
WindowConfig(t) ==
    /\ At(t, "rw_config") /\ CanRead("config")
    /\ windowOver' = FALSE
    /\ IF windowOver
       THEN /\ Goto(t, "rw_store")
            /\ lock' = [Reading(t, "config") EXCEPT !["window"].writer = Nobody]
       ELSE /\ Goto(t, "rf_count")
            /\ lock' = [lock EXCEPT !["window"].writer = Nobody]
    /\ UNCHANGED <<state, failureCount, successes, openedAt, config, seen>>

WindowStore(t) ==
    /\ At(t, "rw_store") /\ Goto(t, "rf_count")
    /\ failureCount' = 0
    /\ lock' = NotReading(t, "config")
    /\ UNCHANGED <<state, successes, openedAt, windowOver, config, seen>>

FailureCount(t) ==
    /\ At(t, "rf_count") /\ Goto(t, "rf_config")
    /\ failureCount' = Plus(failureCount)
    /\ Load(t, Plus(failureCount))
    /\ UNCHANGED <<state, successes, openedAt, windowOver, config, lock>>

\* Mutation of FailureConfig: > for >=.
FailureConfigStrict(t) ==
    /\ At(t, "rf_config") /\ CanRead("config")
    /\ IF seen[t] > config.failureThreshold
       THEN Goto(t, "op_load") /\ lock' = Reading(t, "config")
       ELSE Goto(t, "idle") /\ UNCHANGED lock
    /\ UNCHANGED <<cvars, seen>>

FailureConfig(t) ==
    /\ At(t, "rf_config") /\ CanRead("config")
    /\ IF seen[t] >= config.failureThreshold
       THEN Goto(t, "op_load") /\ lock' = Reading(t, "config")
       ELSE Goto(t, "idle") /\ UNCHANGED lock
    /\ UNCHANGED <<cvars, seen>>

\* The loaded state is the compare_exchange's expected value.
OpenLoad(t) ==
    /\ At(t, "op_load")
    /\ Goto(t, CASE state = "Open" -> "idle"
                 [] state = "Closed" -> "op_cas_closed"
                 [] state = "HalfOpen" -> "op_cas_halfopen")
    /\ lock' = IF state = "Open" THEN NotReading(t, "config") ELSE lock
    /\ UNCHANGED <<cvars, seen>>

OpenCas(t) ==
    /\ \/ At(t, "op_cas_closed") /\ state = "Closed"
       \/ At(t, "op_cas_halfopen") /\ state = "HalfOpen"
    /\ Goto(t, "op_opened")
    /\ state' = "Open"
    /\ UNCHANGED <<failureCount, successes, openedAt, windowOver, config, lock, seen>>

OpenCasFails(t) ==
    /\ \/ At(t, "op_cas_closed") /\ state # "Closed"
       \/ At(t, "op_cas_halfopen") /\ state # "HalfOpen"
    /\ Goto(t, "idle")
    /\ lock' = NotReading(t, "config")
    /\ UNCHANGED <<cvars, seen>>

OpenOpenedQueue(t) == QueueWrite(t, "op_opened", "openedAt", "op_opened_w")

OpenOpened(t) ==
    /\ At(t, "op_opened_w") /\ CanWrite("openedAt") /\ Goto(t, "op_successes")
    /\ openedAt' = "Running"
    /\ lock' = Unqueued(t, "openedAt")
    /\ UNCHANGED <<state, failureCount, successes, windowOver, config, seen>>

OpenSuccesses(t) ==
    /\ At(t, "op_successes") /\ Goto(t, "idle")
    /\ successes' = 0
    /\ lock' = NotReading(t, "config")
    /\ UNCHANGED <<state, failureCount, openedAt, windowOver, config, seen>>

-----------------------------------------------------------------------------
(* set_config and the clock                                                *)

ReloadQueue(t) == QueueWrite(t, "idle", "config", "reload_w")

\* New durations may also move an instant across its deadline, either way.
SetConfig(t) ==
    /\ At(t, "reload_w") /\ CanWrite("config") /\ Goto(t, "idle")
    /\ config' \in Configs
    /\ openedAt' \in IF openedAt = "None" THEN {"None"} ELSE {"Running", "Elapsed"}
    /\ windowOver' \in BOOLEAN
    /\ lock' = Unqueued(t, "config")
    /\ UNCHANGED <<state, failureCount, successes, seen>>

OpenDurationElapses ==
    /\ openedAt = "Running"
    /\ openedAt' = "Elapsed"
    /\ UNCHANGED <<state, failureCount, successes, windowOver, config, lock, pc, seen>>

FailureWindowElapses ==
    /\ ~windowOver
    /\ windowOver' = TRUE
    /\ UNCHANGED <<state, failureCount, successes, openedAt, config, lock, pc, seen>>

Step(t) ==
    \/ MtLoad(t) \/ MtReadOpened(t) \/ MtReadConfig(t)
    \/ HalfOpenCas(t) \/ HalfOpenStore(t) \/ AllowLoad(t)
    \/ Outcome(t)
    \/ SuccessLoad(t) \/ SuccessReset(t) \/ SuccessCount(t) \/ SuccessConfig(t)
    \/ CloseState(t) \/ CloseOpenedQueue(t) \/ CloseOpened(t) \/ CloseFailures(t)
    \/ CloseSuccesses(t) \/ CloseWindowQueue(t) \/ CloseWindow(t)
    \/ FailureLoad(t) \/ WindowQueue(t) \/ WindowLock(t) \/ WindowConfig(t)
    \/ WindowStore(t) \/ FailureCount(t) \/ FailureConfig(t)
    \/ OpenLoad(t) \/ OpenCas(t) \/ OpenCasFails(t) \/ OpenOpenedQueue(t) \/ OpenOpened(t) \/ OpenSuccesses(t)

Next ==
    \/ \E t \in Callers : BeginRequest(t) \/ Step(t)
    \/ \E t \in Reloaders : ReloadQueue(t) \/ SetConfig(t)
    \/ OpenDurationElapses
    \/ FailureWindowElapses

\* The scheduler runs every task, and a lock is handed to each of its waiters in turn.
Fairness ==
    /\ \A t \in Callers : SF_vars(Step(t))
    /\ \A t \in Reloaders : WF_vars(SetConfig(t))

Spec == Init /\ [][Next]_vars
FairSpec == Spec /\ Fairness

-----------------------------------------------------------------------------
Places ==
    {"idle", "mt_load", "mt_opened", "mt_config", "ho_cas", "ho_store", "ar_load",
     "allowed", "probing", "rs_load", "rs_reset", "rs_count", "rs_config",
     "cl_state", "cl_opened", "cl_opened_w", "cl_failures", "cl_successes",
     "cl_window", "cl_window_w", "rf_load", "rw_window", "rw_window_w", "rw_config",
     "rw_store", "rf_count", "rf_config", "op_load", "op_cas_closed",
     "op_cas_halfopen", "op_opened", "op_opened_w", "op_successes", "reload_w"}

\* Every variable has its type; the counters stay within their width.
TypeOK ==
    /\ state \in CircuitStates
    /\ failureCount \in 0..MaxCount
    /\ successes \in 0..MaxCount
    /\ openedAt \in {"None", "Running", "Elapsed"}
    /\ windowOver \in BOOLEAN
    /\ config \in Configs
    /\ lock \in [Locks -> [readers : SUBSET Tasks, queued : SUBSET Tasks,
                           writer : Tasks \cup {Nobody}]]
    /\ pc \in [Tasks -> Places]
    /\ seen \in [Tasks -> 0..MaxCount]

\* No caller is inside an operation of the breaker (a request may be upstream).
BetweenCalls == {"idle", "mt_load", "allowed", "probing", "rs_load", "rf_load"}
AtRest == \A t \in Callers : pc[t] \in BetweenCalls

\* A count that fills every configuration a reload may install.
Trips(n) == \A c \in Configs : n >= c.failureThreshold
Closes(n) == \A c \in Configs : n >= c.successThreshold

\* A task that will still open the circuit, or reset the failure count.
PendingTrip(t) ==
    \/ pc[t] = "rf_config" /\ Trips(seen[t])
    \/ pc[t] \in {"op_load", "op_cas_closed", "cl_opened", "cl_opened_w", "cl_failures"}

\* A task that will still close the circuit, or reset the success count.
PendingClose(t) ==
    \/ pc[t] = "rs_config" /\ Closes(seen[t])
    \/ pc[t] \in {"cl_state", "ho_store"}

\* Whenever the counters say the breaker should have moved, a record_failure,
\* record_success or close in progress is about to act on it, whatever the
\* interleaving of the loads, fetch_adds and compare_exchanges of the callers
\* and whatever configurations are installed meanwhile.
TripInv == state = "Closed" /\ Trips(failureCount) => \E t \in Callers : PendingTrip(t)

\* The same for successes in a half-open circuit (record_success, half_open).
CloseInv == state = "HalfOpen" /\ Closes(successes) => \E t \in Callers : PendingClose(t)

\* No lost trip: once every record_failure has returned, a closed circuit has seen
\* fewer failures in its window than some failure_threshold a reload may install
\* (the failure_threshold, where there is one configuration); racing callers and
\* reloads never leave it closed on a full count (record_failure, open, close).
NoLostTrip == AtRest /\ state = "Closed" => ~Trips(failureCount)

\* No lost close: once every record_success has returned, a half-open circuit has
\* fewer successes than some success_threshold a reload may install; no interleaving
\* of record_success, half_open, open and set_config leaves it half-open with enough.
NoLostClose == AtRest /\ state = "HalfOpen" => ~Closes(successes)

\* A caller in close() or open() holds config and queues for opened_at (or
\* window_start), another holds that lock in maybe_transition (or maybe_reset_window)
\* and asks for config, and a reload is queued on config between the two.
LockCycle ==
    /\ lock["config"].queued # {}
    /\ \E a \in lock["config"].readers, b \in Callers :
          \/ pc[a] \in {"cl_opened_w", "op_opened_w"} /\ pc[b] = "mt_config"
          \/ pc[a] = "cl_window_w" /\ pc[b] = "rw_config"

\* Every call of allow_request, record_success, record_failure and set_config
\* returns: nested acquisitions of the three locks under queued writers leave a call
\* waiting for ever in no other way than the two cycles of LockCycle, and without a
\* queued reload never.
CallsReturn == \A t \in Tasks : []<>(pc[t] \in BetweenCalls \/ LockCycle)

\* A hot-reload's set_config gets the config lock and returns.
ReloadReturns == \A t \in Reloaders : pc[t] = "reload_w" ~> pc[t] = "idle"
=============================================================================
