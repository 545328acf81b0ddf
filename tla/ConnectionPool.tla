--------------------------- MODULE ConnectionPool ---------------------------
(***************************************************************************)
(* The per-upstream connection pool of connection_pool.rs: a semaphore of  *)
(* max_connections permits and a queue of requests that found none, each   *)
(* with a oneshot channel a departing connection may signal.               *)
(*                                                                         *)
(* acquire() is split where another task can act: after its first          *)
(* try_acquire, at the wait, and between the permit and the active count.  *)
(* Dropping a PooledConnection is three steps, in the order Rust runs      *)
(* them: the body of drop() decrements active and wakes a waiter, and only *)
(* then is the permit field itself dropped.  Of the statistics only active *)
(* is kept; the others are counted and never read back by the pool.        *)
(***************************************************************************)
EXTENDS Naturals, Sequences, FiniteSets

CONSTANTS
    Clients,         \* requests that share the pool
    MaxConnections,  \* max_connections
    MaxQueue         \* max_queue_size

ASSUME PoolAssumption ==
    /\ IsFiniteSet(Clients)
    /\ MaxConnections \in Nat
    /\ MaxQueue \in Nat

VARIABLES
    free,    \* permits in the semaphore
    queue,   \* the waiting requests, and whether their receiver still exists
    active,  \* stats.active
    pc,      \* where each request is
    signal,  \* what each waiter's oneshot receiver would return
    late     \* the waiter's queue_timeout has passed

vars == <<free, queue, active, pc, signal, late>>

Errors == {"Timeout", "QueueFull", "Shutdown"}
Holding == {"permit", "holding", "dropping", "woke"}
Places == {"idle", "exhausted", "waiting"} \cup Errors \cup Holding
Entries == [who : Clients, live : BOOLEAN]

Init ==
    /\ free = MaxConnections
    /\ queue = << >>
    /\ active = 0
    /\ pc = [c \in Clients |-> "idle"]
    /\ signal = [c \in Clients |-> "none"]
    /\ late = [c \in Clients |-> FALSE]

At(c, p) == pc[c] = p
Goto(c, p) == pc' = [pc EXCEPT ![c] = p]
Live(c) == [who |-> c, live |-> TRUE]

\* The receiver is dropped: its entry, if still queued, can no longer be signalled.
Abandoned(c) ==
    [i \in 1 .. Len(queue) |->
        IF queue[i] = Live(c) THEN [who |-> c, live |-> FALSE] ELSE queue[i]]
LeaveWait(c) ==
    /\ signal' = [signal EXCEPT ![c] = "none"]
    /\ late' = [late EXCEPT ![c] = FALSE]

-----------------------------------------------------------------------------
(* acquire                                                                 *)

\* Mutation of TryAcquire: the permit is looked at and not taken.
TryAcquirePeeks(c) ==
    /\ At(c, "idle")
    /\ Goto(c, IF free > 0 THEN "permit" ELSE "exhausted")
    /\ UNCHANGED <<free, queue, active, signal, late>>

TryAcquire(c) ==
    /\ At(c, "idle")
    /\ IF free > 0
       THEN free' = free - 1 /\ Goto(c, "permit")
       ELSE UNCHANGED free /\ Goto(c, "exhausted")
    /\ UNCHANGED <<queue, active, signal, late>>

CountActive(c) ==
    /\ At(c, "permit") /\ Goto(c, "holding")
    /\ active' = active + 1
    /\ UNCHANGED <<free, queue, signal, late>>

\* Entries of requests that timed out still count towards max_queue_size.
RejectFull(c) ==
    /\ At(c, "exhausted") /\ Len(queue) >= MaxQueue
    /\ Goto(c, "QueueFull")
    /\ UNCHANGED <<free, queue, active, signal, late>>

Enqueue(c) ==
    /\ At(c, "exhausted") /\ Len(queue) < MaxQueue
    /\ Goto(c, "waiting")
    /\ queue' = Append(queue, Live(c))
    /\ UNCHANGED <<free, active, signal, late>>

\* Signalled: one more try_acquire, and Timeout when it fails.
Retry(c) ==
    /\ At(c, "waiting") /\ signal[c] = "sent"
    /\ IF free > 0
       THEN free' = free - 1 /\ Goto(c, "permit")
       ELSE UNCHANGED free /\ Goto(c, "Timeout")
    /\ LeaveWait(c)
    /\ UNCHANGED <<queue, active>>

\* The sender was dropped unused: reported as a shutdown.
SenderGone(c) ==
    /\ At(c, "waiting") /\ signal[c] = "closed" /\ Goto(c, "Shutdown")
    /\ LeaveWait(c)
    /\ UNCHANGED <<free, queue, active>>

DeadlinePasses(c) ==
    /\ At(c, "waiting") /\ ~late[c]
    /\ late' = [late EXCEPT ![c] = TRUE]
    /\ UNCHANGED <<free, queue, active, pc, signal>>

\* The timer fires; a result already in the channel is preferred to it.
TimesOut(c) ==
    /\ At(c, "waiting") /\ late[c] /\ signal[c] = "none" /\ Goto(c, "Timeout")
    /\ queue' = Abandoned(c)
    /\ LeaveWait(c)
    /\ UNCHANGED <<free, active>>

\* The request's future is dropped at its only await, signalled or not.
Cancel(c) ==
    /\ At(c, "waiting") /\ Goto(c, "idle")
    /\ queue' = Abandoned(c)
    /\ LeaveWait(c)
    /\ UNCHANGED <<free, active>>

Return(c) ==
    /\ pc[c] \in Errors /\ Goto(c, "idle")
    /\ UNCHANGED <<free, queue, active, signal, late>>

-----------------------------------------------------------------------------
(* Drop of a PooledConnection                                              *)

DropCount(c) ==
    /\ At(c, "holding") /\ Goto(c, "dropping")
    /\ active' = active - 1
    /\ UNCHANGED <<free, queue, signal, late>>

\* wake_next_waiter pops entries up to the first whose waiter is neither gone nor
\* late, or all of them when there is none.
Signallable(i) == queue[i].live /\ ~late[queue[i].who]
LastPopped(n) ==
    /\ \A i \in 1 .. n - 1 : ~Signallable(i)
    /\ n = Len(queue) \/ (n > 0 /\ Signallable(n))

\* Mutation of WakeNextWaiter: the entry after the signalled one is discarded too.
WakeNextWaiterSkips(c) ==
    /\ At(c, "dropping") /\ Goto(c, "woke")
    /\ \E n \in 0 .. Len(queue) :
          /\ LastPopped(n)
          /\ queue' = SubSeq(queue, n + 2, Len(queue))
          /\ signal' = [w \in Clients |-> IF n > 0 /\ queue[n] = Live(w) THEN "sent" ELSE signal[w]]
    /\ UNCHANGED <<free, active, late>>

\* The last one popped is signalled; a late one's receiver finds its channel closed.
WakeNextWaiter(c) ==
    /\ At(c, "dropping") /\ Goto(c, "woke")
    /\ \E n \in 0 .. Len(queue) :
          /\ LastPopped(n)
          /\ queue' = SubSeq(queue, n + 1, Len(queue))
          /\ signal' = [w \in Clients |->
                          IF \E i \in 1 .. n : queue[i] = Live(w)
                          THEN IF late[w] THEN "closed" ELSE "sent"
                          ELSE signal[w]]
    /\ UNCHANGED <<free, active, late>>

DropPermit(c) ==
    /\ At(c, "woke") /\ Goto(c, "idle")
    /\ free' = free + 1
    /\ UNCHANGED <<queue, active, signal, late>>

Next ==
    \E c \in Clients :
        \/ TryAcquire(c) \/ CountActive(c)
        \/ RejectFull(c) \/ Enqueue(c) \/ Retry(c) \/ SenderGone(c)
        \/ DeadlinePasses(c) \/ TimesOut(c) \/ Cancel(c) \/ Return(c)
        \/ DropCount(c) \/ WakeNextWaiter(c) \/ DropPermit(c)

Spec == Init /\ [][Next]_vars

-----------------------------------------------------------------------------
Holders == {c \in Clients : pc[c] \in Holding}
Counted == {c \in Clients : pc[c] = "holding"}

\* Every variable has its type; the queue holds at most max_queue_size entries.
TypeOK ==
    /\ free \in 0 .. MaxConnections
    /\ queue \in Seq(Entries)
    /\ Len(queue) <= MaxQueue
    /\ active \in Nat
    /\ pc \in [Clients -> Places]
    /\ signal \in [Clients -> {"none", "sent", "closed"}]
    /\ late \in [Clients -> BOOLEAN]

\* No permit is ever lost or made up: on every path of acquire and of the guard's
\* drop, time-outs and cancellations included, the permits held and the permits
\* free are max_connections together.
PermitsConserved == Cardinality(Holders) + free = MaxConnections

\* active is exactly the connections in use, so it never exceeds max_connections
\* and never wraps below zero.
ActiveIsHeld == active = Cardinality(Counted)

\* A request that waits without a signal has exactly one live entry in the queue,
\* and no other request has one: wake_next_waiter neither forgets a waiter it has
\* passed over nor signals one that is no longer there.
NoForgottenWaiter ==
    \A c \in Clients :
        LET mine == {i \in DOMAIN queue : queue[i] = Live(c)} IN
        IF pc[c] = "waiting" /\ signal[c] = "none" THEN Cardinality(mine) = 1 ELSE mine = {}
=============================================================================
