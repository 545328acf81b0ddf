----------------------------- MODULE Replication -----------------------------
(***************************************************************************)
(* Peer-to-peer replication of the caches: cdc/ publishes every change of  *)
(* a node's cache on a broadcast channel, peer/ subscribes to the channels *)
(* of the configured peers and applies their events, and a node that joins *)
(* asks its peers for a snapshot before it reports ready.                  *)
(*                                                                         *)
(* A change is two steps of the task that makes it: the entry is stored    *)
(* under the time of the store, and then the event is published under the  *)
(* time of the publication.  Applying a peer's event is such a change too: *)
(* deduplicate decides, and then cache.insert, remove or clear runs like a *)
(* client's and publishes again, under the receiver's own node id.         *)
(*                                                                         *)
(* All nodes read one clock, the best case for last-write-wins.  A value   *)
(* is the number of the client operation that wrote it.  The broadcast     *)
(* buffer and the gRPC stream behind it are one queue per subscription,    *)
(* whose oldest event is lost when it overflows (RecvError::Lagged).       *)
(* A node may stop and start again at any moment, with the entries that    *)
(* its disk kept; its streams, both ways, break with it.                   *)
(***************************************************************************)
EXTENDS Naturals, Sequences, FiniteSets

CONSTANTS
    Nodes, Keys, Writers,
    Configs,       \* who subscribes to whom, where the clients are, and their load
    Buffer,        \* events a subscription holds
    Ttl,           \* fresh_duration + stale_duration, the life of a snapshot's events
    ReadyPercent,  \* ready_threshold, in percent
    MaxOps,        \* bound on the load: client operations, evictions and restarts
    MaxClock       \* bound on the clock

ConfigType ==
    [peers : [Nodes -> SUBSET Nodes], home : [Writers -> Nodes], snapshot : BOOLEAN,
     load : 0 .. MaxOps]

ASSUME ReplicationAssumption ==
    /\ IsFiniteSet(Nodes) /\ IsFiniteSet(Keys)
    /\ Configs \subseteq ConfigType
    /\ Buffer \in Nat \ {0}
    /\ Ttl \in Nat /\ ReadyPercent \in Nat /\ MaxOps \in Nat /\ MaxClock \in Nat \ {0}

VARIABLES
    config,  \* the configuration in use
    now,     \* now_ms() on every node
    ops,     \* operations the clients have made, with evictions and restarts
    cache,   \* each node's entries, with their cached_at_wall
    task,    \* what each writer, receiver and snapshot task is doing
    chan,    \* the subscription of each receiver
    state,   \* PeerState
    snap,    \* each node's snapshot request
    missed,  \* history: <<subscription, key>> that differ for something no event told
    overlaps \* history: <<node, key>> changed while another change was unpublished

vars == <<config, now, ops, cache, task, chan, state, snap, missed, overlaps>>

Absent == [val |-> 0, wall |-> 0]
NoEvent == [kind |-> "none"]

\* A receiver of node n for peer p, a client of the node, the snapshot task of n.
Receivers == {"recv"} \X Nodes \X Nodes
Clients == {"client"} \X Writers
Joiners == {"snap"} \X Nodes
Tasks == Receivers \cup Clients \cup Joiners

NodeOf(t) == IF t[1] = "client" THEN config.home[t[2]] ELSE t[2]
Subscribed == {t \in Receivers : t[3] \in config.peers[t[2]]}

Idle == [pc |-> "idle", ev |-> NoEvent]
NoSnapshot == [pc |-> "done", left |-> {}, peer |-> {}, items |-> {}, ts |-> 0]

\* PeerManager::new, and start: whom a node that comes up has to ask first.
StartState(n) == IF config.peers[n] = {} \/ ~config.snapshot THEN "Ready" ELSE "Warming"
StartSnap(n) ==
    IF config.peers[n] = {} \/ ~config.snapshot THEN NoSnapshot
    ELSE [NoSnapshot EXCEPT !.pc = "ask", !.left = config.peers[n]]

Init ==
    /\ config \in Configs
    /\ now = 1
    /\ ops = 0
    /\ cache = [n \in Nodes |-> [k \in Keys |-> Absent]]
    /\ task = [t \in Tasks |-> Idle]
    /\ chan = [t \in Receivers |-> [open |-> FALSE, queue |-> << >>]]
    /\ state = [n \in Nodes |-> StartState(n)]
    /\ snap = [n \in Nodes |-> StartSnap(n)]
    /\ missed = {} /\ overlaps = {}

Insert(k, v) == [kind |-> "insert", key |-> k, val |-> v]
Remove(k) == [kind |-> "remove", key |-> k]
Clear == [kind |-> "clear"]
Concerns(ev, k) == ev.kind = "clear" \/ ev.key = k

-----------------------------------------------------------------------------
(* A change of a cache, by whatever task                                   *)

\* The entries of node n after ev: an insert is stamped with the time of the store.
Stored(n, ev) ==
    [k \in Keys |->
        IF ev.kind = "clear" THEN Absent
        ELSE IF ev.key # k THEN cache[n][k]
        ELSE IF ev.kind = "insert" THEN [val |-> ev.val, wall |-> now] ELSE Absent]

\* A task of node n has changed k and not yet told anybody.
Holds(s, n, k) == NodeOf(s) = n /\ task[s].pc = "stored" /\ Concerns(task[s].ev, k)
Unpublished(n, k) == \E s \in Tasks : Holds(s, n, k)

\* The change starts a key's history afresh, unless it meets an unpublished one.
Store(t, ev) ==
    LET n == NodeOf(t) IN
    /\ cache' = [cache EXCEPT ![n] = Stored(n, ev)]
    /\ task' = [task EXCEPT ![t] = [pc |-> "stored", ev |-> ev]]
    /\ overlaps' = {x \in Nodes \X Keys :
                      IF x[1] = n /\ Concerns(ev, x[2]) THEN Unpublished(n, x[2]) ELSE x \in overlaps}

\* The event as it goes out, with the time of the publication and the node's own id.
Stamped(n, ev) ==
    [kind |-> ev.kind, key |-> IF ev.kind = "clear" THEN "" ELSE ev.key,
     val |-> IF ev.kind = "insert" THEN ev.val ELSE 0, origin |-> n, ts |-> now, exp |-> 0]

\* Mutation of Pushed: the queue grows without bound.
PushedAll(q, ev) == Append(q, ev)

\* A queue with one more event; a full one loses its oldest.
Pushed(q, ev) == Append(IF Len(q) < Buffer THEN q ELSE Tail(q), ev)

\* The queue of s is full, and the event it drops for the next one is about k.
Lags(s, k) ==
    chan[s].open /\ Len(chan[s].queue) >= Buffer /\ Concerns(Head(chan[s].queue), k)

\* EventSender::send: whoever is not subscribed at this moment misses the event, and
\* whoever is hears the last word on its keys.
Publish(t) ==
    LET n == NodeOf(t) ev == task[t].ev IN
    /\ task[t].pc = "stored"
    /\ chan' = [s \in Receivers |->
                  IF s[3] = n /\ chan[s].open
                  THEN [chan[s] EXCEPT !.queue = Pushed(@, Stamped(n, ev))]
                  ELSE chan[s]]
    /\ missed' = {x \in Receivers \X Keys :
                    IF x[1][3] # n THEN x \in missed
                    ELSE IF Concerns(ev, x[2]) THEN ~chan[x[1]].open
                    ELSE x \in missed \/ Lags(x[1], x[2])}
    /\ task' = [task EXCEPT ![t] = Idle]
    /\ UNCHANGED <<config, now, ops, cache, state, snap, overlaps>>

\* A client's query result is inserted, or an entry or the whole cache invalidated.
ClientOp(t, ev) ==
    /\ task[t] = Idle /\ ops < config.load
    /\ ops' = ops + 1
    /\ Store(t, ev)
    /\ UNCHANGED <<config, now, chan, state, snap, missed>>

EndsAt(n) == {s \in Receivers : n \in {s[2], s[3]}}

\* S3-FIFO makes room, or the entry expires; nobody is told.  (An eviction by upstream
\* publishes a removal, and is a ClientOp.)
Evict(n, k) ==
    /\ cache[n][k] # Absent /\ ops < config.load
    /\ ops' = ops + 1
    /\ cache' = [cache EXCEPT ![n][k] = Absent]
    /\ missed' = missed \cup (EndsAt(n) \X {k})
    /\ overlaps' = IF Unpublished(n, k) THEN overlaps \cup {<<n, k>>} ELSE overlaps
    /\ UNCHANGED <<config, now, task, chan, state, snap>>

\* The process of node n ends and is started again: with the entries its disk kept,
\* which it tells nobody of, and with the snapshot to ask for again.
Restart(n, kept) ==
    /\ ops < config.load
    /\ ops' = ops + 1
    /\ cache' = [cache EXCEPT ![n] = [k \in Keys |-> IF k \in kept THEN cache[n][k] ELSE Absent]]
    /\ task' = [t \in Tasks |-> IF NodeOf(t) = n THEN Idle ELSE task[t]]
    /\ chan' = [s \in Receivers |->
                  IF s \in EndsAt(n) THEN [open |-> FALSE, queue |-> << >>] ELSE chan[s]]
    /\ state' = [state EXCEPT ![n] = StartState(n)]
    /\ snap' = [snap EXCEPT ![n] = StartSnap(n)]
    /\ missed' = missed \cup (EndsAt(n) \X Keys)
    /\ UNCHANGED <<config, now, overlaps>>

Tick ==
    /\ now < MaxClock
    /\ now' = now + 1
    /\ UNCHANGED <<config, ops, cache, task, chan, state, snap, missed, overlaps>>

-----------------------------------------------------------------------------
(* The receiver of one peer's stream                                       *)

\* A new subscription starts with the next event: nothing is replayed.
Connect(t) ==
    /\ t \in Subscribed /\ ~chan[t].open
    /\ chan' = [chan EXCEPT ![t] = [open |-> TRUE, queue |-> << >>]]
    /\ UNCHANGED <<config, now, ops, cache, task, state, snap, missed, overlaps>>

\* The stream ends or fails; what it still held is lost.
Disconnect(t) ==
    /\ chan[t].open /\ task[t] = Idle
    /\ chan' = [chan EXCEPT ![t] = [open |-> FALSE, queue |-> << >>]]
    /\ missed' = missed \cup {<<t, k>> : k \in {x \in Keys :
                    \E i \in 1 .. Len(chan[t].queue) : Concerns(chan[t].queue[i], x)}}
    /\ UNCHANGED <<config, now, ops, cache, task, state, snap, overlaps>>

\* Mutation of Deduplicate: only inserts are replicated.
DeduplicateInserts(n, ev) ==
    IF ev.origin = n \/ ev.kind # "insert" THEN "Echo"
    ELSE IF cache[n][ev.key] # Absent /\ cache[n][ev.key].wall >= ev.ts
         THEN "Stale" ELSE "Apply"

\* Mutation of Deduplicate: the first write wins.
DeduplicateFirst(n, ev) ==
    IF ev.origin = n THEN "Echo"
    ELSE IF ev.kind = "insert" /\ cache[n][ev.key] # Absent THEN "Stale" ELSE "Apply"

\* deduplicate, on the cache as it is when the event is looked at.
Deduplicate(n, ev) ==
    IF ev.origin = n THEN "Echo"
    ELSE IF ev.exp > 0 /\ ev.exp <= now THEN "Expired"
    ELSE IF /\ ev.kind = "insert" /\ cache[n][ev.key] # Absent
            /\ cache[n][ev.key].wall >= ev.ts
         THEN "Stale" ELSE "Apply"

\* A task whose event was judged to apply, or which is done with it.
Judged(n, ev) == IF Deduplicate(n, ev) = "Apply" THEN [pc |-> "judged", ev |-> ev] ELSE Idle

Receive(t) ==
    LET ev == Head(chan[t].queue) IN
    /\ task[t] = Idle /\ chan[t].queue # << >>
    /\ chan' = [chan EXCEPT ![t].queue = Tail(@)]
    /\ task' = [task EXCEPT ![t] = Judged(t[2], ev)]
    /\ UNCHANGED <<config, now, ops, cache, state, snap, missed, overlaps>>

\* apply_event, for a stream or a snapshot: the cache may have changed since.
Apply(t) ==
    /\ task[t].pc = "judged"
    /\ Store(t, task[t].ev)
    /\ UNCHANGED <<config, now, ops, chan, state, snap, missed>>

-----------------------------------------------------------------------------
(* The snapshot on join                                                    *)

\* The next peer is asked; it lists its entries ...
SnapshotList(n) ==
    /\ snap[n].pc = "ask"
    /\ \E p \in snap[n].left :
          snap' = [snap EXCEPT ![n] =
                     [pc |-> "listed", left |-> @.left \ {p}, peer |-> {p}, ts |-> 0,
                      items |-> {<<k, cache[p][k].val>> : k \in {x \in Keys : cache[p][x] # Absent}}]]
    /\ UNCHANGED <<config, now, ops, cache, task, chan, state, missed, overlaps>>

\* ... and only then reads the clock that all of its events are stamped with.
SnapshotStamp(n) ==
    /\ snap[n].pc = "listed"
    /\ snap' = [snap EXCEPT ![n].pc = "stream", ![n].ts = now]
    /\ UNCHANGED <<config, now, ops, cache, task, chan, state, missed, overlaps>>

\* One entry arrives, in the order of the source's hash map.
SnapshotReceive(n) ==
    LET t == <<"snap", n>> IN
    /\ snap[n].pc = "stream" /\ task[t] = Idle
    /\ \E i \in snap[n].items, p \in snap[n].peer :
          /\ snap' = [snap EXCEPT ![n].items = @ \ {i}]
          /\ task' = [task EXCEPT ![t] =
                        Judged(n, [kind |-> "insert", key |-> i[1], val |-> i[2], origin |-> p,
                                   ts |-> snap[n].ts, exp |-> snap[n].ts + Ttl])]
    /\ UNCHANGED <<config, now, ops, cache, chan, state, missed, overlaps>>

Entries(n) == Cardinality({k \in Keys : cache[n][k] # Absent})

\* check_parity once the stream has ended: ready, or on to the next peer.
SnapshotParity(n) ==
    /\ snap[n].pc = "stream" /\ snap[n].items = {} /\ task[<<"snap", n>>] = Idle
    /\ \E p \in snap[n].peer :
          IF Entries(n) * 100 >= ReadyPercent * Entries(p)
          THEN /\ state' = [state EXCEPT ![n] = "Ready"]
               /\ snap' = [snap EXCEPT ![n] = NoSnapshot]
          ELSE /\ snap' = [snap EXCEPT ![n] = [NoSnapshot EXCEPT !.pc = "ask", !.left = snap[n].left]]
               /\ UNCHANGED state
    /\ UNCHANGED <<config, now, ops, cache, task, chan, missed, overlaps>>

\* The request, the stream or the parity check fails: on to the next peer.
SnapshotFail(n) ==
    /\ snap[n].pc \in {"listed", "stream"} /\ task[<<"snap", n>>] = Idle
    /\ snap' = [snap EXCEPT ![n] = [NoSnapshot EXCEPT !.pc = "ask", !.left = snap[n].left]]
    /\ UNCHANGED <<config, now, ops, cache, task, chan, state, missed, overlaps>>

\* Mutation of SnapshotGiveUp: the node stays in Warming.
SnapshotGiveUpWarm(n) ==
    /\ snap[n].pc = "ask" /\ snap[n].left = {}
    /\ snap' = [snap EXCEPT ![n] = NoSnapshot]
    /\ UNCHANGED <<config, now, ops, cache, task, chan, state, missed, overlaps>>

\* No peer is left to ask: ready with whatever there is.
SnapshotGiveUp(n) ==
    /\ snap[n].pc = "ask" /\ snap[n].left = {}
    /\ snap' = [snap EXCEPT ![n] = NoSnapshot]
    /\ state' = [state EXCEPT ![n] = "Ready"]
    /\ UNCHANGED <<config, now, ops, cache, task, chan, missed, overlaps>>

-----------------------------------------------------------------------------
Local(t) ==
    \E ev \in {Insert(k, ops + 1) : k \in Keys} \cup {Remove(k) : k \in Keys} \cup {Clear} :
        ClientOp(t, ev)
Move(t) == Publish(t) \/ Apply(t)
Stream(t) == Connect(t) \/ Receive(t)
Snapshot(n) ==
    \/ SnapshotList(n) \/ SnapshotStamp(n) \/ SnapshotReceive(n)
    \/ SnapshotParity(n) \/ SnapshotGiveUp(n)

Next ==
    \/ \E t \in Clients : Local(t)
    \/ \E t \in Tasks : Move(t)
    \/ \E t \in Receivers : Stream(t) \/ Disconnect(t)
    \/ \E n \in Nodes : Snapshot(n) \/ SnapshotFail(n)
    \/ \E n \in Nodes, k \in Keys : Evict(n, k)
    \/ \E n \in Nodes, kept \in SUBSET Keys : Restart(n, kept)
    \/ Tick

Spec == Init /\ [][Next]_vars

\* What the node's own runtime brings about: what is stored is published, what has
\* been sent is received and applied, and the snapshot task asks the next peer or gives
\* up.  Nothing is assumed of a peer: its answer, its snapshot and the parity check may
\* never come (request_snapshot waits for the next message without a time limit), and
\* no connection need ever be made.
FairSpec ==
    /\ Spec
    /\ \A t \in Tasks : WF_vars(Move(t))
    /\ \A t \in Receivers : WF_vars(Receive(t))
    /\ \A n \in Nodes : WF_vars(SnapshotList(n) \/ SnapshotGiveUp(n))

-----------------------------------------------------------------------------
\* Every variable has its type.
TypeOK ==
    /\ config \in Configs
    /\ now \in 1 .. MaxClock /\ ops \in 0 .. MaxOps
    /\ cache \in [Nodes -> [Keys -> [val : 0 .. MaxOps, wall : 0 .. MaxClock]]]
    /\ \A t \in Tasks : task[t].pc \in {"idle", "judged", "stored"}
    /\ \A t \in Receivers : Len(chan[t].queue) <= Buffer
    /\ state \in [Nodes -> {"Warming", "Ready"}]
    /\ \A n \in Nodes : snap[n].pc \in {"ask", "listed", "stream", "done"}
    /\ missed \subseteq Receivers \X Keys /\ overlaps \subseteq Nodes \X Keys

\* A node that only follows one other: its entries all come from that stream.
Follows(n, p) ==
    /\ config.peers[n] = {p} /\ ~config.snapshot
    /\ \A w \in Writers : config.home[w] # n

Quiet(n, p) ==
    /\ chan[<<"recv", n, p>>].open /\ chan[<<"recv", n, p>>].queue = << >>
    /\ \A t \in Tasks : NodeOf(t) \in {n, p} => task[t] = Idle

\* The last word of p on k reached n or is on its way to it: nothing of k was lost, and
\* neither end has evicted k or was restarted, since p last published a change of it;
\* and that change met no other on p.
ToldOf(n, p, k) == <<<<"recv", n, p>>, k>> \notin missed /\ <<p, k>> \notin overlaps

\* A follower that has received everything holds exactly those keys of the node it
\* follows that it was told of.  Whatever was lost, evicted or restarted before, one
\* undisturbed change of a key brings the two ends together again.
FollowerKeysAgree ==
    \A n, p \in Nodes, k \in Keys :
        Follows(n, p) /\ Quiet(n, p) /\ ToldOf(n, p, k)
        => (cache[n][k] = Absent <=> cache[p][k] = Absent)

\* Last-write-wins as far as it goes: such a follower also holds the source's latest
\* value, unless its older copy arrived no sooner than the newer write was made.  An
\* entry is stamped with its arrival, so that the newer event then counts as stale.
FollowerCatchesUp ==
    \A n, p \in Nodes, k \in Keys :
        Follows(n, p) /\ Quiet(n, p) /\ ToldOf(n, p, k)
        => \/ cache[n][k].val = cache[p][k].val
           \/ cache[n][k].wall >= cache[p][k].wall

\* A node that comes up becomes ready, however many of its peers fail it and whatever
\* they send: unless one of them keeps it waiting for ever, for the next message of the
\* snapshot or for the parity check.
BecomesReady ==
    \A n \in Nodes :
        \/ []<>(state[n] = "Ready")
        \/ <>[](snap[n].pc \in {"listed", "stream"} /\ task[<<"snap", n>>] = Idle)

\* Echo-loop prevention, which the origin of an event is there for: once the clients
\* are done, the events die out.
EventsDieOut == <>[](\A t \in Receivers : chan[t].queue = << >> /\ task[t] = Idle)
=============================================================================
