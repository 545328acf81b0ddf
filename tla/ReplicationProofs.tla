-------------------------- MODULE ReplicationProofs --------------------------
(***************************************************************************)
(* What Replication satisfies for every set of nodes, keys and clients and *)
(* every wiring of the peers: the types, and that a follower which has     *)
(* received everything agrees with its source on every key whose last news *)
(* reached it, through lost connections, evictions and restarts.           *)
(*                                                                         *)
(* The argument follows each key through the pipeline from the source to   *)
(* the follower.  What is on its way is, newest first, the change the      *)
(* source has stored and not yet published, the events in the queue, and   *)
(* the event the receiver has judged and not yet applied.  The newest of   *)
(* these that concerns the key agrees with the source's entry; with none   *)
(* on its way the two entries agree themselves.  A loss, an eviction or a  *)
(* restart suspends this for the key, and the next event on it that enters *)
(* the queue restores it, whatever the follower holds by then.             *)
(***************************************************************************)
EXTENDS Replication, SequenceTheorems, TLAPS

-----------------------------------------------------------------------------
(* Types                                                                   *)

Slot == {Absent} \cup [val : 1 .. MaxOps, wall : 1 .. MaxClock]

\* What a task stores: an event of a client, a stream or a snapshot.
IsChange(ev) ==
    /\ ev.kind \in {"insert", "remove", "clear"}
    /\ ev.kind # "clear" => ev.key \in Keys
    /\ ev.kind = "insert" => ev.val \in 1 .. MaxOps

Event ==
    [kind : {"insert", "remove", "clear"}, key : Keys \cup {""}, val : 0 .. MaxOps,
     origin : Nodes, ts : 1 .. MaxClock, exp : {0}]

StateType ==
    /\ config \in Configs
    /\ now \in 1 .. MaxClock /\ ops \in 0 .. MaxOps
    /\ cache \in [Nodes -> [Keys -> Slot]]
    /\ state \in [Nodes -> {"Warming", "Ready"}]
    /\ missed \subseteq Receivers \X Keys /\ overlaps \subseteq Nodes \X Keys

TaskType ==
    /\ task = [t \in Tasks |-> task[t]]
    /\ \A t \in Tasks :
          \/ task[t] = Idle
          \/ task[t].pc \in {"judged", "stored"} /\ IsChange(task[t].ev)

ChanType ==
    /\ chan \in [Receivers -> [open : BOOLEAN, queue : Seq(Event)]]
    /\ \A t \in Receivers : Len(chan[t].queue) <= Buffer
    /\ \A t \in Receivers : \A i \in 1 .. Len(chan[t].queue) :
          IsChange(chan[t].queue[i]) /\ chan[t].queue[i].origin = t[3]

SnapType ==
    snap \in [Nodes -> [pc : {"ask", "listed", "stream", "done"},
                        left : SUBSET Nodes, peer : SUBSET Nodes,
                        items : SUBSET (Keys \X (1 .. MaxOps)), ts : 0 .. MaxClock]]

\* Only a configured subscription is ever open or at work, a closed one holds
\* nothing, and without snapshots nobody asks for one.
Wired ==
    /\ \A t \in Receivers : chan[t].open \/ task[t] # Idle => t \in Subscribed
    /\ \A t \in Receivers : ~chan[t].open => chan[t].queue = << >>
    /\ ~config.snapshot => \A n \in Nodes : snap[n].pc = "done" /\ task[<<"snap", n>>] = Idle

\* No entry was stored in the future.
Past == \A n \in Nodes, k \in Keys : cache[n][k].wall <= now

Sound == StateType /\ TaskType /\ ChanType /\ SnapType /\ Wired /\ Past

-----------------------------------------------------------------------------
(* The pipeline                                                            *)

\* An entry of the source is what ev made it.
Made(source, ev) ==
    IF ev.kind = "insert" THEN source # Absent /\ source.val = ev.val ELSE source = Absent

\* Two entries agree, as far as last-write-wins by time of arrival can say.
Agree(copy, source) ==
    /\ copy = Absent <=> source = Absent
    /\ copy.val = source.val \/ copy.wall >= source.wall

\* What the follower's end of the pipeline will make of its copy: q has yet to be
\* received, and held is what the receiver is doing.
Waits(q, k) == \E i \in 1 .. Len(q) : Concerns(q[i], k)
LastFor(q, i, k) == Concerns(q[i], k) /\ \A j \in i + 1 .. Len(q) : ~Concerns(q[j], k)
Arrives(q, held, copy, source, k) ==
    /\ \A i \in 1 .. Len(q) : LastFor(q, i, k) =>
          Made(source, q[i]) /\ (q[i].kind = "insert" => q[i].ts >= source.wall)
    /\ ~Waits(q, k) => IF held.pc = "judged" /\ Concerns(held.ev, k) THEN Made(source, held.ev)
                                                                     ELSE Agree(copy, source)

\* Changes of k that did not meet another are unpublished only while they stand.
MadeInv(p, k) ==
    <<p, k>> \notin overlaps =>
        \A s \in Tasks : Holds(s, p, k) => Made(cache[p][k], task[s].ev)

Pipeline(n, p, k) ==
    LET t == <<"recv", n, p>> IN
    ~Unpublished(p, k) => Arrives(chan[t].queue, task[t], cache[n][k], cache[p][k], k)

\* A follower and a key of whose last change it was told, or will be.
InStep(n, p, k) == n # p /\ Follows(n, p) /\ ToldOf(n, p, k)

FollowInv ==
    /\ \A p \in Nodes, k \in Keys : MadeInv(p, k)
    /\ \A n, p \in Nodes, k \in Keys : InStep(n, p, k) => Pipeline(n, p, k)

-----------------------------------------------------------------------------
(* Tasks, entries and events                                               *)

LEMMA TaskParts ==
    ASSUME config \in Configs
    PROVE  /\ \A t \in Tasks : NodeOf(t) \in Nodes
           /\ \A t \in Receivers : /\ t \in Tasks /\ t[2] \in Nodes /\ t[3] \in Nodes
                                   /\ t = <<"recv", t[2], t[3]>> /\ NodeOf(t) = t[2]
                                   /\ t \notin Clients /\ t \notin Joiners
           /\ \A t \in Clients : t \in Tasks /\ t \notin Receivers /\ t \notin Joiners
           /\ \A n \in Nodes : <<"snap", n>> \in Tasks /\ <<"snap", n>> \notin Receivers
           /\ \A n \in Nodes, p \in Nodes : <<"recv", n, p>> \in Receivers
<1>1. config.home \in [Writers -> Nodes]
  BY ReplicationAssumption DEF ConfigType
<1>2. \A t \in Receivers : t[1] = "recv" /\ t[2] \in Nodes /\ t[3] \in Nodes /\ t = <<"recv", t[2], t[3]>>
  BY DEF Receivers
<1>3. \A t \in Clients : t[1] = "client" /\ t[2] \in Writers
  BY DEF Clients
<1>4. \A t \in Joiners : t[1] = "snap" /\ t[2] \in Nodes /\ t = <<"snap", t[2]>>
  BY DEF Joiners
<1>5. \A t \in Tasks : NodeOf(t) \in Nodes
  BY <1>1, <1>2, <1>3, <1>4 DEF Tasks, NodeOf
<1>6. \A n \in Nodes : <<"snap", n>> \in Joiners
  BY DEF Joiners
<1>7. \A n \in Nodes, p \in Nodes : <<"recv", n, p>> \in Receivers
  BY DEF Receivers
<1> QED
  BY <1>2, <1>3, <1>4, <1>5, <1>6, <1>7 DEF Tasks, NodeOf

\* What a change makes of each entry of the node.
LEMMA StoredEntries ==
    ASSUME StateType, Past, NEW n \in Nodes, NEW ev, IsChange(ev)
    PROVE  /\ Stored(n, ev) \in [Keys -> Slot]
           /\ \A k \in Keys :
                 /\ Stored(n, ev)[k].wall <= now
                 /\ Stored(n, ev)[k] = IF ~Concerns(ev, k) THEN cache[n][k]
                                       ELSE IF ev.kind = "insert" THEN [val |-> ev.val, wall |-> now]
                                       ELSE Absent
<1>1. /\ now \in 1 .. MaxClock /\ MaxClock \in Nat /\ cache[n] \in [Keys -> Slot]
      /\ \A k \in Keys : cache[n][k].wall <= now
  BY ReplicationAssumption DEF StateType, Past
<1>2. /\ ev.kind \in {"insert", "remove", "clear"}
      /\ ev.kind # "clear" => ev.key \in Keys
      /\ ev.kind = "insert" => ev.val \in 1 .. MaxOps
  BY DEF IsChange
<1>3. Absent \in Slot /\ Absent.wall = 0
  BY DEF Slot, Absent
<1>4. ev.kind = "insert" => [val |-> ev.val, wall |-> now] \in Slot
  BY <1>1, <1>2 DEF Slot
<1>5. ASSUME NEW k \in Keys
      PROVE  Stored(n, ev)[k] = IF ~Concerns(ev, k) THEN cache[n][k]
                                ELSE IF ev.kind = "insert" THEN [val |-> ev.val, wall |-> now]
                                ELSE Absent
  BY <1>2 DEF Stored, Concerns
<1>6. ASSUME NEW k \in Keys PROVE Stored(n, ev)[k] \in Slot /\ Stored(n, ev)[k].wall <= now
  <2>1. CASE ~Concerns(ev, k)
    BY <1>1, <1>5, <2>1
  <2>2. CASE Concerns(ev, k) /\ ev.kind = "insert"
    <3>1. Stored(n, ev)[k] = [val |-> ev.val, wall |-> now]
      BY <1>5, <2>2
    <3> QED
      BY <1>1, <1>4, <2>2, <3>1
  <2>3. CASE Concerns(ev, k) /\ ev.kind # "insert"
    <3>1. Stored(n, ev)[k] = Absent
      BY <1>5, <2>3
    <3> QED
      BY <1>1, <1>3, <3>1
  <2> QED
    BY <2>1, <2>2, <2>3
<1>7. Stored(n, ev) = [k \in Keys |-> Stored(n, ev)[k]]
  BY DEF Stored
<1> QED
  BY <1>5, <1>6, <1>7

\* The event as it goes out is a change of the same keys.
LEMMA StampedEvent ==
    ASSUME StateType, NEW n \in Nodes, NEW ev, IsChange(ev)
    PROVE  LET e == Stamped(n, ev) IN
           /\ e \in Event /\ IsChange(e)
           /\ e.origin = n /\ e.ts = now /\ e.kind = ev.kind
           /\ e.kind = "insert" => e.val = ev.val
           /\ \A k \in Keys : Concerns(e, k) <=> Concerns(ev, k)
<1> DEFINE e == Stamped(n, ev)
<1>1. now \in 1 .. MaxClock /\ MaxOps \in Nat
  BY ReplicationAssumption DEF StateType
<1>2. /\ ev.kind \in {"insert", "remove", "clear"}
      /\ ev.kind # "clear" => ev.key \in Keys
      /\ ev.kind = "insert" => ev.val \in 1 .. MaxOps
  BY DEF IsChange
<1>3. /\ e.kind = ev.kind /\ e.origin = n /\ e.ts = now /\ e.exp = 0
      /\ e.key = IF ev.kind = "clear" THEN "" ELSE ev.key
      /\ e.val = IF ev.kind = "insert" THEN ev.val ELSE 0
      /\ e = [kind |-> e.kind, key |-> e.key, val |-> e.val, origin |-> e.origin, ts |-> e.ts, exp |-> e.exp]
  BY DEF Stamped
<1> HIDE DEF e
<1>4. /\ e.kind \in {"insert", "remove", "clear"} /\ e.key \in Keys \cup {""} /\ e.val \in 0 .. MaxOps
      /\ e.origin \in Nodes /\ e.ts \in 1 .. MaxClock /\ e.exp \in {0}
  <2>1. e.key \in Keys \cup {""}
    BY <1>2, <1>3, Zenon
  <2>2. e.val \in 0 .. MaxOps
    <3>1. \A v \in 1 .. MaxOps : v \in 0 .. MaxOps
      BY <1>1
    <3>2. 0 \in 0 .. MaxOps
      BY <1>1
    <3> QED
      BY <1>2, <1>3, <3>1, <3>2, Zenon
  <2> QED
    BY <1>1, <1>2, <1>3, <2>1, <2>2, Zenon
<1>5. e \in Event
  BY <1>3, <1>4 DEF Event
<1>6. IsChange(e) /\ \A k \in Keys : Concerns(e, k) <=> Concerns(ev, k)
  BY <1>2, <1>3 DEF IsChange, Concerns
<1> QED
  BY <1>2, <1>3, <1>5, <1>6 DEF e

\* A queue with one more event is within the buffer, and holds nothing else.
LEMMA PushedQueue ==
    ASSUME NEW q \in Seq(Event), Len(q) <= Buffer, NEW e \in Event
    PROVE  /\ Pushed(q, e) \in Seq(Event) /\ Len(Pushed(q, e)) <= Buffer
           /\ Len(q) < Buffer => Pushed(q, e) = Append(q, e)
           /\ \A i \in 1 .. Len(Pushed(q, e)) :
                 Pushed(q, e)[i] = e \/ \E j \in 1 .. Len(q) : Pushed(q, e)[i] = q[j]
<1>1. Buffer \in Nat \ {0} /\ Len(q) \in Nat
  BY ReplicationAssumption
<1>2. CASE Len(q) < Buffer
  <2>1. /\ Append(q, e) \in Seq(Event) /\ Len(Append(q, e)) = Len(q) + 1
        /\ \A i \in 1 .. Len(q) : Append(q, e)[i] = q[i]
        /\ Append(q, e)[Len(q) + 1] = e
    OBVIOUS
  <2>2. Pushed(q, e) = Append(q, e)
    BY <1>2 DEF Pushed
  <2>3. \A i \in 1 .. Len(q) + 1 : i = Len(q) + 1 \/ i \in 1 .. Len(q)
    BY <1>1
  <2> QED
    BY <1>1, <1>2, <2>1, <2>2, <2>3
<1>3. CASE ~(Len(q) < Buffer)
  <2>1. q # << >> /\ Len(q) = Buffer
    BY <1>1, <1>3
  <2>2. /\ Tail(q) \in Seq(Event) /\ Len(Tail(q)) = Len(q) - 1
        /\ \A i \in 1 .. Len(q) - 1 : Tail(q)[i] = q[i + 1]
    BY <2>1
  <2> DEFINE r == Tail(q)
  <2> HIDE DEF r
  <2>3. r \in Seq(Event) /\ Len(r) = Len(q) - 1 /\ \A i \in 1 .. Len(q) - 1 : r[i] = q[i + 1]
    BY <2>2 DEF r
  <2>4. /\ Append(r, e) \in Seq(Event) /\ Len(Append(r, e)) = Len(r) + 1
        /\ \A i \in 1 .. Len(r) : Append(r, e)[i] = r[i]
        /\ Append(r, e)[Len(r) + 1] = e
    BY <2>3
  <2>5. Pushed(q, e) = Append(r, e)
    BY <1>3 DEF Pushed, r
  <2>6. \A i \in 1 .. Len(q) : i = Len(q) \/ (i \in 1 .. Len(q) - 1 /\ i + 1 \in 1 .. Len(q))
    BY <1>1
  <2>7. Len(Append(r, e)) = Len(q)
    BY <1>1, <2>3, <2>4
  <2>8. ASSUME NEW i \in 1 .. Len(q)
        PROVE  Append(r, e)[i] = e \/ \E j \in 1 .. Len(q) : Append(r, e)[i] = q[j]
    BY <1>1, <2>3, <2>4, <2>6
  <2> QED
    BY <1>1, <1>3, <2>1, <2>4, <2>5, <2>7, <2>8
<1> QED
  BY <1>2, <1>3

\* The head of a queue is an event, and the rest is a shorter queue of the others.
LEMMA RestOfQueue ==
    ASSUME NEW q \in Seq(Event), q # << >>
    PROVE  /\ Len(q) \in Nat \ {0} /\ Head(q) = q[1] /\ Head(q) \in Event
           /\ Tail(q) \in Seq(Event) /\ Len(Tail(q)) = Len(q) - 1
           /\ \A i \in 1 .. Len(Tail(q)) : i + 1 \in 1 .. Len(q) /\ Tail(q)[i] = q[i + 1]
<1>1. Len(q) \in Nat \ {0}
  OBVIOUS
<1>2. Head(q) = q[1] /\ Head(q) \in Event
  OBVIOUS
<1>3. /\ Tail(q) \in Seq(Event) /\ Len(Tail(q)) = Len(q) - 1
      /\ \A i \in 1 .. Len(q) - 1 : Tail(q)[i] = q[i + 1]
  OBVIOUS
<1> QED
  BY <1>1, <1>2, <1>3

-----------------------------------------------------------------------------
(* Types                                                                   *)

\* What a receiver or a snapshot task is left with is a change or nothing.
LEMMA JudgedTask ==
    ASSUME NEW n, NEW ev, IsChange(ev)
    PROVE  /\ \/ Judged(n, ev) = Idle
              \/ Judged(n, ev).pc = "judged" /\ Judged(n, ev).ev = ev
           /\ Judged(n, ev) = Idle <=> Deduplicate(n, ev) # "Apply"
<1>1. [pc |-> "judged", ev |-> ev] # Idle
  BY DEF Idle
<1> QED
  BY <1>1 DEF Judged

\* A task that stores a change, of a client or received, leaves everything typed.
LEMMA StoreSound ==
    ASSUME Sound, NEW t \in Tasks, NEW ev, IsChange(ev), Store(t, ev),
           t \in Receivers => t \in Subscribed,
           \A n \in Nodes : t = <<"snap", n>> => config.snapshot,
           ops' \in 0 .. MaxOps, UNCHANGED <<config, now, chan, state, snap, missed>>
    PROVE  Sound'
<1> DEFINE n == NodeOf(t)
<1>1. n \in Nodes
  BY TaskParts DEF Sound, StateType
<1>2. /\ cache' = [cache EXCEPT ![n] = Stored(n, ev)]
      /\ task' = [task EXCEPT ![t] = [pc |-> "stored", ev |-> ev]]
      /\ overlaps' \subseteq Nodes \X Keys
  BY DEF Store
<1>3. Stored(n, ev) \in [Keys -> Slot] /\ \A k \in Keys : Stored(n, ev)[k].wall <= now
  BY <1>1, StoredEntries DEF Sound
<1> HIDE DEF n
<1>4. StateType'
  BY <1>1, <1>2, <1>3 DEF Sound, StateType, Receivers
<1>5. TaskType'
  <2>1. task' = [x \in Tasks |-> task'[x]]
    BY <1>2 DEF Sound, TaskType
  <2>2. \A x \in Tasks : task'[x] = IF x = t THEN [pc |-> "stored", ev |-> ev] ELSE task[x]
    BY <1>2 DEF Sound, TaskType
  <2> QED
    BY <2>1, <2>2 DEF Sound, TaskType, IsChange
<1>6. Wired'
  <2>1. \A x \in Tasks : x # t => task'[x] = task[x]
    BY <1>2 DEF Sound, TaskType
  <2>2. Subscribed' = Subscribed
    BY DEF Subscribed
  <2> QED
    BY <2>1, <2>2, TaskParts DEF Sound, Wired, StateType
<1>7. Past'
  <2>1. \A m \in Nodes : cache'[m] = IF m = n THEN Stored(n, ev) ELSE cache[m]
    BY <1>1, <1>2 DEF Sound, StateType
  <2> QED
    BY <1>3, <2>1 DEF Sound, Past
<1> QED
  BY <1>4, <1>5, <1>6, <1>7 DEF Sound, ChanType, SnapType

PublishDoes(t, e) ==
    /\ task[t].pc = "stored" /\ IsChange(task[t].ev)
    /\ e \in Event /\ IsChange(e) /\ e.origin = NodeOf(t) /\ e.ts = now
    /\ e.kind = task[t].ev.kind /\ (e.kind = "insert" => e.val = task[t].ev.val)
    /\ \A k \in Keys : Concerns(e, k) <=> Concerns(task[t].ev, k)
    /\ chan' = [s \in Receivers |-> chan'[s]]
    /\ \A s \in Receivers :
          IF s[3] = NodeOf(t) /\ chan[s].open
          THEN chan'[s] = [open |-> TRUE, queue |-> Pushed(chan[s].queue, e)]
          ELSE chan'[s] = chan[s]
    /\ missed' \subseteq Receivers \X Keys
    /\ \A s \in Receivers, k \in Keys : <<s, k>> \notin missed' =>
          IF s[3] = NodeOf(t) /\ Concerns(e, k) THEN chan[s].open
          ELSE <<s, k>> \notin missed /\ (s[3] = NodeOf(t) => ~Lags(s, k))
    /\ task' = [task EXCEPT ![t] = Idle]
    /\ UNCHANGED <<config, now, ops, cache, state, snap, overlaps>>

\* A publication reaches every open subscription of the node.
LEMMA PublishEffect ==
    ASSUME Sound, NEW t \in Tasks, Publish(t)
    PROVE  \E e : PublishDoes(t, e)
<1> DEFINE e == Stamped(NodeOf(t), task[t].ev)
<1>1. task[t].pc = "stored" /\ IsChange(task[t].ev) /\ NodeOf(t) \in Nodes
  BY TaskParts DEF Publish, Sound, TaskType, StateType, Idle
<1>2. /\ e \in Event /\ IsChange(e) /\ e.origin = NodeOf(t) /\ e.ts = now /\ e.kind = task[t].ev.kind
      /\ e.kind = "insert" => e.val = task[t].ev.val
      /\ \A k \in Keys : Concerns(e, k) <=> Concerns(task[t].ev, k)
  BY <1>1, StampedEvent DEF Sound
<1>3. chan' = [s \in Receivers |->
                 IF s \in {x \in Receivers : x[3] = NodeOf(t)} /\ chan[s].open
                 THEN [chan[s] EXCEPT !.queue = Pushed(chan[s].queue, e)] ELSE chan[s]]
  BY DEF Publish
<1> HIDE DEF e
<1>4. ASSUME NEW s \in Receivers, chan[s].open
      PROVE  [chan[s] EXCEPT !.queue = Pushed(chan[s].queue, e)]
               = [open |-> TRUE, queue |-> Pushed(chan[s].queue, e)]
  <2>1. chan[s] \in [open : BOOLEAN, queue : Seq(Event)]
    BY DEF Sound, ChanType
  <2> DEFINE q == Pushed(chan[s].queue, e)
  <2> HIDE DEF q
  <2>2. [chan[s] EXCEPT !.queue = q] = [open |-> TRUE, queue |-> q]
    <3>1. chan[s].open = TRUE
      BY <1>4, <2>1
    <3>2. [chan[s] EXCEPT !.queue = q] = [open |-> chan[s].open, queue |-> q]
      BY <2>1
    <3> QED
      BY <3>1, <3>2, Zenon
  <2> QED
    BY <2>2 DEF q
<1>5. /\ chan' = [s \in Receivers |-> chan'[s]]
      /\ \A s \in Receivers : IF s[3] = NodeOf(t) /\ chan[s].open
                              THEN chan'[s] = [open |-> TRUE, queue |-> Pushed(chan[s].queue, e)]
                              ELSE chan'[s] = chan[s]
  BY <1>3, <1>4, Zenon
<1>6. /\ missed' \subseteq Receivers \X Keys
      /\ \A s \in Receivers, k \in Keys : <<s, k>> \notin missed' =>
            IF s[3] = NodeOf(t) /\ Concerns(e, k) THEN chan[s].open
            ELSE <<s, k>> \notin missed /\ (s[3] = NodeOf(t) => ~Lags(s, k))
  <2>1. missed' = {x \in Receivers \X Keys :
                     IF x[1][3] # NodeOf(t) THEN x \in missed
                     ELSE IF Concerns(task[t].ev, x[2]) THEN ~chan[x[1]].open
                     ELSE x \in missed \/ Lags(x[1], x[2])}
    BY DEF Publish
  <2>2. ASSUME NEW s \in Receivers, NEW k \in Keys, <<s, k>> \notin missed'
        PROVE  IF s[3] = NodeOf(t) /\ Concerns(e, k) THEN chan[s].open
               ELSE <<s, k>> \notin missed /\ (s[3] = NodeOf(t) => ~Lags(s, k))
    <3>1. <<s, k>> \in Receivers \X Keys /\ <<s, k>>[1] = s /\ <<s, k>>[2] = k
      OBVIOUS
    <3>2. ~(IF s[3] # NodeOf(t) THEN <<s, k>> \in missed
            ELSE IF Concerns(task[t].ev, k) THEN ~chan[s].open
            ELSE <<s, k>> \in missed \/ Lags(s, k))
      BY <2>1, <2>2, <3>1, Zenon
    <3>3. Concerns(e, k) <=> Concerns(task[t].ev, k)
      BY <1>2
    <3> QED
      BY <3>2, <3>3, Zenon
  <2> QED
    BY <2>1, <2>2
<1>7. task' = [task EXCEPT ![t] = Idle] /\ UNCHANGED <<config, now, ops, cache, state, snap, overlaps>>
  BY DEF Publish
<1>8. PublishDoes(t, e)
  BY <1>1, <1>2, <1>5, <1>6, <1>7, Zenon DEF PublishDoes
<1> QED
  BY <1>8

LEMMA PublishSound ==
    ASSUME Sound, NEW t \in Tasks, Publish(t)
    PROVE  Sound'
<1>1. PICK e : PublishDoes(t, e)
  BY PublishEffect
<1>2. /\ task' = [task EXCEPT ![t] = Idle]
      /\ UNCHANGED <<config, now, ops, cache, state, snap, overlaps>>
      /\ missed' \subseteq Receivers \X Keys /\ e \in Event /\ IsChange(e) /\ e.origin = NodeOf(t)
  BY <1>1 DEF PublishDoes
<1>3. StateType' /\ SnapType' /\ Past'
  BY <1>2 DEF Sound, StateType, SnapType, Past
<1>4. /\ task' = [x \in Tasks |-> task'[x]]
      /\ \A x \in Tasks : task'[x] = IF x = t THEN Idle ELSE task[x]
  BY <1>2 DEF Sound, TaskType
<1>5. TaskType'
  BY <1>4 DEF Sound, TaskType, IsChange
<1>6. ASSUME NEW s \in Receivers
      PROVE  /\ chan'[s] \in [open : BOOLEAN, queue : Seq(Event)] /\ Len(chan'[s].queue) <= Buffer
             /\ \A i \in 1 .. Len(chan'[s].queue) :
                   IsChange(chan'[s].queue[i]) /\ chan'[s].queue[i].origin = s[3]
             /\ chan'[s].open = chan[s].open
             /\ ~chan[s].open => chan'[s].queue = chan[s].queue
  <2> DEFINE q == chan[s].queue
  <2>1. /\ chan[s] \in [open : BOOLEAN, queue : Seq(Event)] /\ q \in Seq(Event) /\ Len(q) <= Buffer
        /\ \A i \in 1 .. Len(q) : IsChange(q[i]) /\ q[i].origin = s[3]
    BY DEF Sound, ChanType
  <2>2. CASE ~(s[3] = NodeOf(t) /\ chan[s].open)
    <3>1. chan'[s] = chan[s]
      BY <1>1, <2>2 DEF PublishDoes
    <3> QED
      BY <2>1, <3>1
  <2>3. CASE s[3] = NodeOf(t) /\ chan[s].open
    <3> DEFINE r == Pushed(q, e)
    <3>1. /\ r \in Seq(Event) /\ Len(r) <= Buffer
          /\ \A i \in 1 .. Len(r) : r[i] = e \/ \E j \in 1 .. Len(q) : r[i] = q[j]
      BY <1>2, <2>1, PushedQueue
    <3>2. chan'[s] = [open |-> TRUE, queue |-> r]
      BY <1>1, <2>3 DEF PublishDoes
    <3> HIDE DEF r, q
    <3>3. \A i \in 1 .. Len(r) : IsChange(r[i]) /\ r[i].origin = s[3]
      BY <1>2, <2>1, <2>3, <3>1, Zenon
    <3>4. chan'[s].queue = r /\ chan'[s].open = TRUE /\ chan[s].open = TRUE
      BY <2>1, <2>3, <3>2
    <3> QED
      BY <3>1, <3>2, <3>3, <3>4
  <2> QED
    BY <2>2, <2>3
<1>7. chan' = [s \in Receivers |-> chan'[s]]
  BY <1>1 DEF PublishDoes
<1>8. ChanType'
  BY <1>6, <1>7 DEF ChanType, IsChange
<1>9. Wired'
  <2>1. Subscribed' = Subscribed
    BY <1>2 DEF Subscribed
  <2> QED
    BY <1>2, <1>4, <1>6, <2>1, TaskParts DEF Sound, Wired, StateType
<1> QED
  BY <1>3, <1>5, <1>8, <1>9 DEF Sound

\* The head of the queue is taken and judged.
ReceiveDoes(t) ==
    LET q == chan[t].queue IN
    /\ task[t] = Idle /\ q # << >> /\ q \in Seq(Event) /\ IsChange(Head(q)) /\ Head(q).origin = t[3]
    /\ chan' = [s \in Receivers |-> chan'[s]]
    /\ chan'[t] \in [open : BOOLEAN, queue : Seq(Event)]
    /\ chan'[t].open = chan[t].open /\ chan'[t].queue = Tail(q)
    /\ \A s \in Receivers \ {t} : chan'[s] = chan[s]
    /\ task' = [task EXCEPT ![t] = Judged(t[2], Head(q))]
    /\ UNCHANGED <<config, now, ops, cache, state, snap, missed, overlaps>>

LEMMA ReceiveEffect ==
    ASSUME Sound, NEW t \in Receivers, Receive(t)
    PROVE  ReceiveDoes(t)
<1> DEFINE q == chan[t].queue
<1>1. /\ chan \in [Receivers -> [open : BOOLEAN, queue : Seq(Event)]] /\ q \in Seq(Event)
      /\ \A i \in 1 .. Len(q) : IsChange(q[i]) /\ q[i].origin = t[3]
  BY DEF Sound, ChanType
<1>2. /\ task[t] = Idle /\ q # << >> /\ chan' = [chan EXCEPT ![t].queue = Tail(q)]
      /\ task' = [task EXCEPT ![t] = Judged(t[2], Head(q))]
      /\ UNCHANGED <<config, now, ops, cache, state, snap, missed, overlaps>>
  BY DEF Receive
<1>3. /\ Len(q) \in Nat \ {0} /\ Head(q) = q[1] /\ Tail(q) \in Seq(Event)
  BY <1>1, <1>2, RestOfQueue
<1>4. IsChange(Head(q)) /\ Head(q).origin = t[3]
  BY <1>1, <1>3
<1> DEFINE r == Tail(q)
<1> HIDE DEF r
<1>5. chan' = [chan EXCEPT ![t].queue = r] /\ r \in Seq(Event)
  BY <1>2, <1>3 DEF r
<1>6. /\ chan' = [s \in Receivers |-> chan'[s]]
      /\ chan'[t] \in [open : BOOLEAN, queue : Seq(Event)]
      /\ chan'[t].open = chan[t].open /\ chan'[t].queue = r
      /\ \A s \in Receivers \ {t} : chan'[s] = chan[s]
  BY <1>1, <1>5
<1> QED
  BY <1>1, <1>2, <1>4, <1>6 DEF ReceiveDoes, r

LEMMA ReceiveSound ==
    ASSUME Sound, NEW t \in Receivers, Receive(t)
    PROVE  Sound'
<1> DEFINE q == chan[t].queue
           ev == Head(q)
<1>1. ReceiveDoes(t)
  BY ReceiveEffect
<1>2. /\ q # << >> /\ q \in Seq(Event) /\ IsChange(ev) /\ t \in Tasks
      /\ UNCHANGED <<config, now, ops, cache, state, snap, missed, overlaps>>
      /\ task' = [task EXCEPT ![t] = Judged(t[2], ev)]
  BY <1>1 DEF ReceiveDoes, Tasks
<1>3. StateType' /\ SnapType' /\ Past'
  BY <1>2 DEF Sound, StateType, SnapType, Past
<1>4. /\ task' = [x \in Tasks |-> task'[x]]
      /\ \A x \in Tasks : task'[x] = IF x = t THEN Judged(t[2], ev) ELSE task[x]
  BY <1>2 DEF Sound, TaskType
<1>5. \/ Judged(t[2], ev) = Idle
      \/ Judged(t[2], ev).pc = "judged" /\ Judged(t[2], ev).ev = ev
  BY <1>2, JudgedTask
<1> HIDE DEF ev
<1>6. TaskType'
  BY <1>2, <1>4, <1>5 DEF Sound, TaskType, IsChange
<1>7. /\ Tail(q) \in Seq(Event) /\ Len(Tail(q)) = Len(q) - 1 /\ Len(q) \in Nat
      /\ \A i \in 1 .. Len(Tail(q)) : i + 1 \in 1 .. Len(q) /\ Tail(q)[i] = q[i + 1]
  BY <1>2, RestOfQueue
<1> DEFINE r == Tail(q)
<1> HIDE DEF r
<1>8. /\ r \in Seq(Event) /\ Len(r) = Len(q) - 1 /\ Len(q) \in Nat
      /\ \A i \in 1 .. Len(r) : i + 1 \in 1 .. Len(q) /\ r[i] = q[i + 1]
  BY <1>7 DEF r
<1>9. /\ chan' = [s \in Receivers |-> chan'[s]]
      /\ chan'[t] \in [open : BOOLEAN, queue : Seq(Event)]
      /\ chan'[t].open = chan[t].open /\ chan'[t].queue = r
      /\ \A s \in Receivers \ {t} : chan'[s] = chan[s]
  BY <1>1 DEF ReceiveDoes, r
<1>10. /\ Len(q) <= Buffer /\ \A i \in 1 .. Len(q) : IsChange(q[i]) /\ q[i].origin = t[3]
       /\ Buffer \in Nat
  BY ReplicationAssumption DEF Sound, ChanType
<1>11. Len(r) <= Buffer /\ \A i \in 1 .. Len(r) : IsChange(r[i]) /\ r[i].origin = t[3]
  <2> HIDE DEF q
  <2>1. Len(r) <= Buffer
    BY <1>8, <1>10
  <2>2. ASSUME NEW i \in 1 .. Len(r) PROVE IsChange(r[i]) /\ r[i].origin = t[3]
    <3>1. i + 1 \in 1 .. Len(q) /\ r[i] = q[i + 1]
      BY <1>8
    <3> QED
      BY <1>10, <3>1
  <2> QED
    BY <2>1, <2>2
<1>12. ChanType'
  <2>1. \A s \in Receivers : chan'[s] \in [open : BOOLEAN, queue : Seq(Event)]
    BY <1>9 DEF Sound, ChanType
  <2>2. ASSUME NEW s \in Receivers
        PROVE  /\ Len(chan'[s].queue) <= Buffer
               /\ \A i \in 1 .. Len(chan'[s].queue) :
                     IsChange(chan'[s].queue[i]) /\ chan'[s].queue[i].origin = s[3]
    <3>1. CASE s = t
      BY <1>9, <1>11, <3>1, Zenon
    <3>2. CASE s # t
      <4>1. chan'[s] = chan[s]
        BY <1>9, <3>2
      <4> QED
        BY <4>1 DEF Sound, ChanType
    <3> QED
      BY <3>1, <3>2
  <2> QED
    BY <1>9, <2>1, <2>2 DEF ChanType, IsChange
<1>13. Wired'
  <2>1. Subscribed' = Subscribed
    BY <1>2 DEF Subscribed
  <2>2. chan[t].open
    BY <1>2 DEF Sound, Wired
  <2> QED
    BY <1>2, <1>4, <1>9, <2>1, <2>2, TaskParts, ZenonT(60) DEF Sound, Wired, StateType
<1> QED
  BY <1>3, <1>6, <1>12, <1>13 DEF Sound

\* Connections come and go: an empty queue, for a configured subscription only.
LEMMA ConnectSound ==
    ASSUME Sound, NEW t \in Receivers, Connect(t) \/ Disconnect(t)
    PROVE  Sound'
<1>1. /\ \/ t \in Subscribed /\ chan' = [chan EXCEPT ![t] = [open |-> TRUE, queue |-> << >>]]
         \/ chan' = [chan EXCEPT ![t] = [open |-> FALSE, queue |-> << >>]]
      /\ missed' \subseteq Receivers \X Keys
      /\ UNCHANGED <<config, now, ops, cache, task, state, snap, overlaps>>
  BY DEF Connect, Disconnect, Sound, StateType
<1>2. PICK b \in BOOLEAN : /\ chan' = [chan EXCEPT ![t] = [open |-> b, queue |-> << >>]]
                           /\ b => t \in Subscribed
  BY <1>1
<1>3. StateType' /\ TaskType' /\ SnapType' /\ Past'
  BY <1>1 DEF Sound, StateType, TaskType, SnapType, Past, IsChange, Idle, NoEvent
<1>4. Buffer \in Nat /\ chan \in [Receivers -> [open : BOOLEAN, queue : Seq(Event)]]
  BY ReplicationAssumption DEF Sound, ChanType
<1>5. /\ << >> \in Seq(Event) /\ Len(<< >>) = 0
      /\ [open |-> b, queue |-> << >>] \in [open : BOOLEAN, queue : Seq(Event)]
  OBVIOUS
<1>6. /\ chan' \in [Receivers -> [open : BOOLEAN, queue : Seq(Event)]]
      /\ \A s \in Receivers : chan'[s] = IF s = t THEN [open |-> b, queue |-> << >>] ELSE chan[s]
  BY <1>2, <1>4, <1>5
<1>7. chan'[t].open = b /\ chan'[t].queue = << >> /\ \A s \in Receivers : s # t => chan'[s] = chan[s]
  BY <1>6
<1>8. ChanType'
  <2>1. ASSUME NEW s \in Receivers
        PROVE  /\ Len(chan'[s].queue) <= Buffer
               /\ \A i \in 1 .. Len(chan'[s].queue) :
                     IsChange(chan'[s].queue[i]) /\ chan'[s].queue[i].origin = s[3]
    <3>1. CASE s = t
      BY <1>4, <1>5, <1>7, <3>1
    <3>2. CASE s # t
      BY <1>7, <3>2 DEF Sound, ChanType
    <3> QED
      BY <3>1, <3>2
  <2> QED
    BY <1>6, <2>1 DEF ChanType, IsChange
<1>9. Wired'
  <2>1. Subscribed' = Subscribed
    BY <1>1 DEF Subscribed
  <2> QED
    BY <1>1, <1>2, <1>7, <2>1 DEF Sound, Wired
<1> QED
  BY <1>3, <1>8, <1>9 DEF Sound

\* The items of a listing are entries of the listed peer.
LEMMA ListedItems ==
    ASSUME StateType, NEW p \in Nodes
    PROVE  {<<k, cache[p][k].val>> : k \in {x \in Keys : cache[p][x] # Absent}}
             \in SUBSET (Keys \X (1 .. MaxOps))
<1>1. ASSUME NEW k \in Keys, cache[p][k] # Absent PROVE cache[p][k].val \in 1 .. MaxOps
  <2>1. cache[p][k] \in [val : 1 .. MaxOps, wall : 1 .. MaxClock]
    BY <1>1 DEF StateType, Slot
  <2> QED
    BY <2>1
<1> QED
  BY <1>1

\* A step of the snapshot that only moves it along.
LEMMA SnapSound ==
    ASSUME Sound, NEW n \in Nodes,
           SnapshotList(n) \/ SnapshotStamp(n) \/ SnapshotParity(n) \/ SnapshotFail(n) \/ SnapshotGiveUp(n)
    PROVE  Sound'
<1> DEFINE Snaps == [pc : {"ask", "listed", "stream", "done"}, left : SUBSET Nodes,
                     peer : SUBSET Nodes, items : SUBSET (Keys \X (1 .. MaxOps)), ts : 0 .. MaxClock]
<1>1. /\ snap \in [Nodes -> Snaps] /\ snap[n] \in Snaps /\ now \in 0 .. MaxClock /\ MaxClock \in Nat
      /\ state \in [Nodes -> {"Warming", "Ready"}]
  BY ReplicationAssumption DEF Sound, SnapType, StateType
<1>2. NoSnapshot \in Snaps /\ \A left \in SUBSET Nodes : [NoSnapshot EXCEPT !.pc = "ask", !.left = left] \in Snaps
  <2>1. 0 \in 0 .. MaxClock
    BY <1>1
  <2> DEFINE Ask == [NoSnapshot EXCEPT !.pc = "ask"]
  <2>2. Ask = [pc |-> "ask", left |-> {}, peer |-> {}, items |-> {}, ts |-> 0]
    BY DEF NoSnapshot
  <2>3. ASSUME NEW left \in SUBSET Nodes PROVE [NoSnapshot EXCEPT !.pc = "ask", !.left = left] \in Snaps
    <3>1. [NoSnapshot EXCEPT !.pc = "ask", !.left = left] = [Ask EXCEPT !.left = left]
      BY Zenon
    <3> HIDE DEF Ask
    <3>2. [Ask EXCEPT !.left = left] = [pc |-> "ask", left |-> left, peer |-> {}, items |-> {}, ts |-> 0]
      BY <2>2
    <3>3. [pc |-> "ask", left |-> left, peer |-> {}, items |-> {}, ts |-> 0] \in Snaps
      BY <2>1
    <3> HIDE DEF Snaps
    <3> QED
      BY <3>1, <3>2, <3>3, Zenon
  <2>4. NoSnapshot \in Snaps
    BY <2>1 DEF NoSnapshot
  <2> HIDE DEF Snaps
  <2> QED
    BY <2>3, <2>4
<1>3. /\ snap[n].pc # "done" /\ UNCHANGED <<config, now, ops, cache, task, chan, missed, overlaps>>
      /\ state' \in [Nodes -> {"Warming", "Ready"}]
  BY <1>1 DEF SnapshotList, SnapshotStamp, SnapshotParity, SnapshotFail, SnapshotGiveUp
<1>4. snap' \in [Nodes -> Snaps]
  <2>1. CASE SnapshotList(n)
    <3>1. PICK p \in snap[n].left :
             snap' = [snap EXCEPT ![n] =
                        [pc |-> "listed", left |-> snap[n].left \ {p}, peer |-> {p}, ts |-> 0,
                         items |-> {<<k, cache[p][k].val>> : k \in {x \in Keys : cache[p][x] # Absent}}]]
      BY <2>1 DEF SnapshotList
    <3> DEFINE it == {<<k, cache[p][k].val>> : k \in {x \in Keys : cache[p][x] # Absent}}
    <3>2. p \in Nodes /\ snap[n].left \ {p} \in SUBSET Nodes /\ {p} \in SUBSET Nodes /\ 0 \in 0 .. MaxClock
      BY <1>1
    <3>3. it \in SUBSET (Keys \X (1 .. MaxOps))
      BY <3>2, ListedItems DEF Sound
    <3> HIDE DEF it
    <3>4. [pc |-> "listed", left |-> snap[n].left \ {p}, peer |-> {p}, ts |-> 0, items |-> it] \in Snaps
      BY <3>2, <3>3
    <3> HIDE DEF Snaps
    <3> QED
      BY <1>1, <3>1, <3>4 DEF it
  <2>2. CASE SnapshotStamp(n)
    <3>1. snap' = [snap EXCEPT ![n].pc = "stream", ![n].ts = now]
      BY <2>2 DEF SnapshotStamp
    <3> DEFINE mid == [snap EXCEPT ![n].pc = "stream"]
    <3>2. mid \in [Nodes -> Snaps]
      BY <1>1
    <3>3. snap' = [mid EXCEPT ![n].ts = now]
      BY <3>1, Zenon
    <3> HIDE DEF mid
    <3> QED
      BY <1>1, <3>2, <3>3, ZenonT(60)
  <2>3. CASE SnapshotParity(n) \/ SnapshotFail(n) \/ SnapshotGiveUp(n)
    <3>1. snap[n].left \in SUBSET Nodes
      BY <1>1
    <3> HIDE DEF Snaps
    <3> QED
      BY <1>1, <1>2, <2>3, <3>1 DEF SnapshotParity, SnapshotFail, SnapshotGiveUp
  <2> QED
    BY <2>1, <2>2, <2>3
<1>5. SnapType'
  BY <1>1, <1>4 DEF SnapType
<1>6. StateType' /\ TaskType' /\ ChanType' /\ Past'
  BY <1>3 DEF Sound, StateType, TaskType, ChanType, Past, IsChange, Idle, NoEvent
<1>7. Wired'
  <2>1. Subscribed' = Subscribed
    BY <1>3 DEF Subscribed
  <2>2. config.snapshot
    BY <1>3 DEF Sound, Wired
  <2> QED
    BY <1>3, <2>1, <2>2 DEF Sound, Wired
<1> QED
  BY <1>5, <1>6, <1>7 DEF Sound

\* An item of the snapshot is judged like an event of a stream.
LEMMA SnapshotReceiveSound ==
    ASSUME Sound, NEW n \in Nodes, SnapshotReceive(n)
    PROVE  Sound' /\ config.snapshot /\ UNCHANGED <<chan, cache, missed, overlaps, config>>
<1> DEFINE t == <<"snap", n>>
           Ev(i, p) == [kind |-> "insert", key |-> i[1], val |-> i[2], origin |-> p,
                        ts |-> snap[n].ts, exp |-> snap[n].ts + Ttl]
<1>1. /\ snap[n].pc = "stream" /\ task[t] = Idle
      /\ UNCHANGED <<config, now, ops, cache, chan, state, missed, overlaps>>
  BY DEF SnapshotReceive
<1>2. PICK i \in snap[n].items, p \in snap[n].peer :
         /\ snap' = [snap EXCEPT ![n].items = snap[n].items \ {i}]
         /\ task' = [task EXCEPT ![t] = Judged(n, Ev(i, p))]
  BY DEF SnapshotReceive
<1>3. /\ i[1] \in Keys /\ i[2] \in 1 .. MaxOps
      /\ snap[n].items \ {i} \in SUBSET (Keys \X (1 .. MaxOps))
  BY DEF Sound, SnapType
<1>4. IsChange(Ev(i, p))
  BY <1>3 DEF IsChange
<1>5. \/ Judged(n, Ev(i, p)) = Idle
      \/ Judged(n, Ev(i, p)).pc = "judged" /\ Judged(n, Ev(i, p)).ev = Ev(i, p)
  BY <1>4, JudgedTask
<1>6. t \in Tasks /\ t \notin Receivers
  BY TaskParts DEF Sound, StateType
<1> HIDE DEF Ev, t
<1>7. /\ task' = [x \in Tasks |-> task'[x]]
      /\ \A x \in Tasks : task'[x] = IF x = t THEN Judged(n, Ev(i, p)) ELSE task[x]
  BY <1>2 DEF Sound, TaskType
<1>8. TaskType'
  BY <1>4, <1>5, <1>7 DEF Sound, TaskType, IsChange
<1>9. SnapType'
  BY <1>2, <1>3 DEF Sound, SnapType
<1>10. StateType' /\ ChanType' /\ Past'
  BY <1>1 DEF Sound, StateType, ChanType, Past, IsChange
<1>11. config.snapshot
  BY <1>1 DEF Sound, Wired
<1>12. Wired'
  <2>1. Subscribed' = Subscribed
    BY <1>1 DEF Subscribed
  <2>2. \A x \in Receivers : task'[x] = task[x]
    BY <1>6, <1>7 DEF Tasks
  <2> QED
    BY <1>1, <1>11, <2>1, <2>2 DEF Sound, Wired
<1> QED
  BY <1>1, <1>8, <1>9, <1>10, <1>11, <1>12 DEF Sound

\* The load is bounded.
LEMMA LoadBound ==
    ASSUME StateType
    PROVE  /\ ops \in 0 .. MaxOps /\ MaxOps \in Nat
           /\ ops < config.load => ops < MaxOps /\ ops + 1 \in 0 .. MaxOps
<1>1. config.load \in 0 .. MaxOps /\ ops \in 0 .. MaxOps /\ MaxOps \in Nat
  BY ReplicationAssumption DEF StateType, ConfigType
<1> QED
  BY <1>1

\* What a client asks for is a change.
LEMMA ClientChange ==
    ASSUME Sound, NEW t \in Clients, Local(t)
    PROVE  \E ev : /\ IsChange(ev) /\ task[t] = Idle /\ ops' \in 0 .. MaxOps /\ Store(t, ev)
                   /\ UNCHANGED <<config, now, chan, state, snap, missed>>
<1>1. PICK ev \in {Insert(k, ops + 1) : k \in Keys} \cup {Remove(k) : k \in Keys} \cup {Clear} :
         ClientOp(t, ev)
  BY DEF Local
<1>2. ops \in 0 .. MaxOps /\ ops < MaxOps /\ MaxOps \in Nat /\ ops' = ops + 1
  <2>1. ops < config.load /\ ops' = ops + 1
    BY <1>1 DEF ClientOp
  <2> QED
    BY <2>1, LoadBound DEF Sound
<1>3. ops + 1 \in 1 .. MaxOps
  BY <1>2
<1>4. IsChange(ev)
  <2>1. ASSUME NEW k \in Keys PROVE IsChange(Insert(k, ops + 1)) /\ IsChange(Remove(k))
    BY <1>3 DEF IsChange, Insert, Remove
  <2>2. IsChange(Clear)
    BY DEF IsChange, Clear
  <2> QED
    BY <1>1, <2>1, <2>2
<1>5. ops' \in 0 .. MaxOps
  BY <1>2
<1> QED
  BY <1>1, <1>4, <1>5 DEF ClientOp

\* A task that applies was judged to, and so belongs to the wiring.
LEMMA ApplyChange ==
    ASSUME Sound, NEW t \in Tasks, Apply(t)
    PROVE  /\ task[t].pc = "judged" /\ IsChange(task[t].ev) /\ Store(t, task[t].ev)
           /\ UNCHANGED <<config, now, ops, chan, state, snap, missed>>
           /\ t \in Receivers => t \in Subscribed
           /\ \A n \in Nodes : t = <<"snap", n>> => config.snapshot
<1>1. task[t].pc = "judged" /\ task[t] # Idle
  BY DEF Apply, Idle
<1> QED
  BY <1>1 DEF Apply, Sound, TaskType, Wired

\* How a node comes up.
LEMMA StartTypes ==
    ASSUME config \in Configs, NEW n \in Nodes
    PROVE  /\ StartState(n) \in {"Warming", "Ready"}
           /\ StartSnap(n) \in [pc : {"ask", "listed", "stream", "done"},
                                left : SUBSET Nodes, peer : SUBSET Nodes,
                                items : SUBSET (Keys \X (1 .. MaxOps)), ts : 0 .. MaxClock]
           /\ ~config.snapshot => StartSnap(n).pc = "done"
<1> DEFINE Snaps == [pc : {"ask", "listed", "stream", "done"}, left : SUBSET Nodes,
                     peer : SUBSET Nodes, items : SUBSET (Keys \X (1 .. MaxOps)), ts : 0 .. MaxClock]
<1>1. config.peers[n] \in SUBSET Nodes
  BY ReplicationAssumption DEF ConfigType
<1>2. 0 \in 0 .. MaxClock
  BY ReplicationAssumption
<1>3. NoSnapshot \in Snaps /\ NoSnapshot.pc = "done"
  BY <1>2 DEF NoSnapshot
<1>4. [NoSnapshot EXCEPT !.pc = "ask", !.left = config.peers[n]] \in Snaps
  <2> DEFINE Ask == [NoSnapshot EXCEPT !.pc = "ask"]
  <2>1. Ask \in Snaps
    BY <1>3
  <2>2. [NoSnapshot EXCEPT !.pc = "ask", !.left = config.peers[n]] = [Ask EXCEPT !.left = config.peers[n]]
    BY Zenon
  <2> HIDE DEF Ask
  <2>3. [Ask EXCEPT !.left = config.peers[n]] \in Snaps
    BY <1>1, <2>1
  <2> HIDE DEF Snaps
  <2> QED
    BY <2>2, <2>3, Zenon
<1> HIDE DEF Snaps
<1>5. StartSnap(n) \in Snaps /\ (~config.snapshot => StartSnap(n).pc = "done")
  BY <1>3, <1>4 DEF StartSnap
<1> QED
  BY <1>5 DEF StartState, Snaps

\* A node that is started again is as at the start, but for what its disk kept.
LEMMA RestartSound ==
    ASSUME Sound, NEW n \in Nodes, NEW kept \in SUBSET Keys, Restart(n, kept)
    PROVE  Sound'
<1> DEFINE Entry(k) == IF k \in kept THEN cache[n][k] ELSE Absent
           Closed == [open |-> FALSE, queue |-> << >>]
<1>1. /\ ops < config.load /\ ops' = ops + 1
      /\ cache' = [cache EXCEPT ![n] = [k \in Keys |-> Entry(k)]]
      /\ task' = [t \in Tasks |-> IF NodeOf(t) = n THEN Idle ELSE task[t]]
      /\ chan' = [s \in Receivers |-> IF s \in EndsAt(n) THEN Closed ELSE chan[s]]
      /\ state' = [state EXCEPT ![n] = StartState(n)]
      /\ snap' = [snap EXCEPT ![n] = StartSnap(n)]
      /\ missed' = missed \cup (EndsAt(n) \X Keys)
      /\ UNCHANGED <<config, now, overlaps>>
  BY DEF Restart
<1>2. config \in Configs /\ EndsAt(n) \subseteq Receivers /\ Subscribed' = Subscribed
  BY <1>1 DEF Sound, StateType, EndsAt, Subscribed
<1>3. ASSUME NEW k \in Keys PROVE Entry(k) \in Slot /\ Entry(k).wall <= now
  <2>1. Absent \in Slot /\ Absent.wall = 0 /\ now \in 1 .. MaxClock /\ cache[n][k] \in Slot
    BY DEF Absent, Slot, Sound, StateType
  <2>2. cache[n][k].wall <= now /\ Absent.wall <= now
    BY <2>1 DEF Sound, Past
  <2> QED
    BY <2>1, <2>2
<1> HIDE DEF Entry, Closed
<1>4. StateType'
  <2>1. ops' \in 0 .. MaxOps
    BY <1>1, LoadBound DEF Sound
  <2>2. cache' \in [Nodes -> [Keys -> Slot]]
    BY <1>1, <1>3 DEF Sound, StateType
  <2>3. state' \in [Nodes -> {"Warming", "Ready"}]
    BY <1>1, <1>2, StartTypes DEF Sound, StateType
  <2>4. missed' \subseteq Receivers \X Keys
    BY <1>1, <1>2 DEF Sound, StateType
  <2> QED
    BY <1>1, <2>1, <2>2, <2>3, <2>4 DEF Sound, StateType
<1>5. TaskType'
  <2>1. task' = [t \in Tasks |-> task'[t]] /\ \A t \in Tasks : task'[t] = Idle \/ task'[t] = task[t]
    BY <1>1
  <2> QED
    BY <2>1 DEF Sound, TaskType, IsChange
<1>6. /\ Closed \in [open : BOOLEAN, queue : Seq(Event)] /\ Closed.queue = << >> /\ Closed.open = FALSE
      /\ Len(<< >>) = 0 /\ Buffer \in Nat
  BY ReplicationAssumption DEF Closed
<1>7. \A s \in Receivers : chan'[s] = Closed \/ chan'[s] = chan[s]
  BY <1>1
<1>8. ChanType'
  <2>1. chan' \in [Receivers -> [open : BOOLEAN, queue : Seq(Event)]]
    BY <1>1, <1>6 DEF Sound, ChanType
  <2>2. ASSUME NEW s \in Receivers
        PROVE  /\ Len(chan'[s].queue) <= Buffer
               /\ \A i \in 1 .. Len(chan'[s].queue) :
                     IsChange(chan'[s].queue[i]) /\ chan'[s].queue[i].origin = s[3]
    <3>1. CASE chan'[s] = Closed
      BY <1>6, <3>1
    <3>2. CASE chan'[s] = chan[s]
      BY <3>2 DEF Sound, ChanType
    <3> QED
      BY <1>7, <3>1, <3>2
  <2> QED
    BY <2>1, <2>2 DEF ChanType, IsChange
<1>9. SnapType'
  <2> DEFINE Snaps == [pc : {"ask", "listed", "stream", "done"}, left : SUBSET Nodes,
                       peer : SUBSET Nodes, items : SUBSET (Keys \X (1 .. MaxOps)), ts : 0 .. MaxClock]
  <2>1. snap \in [Nodes -> Snaps] /\ StartSnap(n) \in Snaps
    BY <1>2, StartTypes DEF Sound, SnapType
  <2> HIDE DEF Snaps
  <2>2. snap' \in [Nodes -> Snaps]
    BY <1>1, <2>1
  <2> QED
    BY <2>2 DEF SnapType, Snaps
<1>10. Wired'
  <2>1. \A t \in Tasks : task'[t] # Idle => task'[t] = task[t]
    BY <1>1
  <2>2. \A t \in Receivers : chan'[t].open => chan'[t] = chan[t]
    BY <1>6, <1>7
  <2>3. ASSUME NEW t \in Receivers, chan'[t].open \/ task'[t] # Idle PROVE t \in Subscribed
    BY <1>2, <2>1, <2>2, <2>3, TaskParts DEF Sound, Wired
  <2>4. \A t \in Receivers : ~chan'[t].open => chan'[t].queue = << >>
    BY <1>6, <1>7 DEF Sound, Wired
  <2>5. ASSUME ~config.snapshot, NEW m \in Nodes
        PROVE  snap'[m].pc = "done" /\ task'[<<"snap", m>>] = Idle
    <3>1. snap'[m].pc = "done"
      BY <1>1, <1>2, <2>5, StartTypes DEF Sound, Wired, SnapType
    <3>2. task[<<"snap", m>>] = Idle /\ <<"snap", m>> \in Tasks
      BY <1>2, <2>5, TaskParts DEF Sound, Wired
    <3> QED
      BY <2>1, <3>1, <3>2
  <2> QED
    BY <1>1, <1>2, <2>3, <2>4, <2>5, Zenon DEF Wired, Idle, NoEvent
<1>11. Past'
  <2>1. \A m \in Nodes : cache'[m] = IF m = n THEN [k \in Keys |-> Entry(k)] ELSE cache[m]
    BY <1>1 DEF Sound, StateType
  <2>2. ASSUME NEW m \in Nodes, NEW k \in Keys PROVE cache'[m][k].wall <= now
    <3>1. CASE m = n
      BY <1>3, <2>1, <3>1
    <3>2. CASE m # n
      BY <2>1, <3>2 DEF Sound, Past
    <3> QED
      BY <3>1, <3>2
  <2> QED
    BY <1>1, <2>2 DEF Past
<1> QED
  BY <1>4, <1>5, <1>8, <1>9, <1>10, <1>11 DEF Sound

LEMMA SoundStep == Sound /\ [Next]_vars => Sound'
<1> SUFFICES ASSUME Sound, [Next]_vars PROVE Sound'
  OBVIOUS
<1>1. ASSUME NEW t \in Clients, Local(t) PROVE Sound'
  <2>1. PICK ev : /\ IsChange(ev) /\ ops' \in 0 .. MaxOps /\ Store(t, ev)
                  /\ UNCHANGED <<config, now, chan, state, snap, missed>>
    BY <1>1, ClientChange
  <2>2. t \in Tasks /\ t \notin Receivers /\ \A n \in Nodes : t # <<"snap", n>>
    BY TaskParts DEF Sound, StateType, Joiners
  <2> QED
    BY <2>1, <2>2, StoreSound
<1>2. ASSUME NEW t \in Tasks, Publish(t) PROVE Sound'
  BY <1>2, PublishSound
<1>3. ASSUME NEW t \in Tasks, Apply(t) PROVE Sound'
  <2>1. /\ IsChange(task[t].ev) /\ Store(t, task[t].ev)
        /\ UNCHANGED <<config, now, ops, chan, state, snap, missed>>
        /\ t \in Receivers => t \in Subscribed
        /\ \A n \in Nodes : t = <<"snap", n>> => config.snapshot
    BY <1>3, ApplyChange
  <2>2. ops' \in 0 .. MaxOps
    BY <2>1 DEF Sound, StateType
  <2> QED
    BY <2>1, <2>2, StoreSound
<1>4. ASSUME NEW t \in Receivers, Stream(t) \/ Disconnect(t) PROVE Sound'
  BY <1>4, ConnectSound, ReceiveSound DEF Stream
<1>5. ASSUME NEW n \in Nodes, Snapshot(n) \/ SnapshotFail(n) PROVE Sound'
  BY <1>5, SnapSound, SnapshotReceiveSound DEF Snapshot
<1>6. ASSUME NEW n \in Nodes, NEW k \in Keys, Evict(n, k) PROVE Sound'
  <2>1. /\ cache' = [cache EXCEPT ![n][k] = Absent] /\ ops < config.load /\ ops' = ops + 1
        /\ missed' \subseteq Receivers \X Keys /\ overlaps' \subseteq Nodes \X Keys
        /\ UNCHANGED <<config, now, task, chan, state, snap>>
    BY <1>6 DEF Evict, EndsAt, Sound, StateType
  <2>2. ops' \in 0 .. MaxOps /\ now \in 1 .. MaxClock
    BY <2>1, LoadBound DEF Sound, StateType
  <2>3. Absent \in Slot /\ Absent.wall = 0
    BY DEF Absent, Slot
  <2>4. cache' \in [Nodes -> [Keys -> Slot]]
    BY <2>1, <2>3 DEF Sound, StateType
  <2>5. StateType'
    BY <2>1, <2>2, <2>4 DEF Sound, StateType
  <2>6. Past'
    <3>1. \A m \in Nodes, x \in Keys :
             cache'[m][x] = IF m = n /\ x = k THEN Absent ELSE cache[m][x]
      BY <2>1 DEF Sound, StateType
    <3> QED
      BY <2>1, <2>2, <2>3, <3>1 DEF Sound, Past
  <2>7. TaskType' /\ ChanType' /\ SnapType'
    BY <2>1 DEF Sound, TaskType, ChanType, SnapType, IsChange, Idle, NoEvent
  <2>8. Wired'
    <3>1. Subscribed' = Subscribed
      BY <2>1 DEF Subscribed
    <3> QED
      BY <2>1, <3>1 DEF Sound, Wired
  <2> QED
    BY <2>5, <2>6, <2>7, <2>8 DEF Sound
<1>7. CASE Tick
  <2>1. /\ now < MaxClock /\ now' = now + 1
        /\ UNCHANGED <<config, ops, cache, task, chan, state, snap, missed, overlaps>>
    BY <1>7 DEF Tick
  <2>2. now \in Nat /\ now' \in 1 .. MaxClock
    BY <2>1, ReplicationAssumption DEF Sound, StateType
  <2>3. \A n \in Nodes, k \in Keys : cache[n][k].wall \in Nat
    <3>1. \A x \in Slot : x.wall \in Nat
      BY ReplicationAssumption DEF Slot, Absent
    <3> QED
      BY <3>1 DEF Sound, StateType
  <2>4. StateType' /\ Past'
    BY <2>1, <2>2, <2>3 DEF Sound, StateType, Past
  <2>5. TaskType' /\ ChanType' /\ SnapType'
    BY <2>1 DEF Sound, TaskType, ChanType, SnapType, IsChange, Idle, NoEvent
  <2>6. Wired'
    <3>1. Subscribed' = Subscribed
      BY <2>1 DEF Subscribed
    <3> QED
      BY <2>1, <3>1 DEF Sound, Wired
  <2> QED
    BY <2>4, <2>5, <2>6 DEF Sound
<1>8. CASE UNCHANGED vars
  <2>1. UNCHANGED <<config, now, ops, cache, task, chan, state, snap, missed, overlaps>>
    BY <1>8 DEF vars
  <2>2. Subscribed' = Subscribed
    BY <2>1 DEF Subscribed
  <2> QED
    BY <2>1, <2>2 DEF Sound, StateType, TaskType, ChanType, SnapType, Wired, Past, IsChange, Idle, NoEvent
<1>9. ASSUME NEW n \in Nodes, NEW kept \in SUBSET Keys, Restart(n, kept) PROVE Sound'
  BY <1>9, RestartSound
<1> QED
  BY <1>1, <1>2, <1>3, <1>4, <1>5, <1>6, <1>7, <1>8, <1>9 DEF Next, Move

LEMMA SoundInit == Init => Sound
<1> SUFFICES ASSUME Init PROVE Sound
  OBVIOUS
<1>1. config \in Configs /\ config \in ConfigType /\ config.peers \in [Nodes -> SUBSET Nodes]
  BY ReplicationAssumption DEF Init, ConfigType
<1>2. StateType
  <2>1. 1 \in 1 .. MaxClock /\ 0 \in 0 .. MaxOps /\ Absent \in Slot
    BY ReplicationAssumption DEF Slot
  <2>2. \A n \in Nodes : StartState(n) \in {"Warming", "Ready"}
    BY <1>1, StartTypes
  <2> QED
    BY <2>1, <2>2 DEF Init, StateType
<1>3. TaskType
  BY DEF Init, TaskType
<1>4. ChanType /\ \A t \in Receivers : ~chan[t].open /\ chan[t].queue = << >>
  <2>1. [open |-> FALSE, queue |-> << >>] \in [open : BOOLEAN, queue : Seq(Event)]
    OBVIOUS
  <2>2. \A t \in Receivers : chan[t] = [open |-> FALSE, queue |-> << >>]
    BY DEF Init
  <2>3. Len(<< >>) = 0 /\ Buffer \in Nat
    BY ReplicationAssumption
  <2>4. \A t \in Receivers : ~chan[t].open /\ chan[t].queue = << >>
    BY <2>2
  <2>5. chan \in [Receivers -> [open : BOOLEAN, queue : Seq(Event)]]
    BY <2>1 DEF Init
  <2> QED
    BY <2>3, <2>4, <2>5 DEF ChanType
<1>5. SnapType
  <2> DEFINE Snaps == [pc : {"ask", "listed", "stream", "done"}, left : SUBSET Nodes,
                       peer : SUBSET Nodes, items : SUBSET (Keys \X (1 .. MaxOps)), ts : 0 .. MaxClock]
  <2>1. snap = [n \in Nodes |-> StartSnap(n)] /\ \A n \in Nodes : StartSnap(n) \in Snaps
    BY <1>1, StartTypes DEF Init
  <2> HIDE DEF Snaps
  <2>2. snap \in [Nodes -> Snaps]
    BY <2>1
  <2> QED
    BY <2>2 DEF SnapType, Snaps
<1>6. Wired
  <2>1. ~config.snapshot => \A n \in Nodes : snap[n].pc = "done"
    BY <1>1, StartTypes DEF Init
  <2>2. \A t \in Tasks : task[t] = Idle
    BY DEF Init
  <2> QED
    BY <1>1, <1>4, <2>1, <2>2, TaskParts DEF Wired
<1>7. Past
  <2>1. Absent.wall = 0 /\ now = 1 /\ \A n \in Nodes, k \in Keys : cache[n][k] = Absent
    BY DEF Init, Absent
  <2> QED
    BY <2>1 DEF Past
<1> QED
  BY <1>2, <1>3, <1>4, <1>5, <1>6, <1>7 DEF Sound

\* Type correctness of the replication: in particular no subscription holds more
\* events than the broadcast buffer, whatever the peers, the clients and the snapshots do.
THEOREM TypeCorrect == Spec => []TypeOK
<1>1. Sound => TypeOK
  <2> SUFFICES ASSUME Sound PROVE TypeOK
    OBVIOUS
  <2>1. Slot \subseteq [val : 0 .. MaxOps, wall : 0 .. MaxClock]
    BY ReplicationAssumption DEF Slot, Absent
  <2>2. cache \in [Nodes -> [Keys -> [val : 0 .. MaxOps, wall : 0 .. MaxClock]]]
    BY <2>1 DEF Sound, StateType
  <2>3. \A t \in Tasks : task[t].pc \in {"idle", "judged", "stored"}
    BY DEF Sound, TaskType, Idle
  <2>4. \A n \in Nodes : snap[n].pc \in {"ask", "listed", "stream", "done"}
    BY DEF Sound, SnapType
  <2> QED
    BY <2>2, <2>3, <2>4 DEF Sound, StateType, ChanType, TypeOK
<1> QED
  BY <1>1, SoundInit, SoundStep, PTL DEF Spec

-----------------------------------------------------------------------------
(* A follower in step                                                      *)

\* Nothing on the way from p to n has moved.
StillWith(n, p, k) ==
    LET t == <<"recv", n, p>> IN
    /\ config' = config /\ cache'[n][k] = cache[n][k] /\ cache'[p][k] = cache[p][k]
    /\ chan'[t].queue = chan[t].queue
    /\ \A s \in Tasks : NodeOf(s) = p =>
          /\ task'[s].pc = "stored" <=> task[s].pc = "stored"
          /\ task[s].pc = "stored" => task'[s].ev = task[s].ev
    /\ task'[t].pc = "judged" <=> task[t].pc = "judged"
    /\ task[t].pc = "judged" => task'[t].ev = task[t].ev

LEMMA PipelineStill ==
    ASSUME NEW n \in Nodes, NEW p \in Nodes, NEW k \in Keys, Pipeline(n, p, k), StillWith(n, p, k)
    PROVE  Pipeline(n, p, k)'
<1> DEFINE t == <<"recv", n, p>>
           q == chan[t].queue
<1>0. \A s : NodeOf(s)' = NodeOf(s)
  BY DEF NodeOf, StillWith
<1>1. \A s \in Tasks : /\ Holds(s, p, k)' <=> Holds(s, p, k)
                       /\ Holds(s, p, k) => task'[s].ev = task[s].ev
  BY <1>0 DEF Holds, StillWith
<1>2. Unpublished(p, k)' <=> Unpublished(p, k)
  BY <1>1 DEF Unpublished
<1>3. cache'[n][k] = cache[n][k] /\ cache'[p][k] = cache[p][k] /\ q' = q
  BY DEF StillWith
<1>4. ASSUME Arrives(q, task[t], cache[n][k], cache[p][k], k)
      PROVE  Arrives(q, task'[t], cache[n][k], cache[p][k], k)
  <2>1. /\ task'[t].pc = "judged" <=> task[t].pc = "judged"
        /\ task[t].pc = "judged" => task'[t].ev = task[t].ev
    BY DEF StillWith
  <2> HIDE DEF t, q
  <2> QED
    BY <1>4, <2>1, Zenon DEF Arrives
<1>5. ~Unpublished(p, k)' => Arrives(q', task'[t], cache'[n][k], cache'[p][k], k)
  <2>1. ~Unpublished(p, k) => Arrives(q, task[t], cache[n][k], cache[p][k], k)
    BY DEF Pipeline
  <2> HIDE DEF t, q
  <2> QED
    BY <1>2, <1>3, <1>4, <2>1
<1> QED
  BY <1>5 DEF Pipeline

\* A follower's tasks rest, but for the receiver of its source.
LEMMA OnlyReceiver ==
    ASSUME Sound, NEW n \in Nodes, NEW p \in Nodes, Follows(n, p), NEW s \in Tasks,
           NodeOf(s) = n, task[s] # Idle
    PROVE  s = <<"recv", n, p>>
<1>1. CASE s \in Receivers
  <2>1. s \in Subscribed /\ s = <<"recv", s[2], s[3]>> /\ NodeOf(s) = s[2]
    BY <1>1, TaskParts DEF Sound, Wired, StateType
  <2>2. s[3] \in config.peers[n]
    BY <2>1 DEF Subscribed
  <2> QED
    BY <2>1, <2>2 DEF Follows
<1>2. CASE s \in Clients
  <2>1. s[1] = "client" /\ s[2] \in Writers
    BY <1>2 DEF Clients
  <2> QED
    BY <2>1 DEF NodeOf, Follows
<1>3. CASE s \in Joiners
  <2>1. PICK m \in Nodes : s = <<"snap", m>>
    BY <1>3 DEF Joiners
  <2> QED
    BY <2>1 DEF Sound, Wired, Follows
<1> QED
  BY <1>1, <1>2, <1>3 DEF Tasks

\* The receiver of a follower's only subscription.
LEMMA TheReceiver ==
    ASSUME Sound, NEW n \in Nodes, NEW p \in Nodes, n # p, Follows(n, p)
    PROVE  LET t == <<"recv", n, p>> IN
           /\ t \in Tasks /\ t \in Receivers /\ NodeOf(t) = n /\ t[2] = n /\ t[3] = p
<1>1. config \in Configs
  BY DEF Sound, StateType
<1>2. <<"recv", n, p>> \in Receivers
  BY <1>1, TaskParts
<1>3. /\ <<"recv", n, p>> \in Tasks /\ NodeOf(<<"recv", n, p>>) = <<"recv", n, p>>[2]
  BY <1>1, <1>2, TaskParts
<1> QED
  BY <1>2, <1>3

\* Whatever is still unpublished was so before, and its key has not changed since.
LEMMA MadeStill ==
    ASSUME NEW p \in Nodes, NEW k \in Keys, MadeInv(p, k), cache'[p][k] = cache[p][k],
           <<p, k>> \notin overlaps' => <<p, k>> \notin overlaps,
           \A s \in Tasks : Holds(s, p, k)' => Holds(s, p, k) /\ task'[s].ev = task[s].ev
    PROVE  MadeInv(p, k)'
BY DEF MadeInv

\* A change that meets no other is the only unpublished one of its keys.
LEMMA StoreMade ==
    ASSUME Sound, NEW p \in Nodes, NEW k \in Keys, MadeInv(p, k),
           NEW s \in Tasks, NEW ev, IsChange(ev), Store(s, ev), config' = config
    PROVE  MadeInv(p, k)'
<1> DEFINE m == NodeOf(s)
<1>1. m \in Nodes
  BY TaskParts DEF Sound, StateType
<1>2. /\ cache' = [cache EXCEPT ![m] = Stored(m, ev)]
      /\ task' = [task EXCEPT ![s] = [pc |-> "stored", ev |-> ev]]
      /\ overlaps' = {x \in Nodes \X Keys :
                        IF x[1] = m /\ Concerns(ev, x[2]) THEN Unpublished(m, x[2]) ELSE x \in overlaps}
  BY DEF Store
<1>3. \A x \in Nodes : cache'[x] = IF x = m THEN Stored(m, ev) ELSE cache[x]
  BY <1>1, <1>2 DEF Sound, StateType
<1>4. /\ \A x \in Tasks : x # s => task'[x] = task[x]
      /\ task'[s].pc = "stored" /\ task'[s].ev = ev
  BY <1>2 DEF Sound, TaskType
<1>5. \A x : NodeOf(x)' = NodeOf(x)
  BY DEF NodeOf
<1>6. Stored(m, ev)[k] = IF ~Concerns(ev, k) THEN cache[m][k]
                         ELSE IF ev.kind = "insert" THEN [val |-> ev.val, wall |-> now] ELSE Absent
  BY <1>1, StoredEntries DEF Sound
<1>7. <<p, k>> \in overlaps' <=> IF p = m /\ Concerns(ev, k) THEN Unpublished(m, k) ELSE <<p, k>> \in overlaps
  BY <1>2
<1> HIDE DEF m
<1>8. CASE p = m /\ Concerns(ev, k)
  <2> SUFFICES ASSUME <<p, k>> \notin overlaps', NEW x \in Tasks, Holds(x, p, k)'
               PROVE  Made(cache'[p][k], task'[x].ev)
    BY DEF MadeInv
  <2>1. \A y \in Tasks : ~Holds(y, p, k)
    BY <1>7, <1>8 DEF Unpublished
  <2>2. x = s
    BY <1>4, <1>5, <2>1 DEF Holds
  <2>3. [val |-> ev.val, wall |-> now] # Absent
    <3>1. now \in 1 .. MaxClock
      BY DEF Sound, StateType
    <3> QED
      BY <3>1 DEF Absent
  <2> QED
    BY <1>1, <1>3, <1>4, <1>6, <1>8, <2>2, <2>3 DEF Made
<1>9. CASE ~(p = m /\ Concerns(ev, k))
  <2>1. cache'[p][k] = cache[p][k]
    BY <1>3, <1>6, <1>9
  <2>2. \A x \in Tasks : Holds(x, p, k)' => Holds(x, p, k) /\ task'[x].ev = task[x].ev
    BY <1>4, <1>5, <1>9 DEF Holds, m
  <2> QED
    BY <1>7, <1>9, <2>1, <2>2, MadeStill
<1> QED
  BY <1>8, <1>9

\* A change is stored: at the source it is the newest there is on the way, at the
\* follower it is the receiver's, and ends what was on the way.
LEMMA StoreFollows ==
    ASSUME Sound, NEW n \in Nodes, NEW p \in Nodes, NEW k \in Keys, n # p, Follows(n, p),
           InStep(n, p, k)', InStep(n, p, k) => Pipeline(n, p, k),
           NEW s \in Tasks, NEW ev, IsChange(ev), Store(s, ev), UNCHANGED <<config, chan, missed>>,
           task[s].pc # "stored", NodeOf(s) = n => task[s].pc = "judged" /\ ev = task[s].ev
    PROVE  Pipeline(n, p, k)'
<1> DEFINE t == <<"recv", n, p>>
           m == NodeOf(s)
           q == chan[t].queue
<1>1. t \in Tasks /\ NodeOf(t) = n /\ m \in Nodes
  BY TheReceiver, TaskParts DEF Sound, StateType
<1>2. /\ cache' = [cache EXCEPT ![m] = Stored(m, ev)]
      /\ task' = [task EXCEPT ![s] = [pc |-> "stored", ev |-> ev]]
      /\ overlaps' = {x \in Nodes \X Keys :
                        IF x[1] = m /\ Concerns(ev, x[2]) THEN Unpublished(m, x[2]) ELSE x \in overlaps}
  BY DEF Store
<1>3. \A x \in Nodes : cache'[x] = IF x = m THEN Stored(m, ev) ELSE cache[x]
  BY <1>1, <1>2 DEF Sound, StateType
<1>4. /\ \A x \in Tasks : x # s => task'[x] = task[x]
      /\ task'[s].pc = "stored" /\ task'[s].ev = ev
  BY <1>2 DEF Sound, TaskType
<1>5. \A x : NodeOf(x)' = NodeOf(x)
  BY DEF NodeOf
<1>6. Stored(m, ev)[k] = IF ~Concerns(ev, k) THEN cache[m][k]
                         ELSE IF ev.kind = "insert" THEN [val |-> ev.val, wall |-> now] ELSE Absent
  BY <1>1, StoredEntries DEF Sound
<1>7. [val |-> ev.val, wall |-> now] # Absent
  <2>1. now \in 1 .. MaxClock
    BY DEF Sound, StateType
  <2> QED
    BY <2>1 DEF Absent
<1>11. (m = p /\ Concerns(ev, k)) \/ (InStep(n, p, k) /\ Pipeline(n, p, k))
  <2>1. <<p, k>> \notin overlaps' /\ <<t, k>> \notin missed
    BY DEF InStep, ToldOf
  <2>2. ~(m = p /\ Concerns(ev, k)) => <<p, k>> \notin overlaps
    BY <1>2, <2>1
  <2> QED
    BY <2>1, <2>2 DEF InStep, ToldOf
<1> HIDE DEF m
<1>8. CASE m \notin {n, p}
  <2>1. s # t /\ cache'[n] = cache[n] /\ cache'[p] = cache[p]
    BY <1>1, <1>3, <1>8 DEF m
  <2>2. StillWith(n, p, k)
    BY <1>1, <1>4, <1>8, <2>1 DEF StillWith, m
  <2> QED
    BY <1>8, <1>11, <2>2, PipelineStill
<1>9. CASE m = p
  <2>1. CASE Concerns(ev, k)
    <3>1. Holds(s, p, k)'
      BY <1>4, <1>5, <1>9, <2>1 DEF Holds, m
    <3> QED
      BY <3>1 DEF Pipeline, Unpublished
  <2>2. CASE ~Concerns(ev, k)
    <3>1. cache'[p][k] = cache[p][k] /\ cache'[n][k] = cache[n][k] /\ s # t
      BY <1>1, <1>3, <1>6, <1>9, <2>2 DEF m
    <3>2. ASSUME ~Unpublished(p, k)' PROVE ~Unpublished(p, k)
      <4>1. \A x \in Tasks : x # s /\ Holds(x, p, k) => Holds(x, p, k)'
        BY <1>4, <1>5 DEF Holds
      <4> QED
        BY <3>2, <4>1 DEF Unpublished, Holds
    <3>3. q' = q /\ task'[t] = task[t]
      BY <1>1, <1>4, <3>1
    <3>4. ~Unpublished(p, k) => Arrives(q, task[t], cache[n][k], cache[p][k], k)
      BY <1>11, <2>2 DEF Pipeline
    <3>5. ~Unpublished(p, k)' => Arrives(q', task'[t], cache'[n][k], cache'[p][k], k)
      <4> HIDE DEF q, t
      <4> QED
        BY <3>1, <3>2, <3>3, <3>4
    <3> QED
      BY <3>5 DEF Pipeline
  <2> QED
    BY <2>1, <2>2
<1>10. CASE m = n
  <2>1. s = t /\ task[t].pc = "judged" /\ ev = task[t].ev
    BY <1>1, <1>10, OnlyReceiver DEF m, Idle
  <2>2. cache'[p] = cache[p] /\ cache'[n][k] = Stored(n, ev)[k]
    BY <1>1, <1>3, <1>10
  <2>3. \A x \in Tasks : NodeOf(x) = p => task'[x] = task[x]
    BY <1>1, <1>4, <2>1
  <2>4. \A x \in Tasks : /\ Holds(x, p, k)' <=> Holds(x, p, k)
                         /\ Holds(x, p, k) => task'[x].ev = task[x].ev
    BY <1>5, <2>3 DEF Holds
  <2>5. Unpublished(p, k)' <=> Unpublished(p, k)
    BY <2>4 DEF Unpublished
  <2>7. ASSUME ~Unpublished(p, k)
        PROVE  Arrives(q', task'[t], cache'[n][k], cache'[p][k], k)
    <3>1. Arrives(q, task[t], cache[n][k], cache[p][k], k)
      BY <1>10, <1>11, <2>7 DEF Pipeline
    <3>2. q' = q /\ cache'[p][k] = cache[p][k] /\ task'[t].pc # "judged"
      BY <1>4, <2>1, <2>2
    <3>3. ASSUME Concerns(ev, k), Made(cache[p][k], ev) PROVE Agree(cache'[n][k], cache[p][k])
      BY <1>6, <1>7, <1>10, <2>2, <3>3 DEF Made, Agree
    <3>4. ~Concerns(ev, k) => cache'[n][k] = cache[n][k]
      BY <1>6, <1>10, <2>2
    <3>5. ~Waits(q, k) => Agree(cache'[n][k], cache[p][k])
      BY <2>1, <3>1, <3>3, <3>4 DEF Arrives
    <3>6. \A i \in 1 .. Len(q) : LastFor(q, i, k) =>
             Made(cache[p][k], q[i]) /\ (q[i].kind = "insert" => q[i].ts >= cache[p][k].wall)
      BY <3>1 DEF Arrives
    <3> HIDE DEF q, t
    <3> QED
      BY <3>2, <3>5, <3>6, Zenon DEF Arrives
  <2> QED
    BY <2>5, <2>7 DEF Pipeline
<1> QED
  BY <1>8, <1>9, <1>10

\* One more event in the queue: the newest if it concerns the key, and else no matter.
LEMMA ArrivesMore ==
    ASSUME NEW q \in Seq(Event), NEW e \in Event, NEW k, NEW held, NEW copy, NEW source,
           \/ Concerns(e, k) /\ Made(source, e) /\ (e.kind = "insert" => e.ts >= source.wall)
           \/ ~Concerns(e, k) /\ Arrives(q, held, copy, source, k)
    PROVE  Arrives(Append(q, e), held, copy, source, k)
<1> DEFINE r == Append(q, e)
<1>1. /\ Len(q) \in Nat /\ Len(r) = Len(q) + 1 /\ r[Len(q) + 1] = e
      /\ \A i \in 1 .. Len(q) : r[i] = q[i]
  OBVIOUS
<1>2. /\ \A i \in 1 .. Len(r) : i = Len(r) \/ (i \in 1 .. Len(q) /\ Len(r) \in i + 1 .. Len(r))
      /\ Len(r) \in 1 .. Len(r) /\ 1 .. Len(q) \subseteq 1 .. Len(r)
      /\ \A i \in 1 .. Len(q) : i + 1 .. Len(q) \subseteq i + 1 .. Len(r) /\ i + 1 .. Len(q) \subseteq 1 .. Len(q)
  BY <1>1
<1>3. r[Len(r)] = e
  BY <1>1
<1> HIDE DEF r
<1>4. CASE Concerns(e, k) /\ Made(source, e) /\ (e.kind = "insert" => e.ts >= source.wall)
  <2>1. \A i \in 1 .. Len(r) : LastFor(r, i, k) => i = Len(r)
    BY <1>2, <1>3, <1>4, Zenon DEF LastFor
  <2>2. Waits(r, k)
    BY <1>2, <1>3, <1>4, Zenon DEF Waits
  <2>3. Arrives(r, held, copy, source, k)
    BY <1>3, <1>4, <2>1, <2>2, Zenon DEF Arrives
  <2> QED
    BY <2>3 DEF r
<1>5. CASE ~Concerns(e, k) /\ Arrives(q, held, copy, source, k)
  <2>1. ASSUME NEW i \in 1 .. Len(r), LastFor(r, i, k) PROVE i \in 1 .. Len(q) /\ LastFor(q, i, k) /\ r[i] = q[i]
    BY <1>1, <1>2, <1>3, <1>5, <2>1, Zenon DEF LastFor
  <2>2. Waits(q, k) => Waits(r, k)
    BY <1>1, <1>2, Zenon DEF Waits
  <2>3. Arrives(r, held, copy, source, k)
    BY <1>5, <2>1, <2>2, Zenon DEF Arrives
  <2> QED
    BY <2>3 DEF r
<1> QED
  BY <1>4, <1>5

\* The head of the queue is in the receiver's hands, or dropped with the copy as it is.
LEMMA ArrivesLess ==
    ASSUME NEW q \in Seq(Event), q # << >>, NEW k, NEW held, NEW copy, NEW source, NEW next,
           Arrives(q, held, copy, source, k), held.pc # "judged",
           \/ next.pc = "judged" /\ next.ev = Head(q)
           \/ /\ next.pc # "judged"
              /\ /\ Concerns(Head(q), k) /\ Made(source, Head(q))
                 /\ Head(q).kind = "insert" => Head(q).ts >= source.wall
                 => Agree(copy, source)
    PROVE  Arrives(Tail(q), next, copy, source, k)
<1> DEFINE r == Tail(q)
<1>1. /\ Len(q) \in Nat \ {0} /\ Head(q) = q[1] /\ Len(r) = Len(q) - 1
      /\ \A i \in 1 .. Len(r) : i + 1 \in 1 .. Len(q) /\ r[i] = q[i + 1]
  BY RestOfQueue
<1> HIDE DEF r
<1>2. /\ \A i \in 1 .. Len(q) : i # 1 => i - 1 \in 1 .. Len(r) /\ (i - 1) + 1 = i
      /\ 1 \in 1 .. Len(q)
      /\ \A j \in 1 + 1 .. Len(q) : j \in 1 .. Len(q) /\ j # 1
  BY <1>1
<1>3. ASSUME NEW i \in 1 .. Len(r), LastFor(r, i, k) PROVE LastFor(q, i + 1, k)
  <2>1. Concerns(q[i + 1], k)
    BY <1>1, <1>3 DEF LastFor
  <2>2. ASSUME NEW j \in (i + 1) + 1 .. Len(q) PROVE ~Concerns(q[j], k)
    <3>1. j - 1 \in i + 1 .. Len(r) /\ j - 1 \in 1 .. Len(r) /\ (j - 1) + 1 = j
      BY <1>1
    <3>2. r[j - 1] = q[j]
      BY <1>1, <3>1
    <3> QED
      BY <1>3, <3>1, <3>2 DEF LastFor
  <2> QED
    BY <2>1, <2>2 DEF LastFor
<1>4. \A i \in 1 .. Len(r) : LastFor(r, i, k) =>
         Made(source, r[i]) /\ (r[i].kind = "insert" => r[i].ts >= source.wall)
  BY <1>1, <1>3 DEF Arrives
<1>5. ASSUME ~Waits(r, k)
      PROVE  IF next.pc = "judged" /\ Concerns(next.ev, k) THEN Made(source, next.ev) ELSE Agree(copy, source)
  <2>1. \A i \in 1 .. Len(q) : i # 1 => ~Concerns(q[i], k)
    BY <1>1, <1>2, <1>5 DEF Waits
  <2>2. CASE Concerns(Head(q), k)
    <3>1. LastFor(q, 1, k)
      BY <1>1, <1>2, <2>1, <2>2 DEF LastFor
    <3>2. Made(source, Head(q)) /\ (Head(q).kind = "insert" => Head(q).ts >= source.wall)
      BY <1>1, <1>2, <3>1 DEF Arrives
    <3> QED
      BY <2>2, <3>2
  <2>3. CASE ~Concerns(Head(q), k)
    <3>1. ~Waits(q, k)
      BY <1>1, <2>1, <2>3 DEF Waits
    <3>2. Agree(copy, source)
      BY <3>1 DEF Arrives
    <3> QED
      BY <2>3, <3>2
  <2> QED
    BY <2>2, <2>3
<1>6. Arrives(r, next, copy, source, k)
  BY <1>4, <1>5, Zenon DEF Arrives
<1> QED
  BY <1>6 DEF r

\* A full queue loses an event that is not about the key.
LEMMA ArrivesDropped ==
    ASSUME NEW q \in Seq(Event), q # << >>, NEW k, NEW held, NEW copy, NEW source,
           Arrives(q, held, copy, source, k), ~Concerns(Head(q), k)
    PROVE  Arrives(Tail(q), held, copy, source, k)
<1> DEFINE r == Tail(q)
<1>1. /\ Len(q) \in Nat \ {0} /\ Head(q) = q[1] /\ Len(r) = Len(q) - 1
      /\ \A i \in 1 .. Len(r) : i + 1 \in 1 .. Len(q) /\ r[i] = q[i + 1]
  BY RestOfQueue
<1> HIDE DEF r
<1>2. \A i \in 1 .. Len(q) : i # 1 => i - 1 \in 1 .. Len(r) /\ (i - 1) + 1 = i
  BY <1>1
<1>3. ASSUME NEW i \in 1 .. Len(r), LastFor(r, i, k) PROVE LastFor(q, i + 1, k)
  <2>1. Concerns(q[i + 1], k)
    BY <1>1, <1>3 DEF LastFor
  <2>2. ASSUME NEW j \in (i + 1) + 1 .. Len(q) PROVE ~Concerns(q[j], k)
    <3>1. j - 1 \in i + 1 .. Len(r) /\ j - 1 \in 1 .. Len(r) /\ (j - 1) + 1 = j
      BY <1>1
    <3>2. r[j - 1] = q[j]
      BY <1>1, <3>1
    <3> QED
      BY <1>3, <3>1, <3>2 DEF LastFor
  <2> QED
    BY <2>1, <2>2 DEF LastFor
<1>4. \A i \in 1 .. Len(r) : LastFor(r, i, k) =>
         Made(source, r[i]) /\ (r[i].kind = "insert" => r[i].ts >= source.wall)
  BY <1>1, <1>3 DEF Arrives
<1>5. ~Waits(r, k) => ~Waits(q, k)
  BY <1>1, <1>2 DEF Waits
<1>6. Arrives(r, held, copy, source, k)
  BY <1>4, <1>5, Zenon DEF Arrives
<1> QED
  BY <1>6 DEF r

\* The queue that a publication leaves: an event on the key is the newest of it, and
\* any other leaves the key alone unless the queue lags.
LEMMA ArrivesPushed ==
    ASSUME NEW q \in Seq(Event), Len(q) <= Buffer, NEW e \in Event, NEW k, NEW held, NEW copy, NEW source,
           \/ Concerns(e, k) /\ Made(source, e) /\ (e.kind = "insert" => e.ts >= source.wall)
           \/ /\ ~Concerns(e, k) /\ Arrives(q, held, copy, source, k)
              /\ Len(q) >= Buffer => ~Concerns(Head(q), k)
    PROVE  Arrives(Pushed(q, e), held, copy, source, k)
<1>1. Len(q) \in Nat /\ Buffer \in Nat \ {0}
  BY ReplicationAssumption
<1>2. CASE Len(q) < Buffer
  <2>1. Pushed(q, e) = Append(q, e)
    BY <1>2 DEF Pushed
  <2>2. Arrives(Append(q, e), held, copy, source, k)
    BY ArrivesMore
  <2> QED
    BY <2>1, <2>2
<1>3. CASE ~(Len(q) < Buffer)
  <2> DEFINE r == Tail(q)
  <2>1. q # << >> /\ Len(q) >= Buffer
    BY <1>1, <1>3
  <2>2. r \in Seq(Event)
    BY <2>1, RestOfQueue
  <2>3. ~Concerns(e, k) => Arrives(r, held, copy, source, k)
    BY <2>1, ArrivesDropped
  <2>4. Pushed(q, e) = Append(r, e)
    BY <1>3 DEF Pushed
  <2> HIDE DEF r
  <2>5. Arrives(Append(r, e), held, copy, source, k)
    BY <2>2, <2>3, ArrivesMore
  <2> QED
    BY <2>4, <2>5
<1> QED
  BY <1>2, <1>3

\* What is published is unpublished no longer.
LEMMA PublishMade ==
    ASSUME Sound, NEW p \in Nodes, NEW k \in Keys, MadeInv(p, k), NEW s \in Tasks, Publish(s)
    PROVE  MadeInv(p, k)'
<1>1. PICK e : PublishDoes(s, e)
  BY PublishEffect
<1>2. task' = [task EXCEPT ![s] = Idle] /\ UNCHANGED <<config, cache, overlaps>>
  BY <1>1 DEF PublishDoes
<1>3. (\A x \in Tasks : x # s => task'[x] = task[x]) /\ task'[s].pc = "idle"
  BY <1>2 DEF Sound, TaskType, Idle
<1>4. \A x : NodeOf(x)' = NodeOf(x)
  BY <1>2 DEF NodeOf
<1>5. \A x \in Tasks : Holds(x, p, k)' => Holds(x, p, k) /\ task'[x].ev = task[x].ev
  BY <1>3, <1>4 DEF Holds
<1> QED
  BY <1>2, <1>5, MadeStill

\* A change is published: what the source held is now the newest in the queue.
LEMMA PublishFollows ==
    ASSUME Sound, NEW n \in Nodes, NEW p \in Nodes, NEW k \in Keys, n # p, Follows(n, p),
           InStep(n, p, k)', InStep(n, p, k) => Pipeline(n, p, k), MadeInv(p, k),
           NEW s \in Tasks, Publish(s)
    PROVE  Pipeline(n, p, k)'
<1> DEFINE t == <<"recv", n, p>>
           q == chan[t].queue
<1>1. /\ t \in Tasks /\ t \in Receivers /\ NodeOf(t) = n /\ t[3] = p
  BY TheReceiver
<1>2. PICK e : PublishDoes(s, e)
  BY PublishEffect
<1>3. /\ task[s].pc = "stored" /\ task' = [task EXCEPT ![s] = Idle]
      /\ UNCHANGED <<config, now, ops, cache, state, snap, overlaps>>
  BY <1>2 DEF PublishDoes
<1>4. /\ \A x \in Tasks : x # s => task'[x] = task[x]
      /\ task'[s].pc = "idle"
  BY <1>3 DEF Sound, TaskType, Idle
<1>5. \A x : NodeOf(x)' = NodeOf(x)
  BY <1>3 DEF NodeOf
<1>6. <<p, k>> \notin overlaps /\ <<t, k>> \notin missed'
  BY <1>3 DEF InStep, ToldOf
<1>7. IF NodeOf(s) = p /\ Concerns(e, k) THEN chan[t].open
      ELSE <<t, k>> \notin missed /\ (NodeOf(s) = p => ~Lags(t, k))
  BY <1>1, <1>2, <1>6 DEF PublishDoes
<1>8. ~(NodeOf(s) = p /\ Concerns(e, k)) => Pipeline(n, p, k)
  BY <1>6, <1>7 DEF InStep, ToldOf
<1>9. CASE NodeOf(s) # p
  <2>1. chan'[t] = chan[t]
    BY <1>1, <1>2, <1>9 DEF PublishDoes
  <2>2. StillWith(n, p, k)
    BY <1>1, <1>3, <1>4, <1>9, <2>1 DEF StillWith
  <2> QED
    BY <1>8, <1>9, <2>2, PipelineStill
<1>10. CASE NodeOf(s) = p
  <2>1. q \in Seq(Event) /\ Len(q) <= Buffer
    BY <1>1 DEF Sound, ChanType
  <2>2. /\ e \in Event /\ e.kind = task[s].ev.kind /\ (e.kind = "insert" => e.val = task[s].ev.val)
        /\ e.ts = now /\ (Concerns(e, k) <=> Concerns(task[s].ev, k))
    BY <1>2 DEF PublishDoes
  <2>3. chan'[t].queue = IF chan[t].open THEN Pushed(q, e) ELSE q
    <3>1. chan'[t] = IF chan[t].open THEN [open |-> TRUE, queue |-> Pushed(q, e)] ELSE chan[t]
      BY <1>1, <1>2, <1>10 DEF PublishDoes
    <3> DEFINE r == Pushed(q, e)
    <3> HIDE DEF r
    <3>2. chan'[t] = IF chan[t].open THEN [open |-> TRUE, queue |-> r] ELSE chan[t]
      BY <3>1 DEF r
    <3>3. chan'[t].queue = IF chan[t].open THEN r ELSE q
      BY <3>2
    <3> QED
      BY <3>3 DEF r
  <2>4. s # t /\ task'[t] = task[t]
    BY <1>1, <1>4, <1>10
  <2>5. \A x \in Tasks : x # s /\ Holds(x, p, k) => Holds(x, p, k)'
    BY <1>4, <1>5 DEF Holds
  <2>6. CASE Concerns(e, k)
    <3>1. Holds(s, p, k)
      BY <1>3, <1>10, <2>2, <2>6 DEF Holds
    <3>2. Made(cache[p][k], task[s].ev)
      BY <1>6, <3>1 DEF MadeInv
    <3>3. Made(cache[p][k], e)
      BY <2>2, <3>2 DEF Made
    <3>4. e.ts >= cache[p][k].wall
      <4>1. /\ now \in Nat /\ cache[p][k].wall <= now /\ cache[p][k] \in Slot
        BY ReplicationAssumption DEF Sound, StateType, Past
      <4>2. cache[p][k].wall \in Nat
        BY <4>1, ReplicationAssumption DEF Slot, Absent
      <4> QED
        BY <2>2, <4>1, <4>2
    <3>5. Arrives(Pushed(q, e), task[t], cache[n][k], cache[p][k], k)
      <4> HIDE DEF q, t
      <4> QED
        BY <2>1, <2>2, <2>6, <3>3, <3>4, ArrivesPushed
    <3>6. chan'[t].queue = Pushed(q, e)
      BY <1>7, <1>10, <2>3, <2>6
    <3> HIDE DEF q
    <3> QED
      BY <1>3, <2>4, <3>5, <3>6 DEF Pipeline
  <2>7. CASE ~Concerns(e, k)
    <3>1. ~Holds(s, p, k)
      BY <2>2, <2>7 DEF Holds
    <3>2. ASSUME ~Unpublished(p, k)' PROVE Arrives(q, task[t], cache[n][k], cache[p][k], k)
      <4>1. ~Unpublished(p, k)
        BY <2>5, <3>1, <3>2 DEF Unpublished
      <4> QED
        BY <1>8, <2>7, <4>1 DEF Pipeline
    <3>3. CASE chan[t].open
      <4>1. chan'[t].queue = Pushed(q, e)
        BY <2>3, <3>3
      <4>2. Len(q) >= Buffer => ~Concerns(Head(q), k)
        BY <1>7, <1>10, <2>7, <3>3 DEF Lags
      <4>3. ~Unpublished(p, k)' => Arrives(Pushed(q, e), task[t], cache[n][k], cache[p][k], k)
        <5> HIDE DEF q, t
        <5> QED
          BY <2>1, <2>2, <2>7, <3>2, <4>2, ArrivesPushed
      <4> HIDE DEF q
      <4> QED
        BY <1>3, <2>4, <4>1, <4>3 DEF Pipeline
    <3>4. CASE ~chan[t].open
      <4>1. chan'[t].queue = q
        BY <2>3, <3>4
      <4> HIDE DEF q
      <4> QED
        BY <1>3, <2>4, <3>2, <4>1 DEF Pipeline
    <3> QED
      BY <3>3, <3>4
  <2> QED
    BY <2>6, <2>7
<1> QED
  BY <1>9, <1>10

\* An event from the source that is not applied is older than the follower's entry.
LEMMA DroppedIsStale ==
    ASSUME NEW n, NEW ev, ev.origin # n, ev.exp = 0, Deduplicate(n, ev) # "Apply"
    PROVE  ev.kind = "insert" /\ cache[n][ev.key] # Absent /\ cache[n][ev.key].wall >= ev.ts
BY DEF Deduplicate

\* The receiver takes the next event: it holds it now, or its copy is as good.
LEMMA ReceiveFollows ==
    ASSUME Sound, NEW n \in Nodes, NEW p \in Nodes, NEW k \in Keys, n # p, Follows(n, p),
           Pipeline(n, p, k), NEW s \in Receivers, Receive(s)
    PROVE  Pipeline(n, p, k)'
<1> DEFINE t == <<"recv", n, p>>
           q == chan[t].queue
           ev == Head(q)
<1>1. /\ t \in Tasks /\ t \in Receivers /\ s \in Tasks /\ NodeOf(t) = n /\ t[2] = n /\ t[3] = p
  BY TheReceiver DEF Tasks
<1>2. ReceiveDoes(s)
  BY ReceiveEffect
<1>3. /\ task[s] = Idle /\ task[s].pc = "idle" /\ IsChange(Head(chan[s].queue))
      /\ task' = [task EXCEPT ![s] = Judged(s[2], Head(chan[s].queue))]
      /\ UNCHANGED <<config, now, ops, cache, state, snap, missed, overlaps>>
  BY <1>2 DEF ReceiveDoes, Idle
<1>4. /\ \A x \in Tasks : x # s => task'[x] = task[x]
      /\ task'[s] = Judged(s[2], Head(chan[s].queue))
  BY <1>1, <1>3 DEF Sound, TaskType
<1>5. /\ \/ task'[s] = Idle
         \/ task'[s].pc = "judged" /\ task'[s].ev = Head(chan[s].queue)
      /\ task'[s] = Idle <=> Deduplicate(s[2], Head(chan[s].queue)) # "Apply"
  BY <1>3, <1>4, JudgedTask
<1>6. task'[s].pc # "stored"
  BY <1>5 DEF Idle
<1>7. \A x : NodeOf(x)' = NodeOf(x)
  BY <1>3 DEF NodeOf
<1>8. CASE s # t
  <2>1. chan'[t] = chan[t] /\ task'[t] = task[t]
    BY <1>1, <1>2, <1>4, <1>8 DEF ReceiveDoes
  <2>2. StillWith(n, p, k)
    BY <1>3, <1>4, <1>6, <2>1 DEF StillWith
  <2> QED
    BY <2>2, PipelineStill
<1>9. CASE s = t
  <2>1. /\ q # << >> /\ q \in Seq(Event) /\ IsChange(ev) /\ ev.origin = p /\ chan'[t].queue = Tail(q)
    BY <1>1, <1>2, <1>9 DEF ReceiveDoes
  <2>2. ev \in Event
    BY <2>1, RestOfQueue
  <2>3. ev.exp = 0 /\ ev.origin # n
    BY <1>1, <2>1, <2>2 DEF Event
  <2>4. \A x \in Tasks : /\ Holds(x, p, k)' <=> Holds(x, p, k)
                         /\ Holds(x, p, k) => task'[x].ev = task[x].ev
    BY <1>3, <1>4, <1>6, <1>7 DEF Holds
  <2>5. Unpublished(p, k)' <=> Unpublished(p, k)
    BY <2>4 DEF Unpublished
  <2>7. \/ task'[t].pc = "judged" /\ task'[t].ev = ev
        \/ /\ task'[t].pc # "judged"
           /\ /\ Concerns(ev, k) /\ Made(cache[p][k], ev)
              /\ ev.kind = "insert" => ev.ts >= cache[p][k].wall
              => Agree(cache[n][k], cache[p][k])
    <3>1. CASE task'[t] = Idle
      <4>1. Deduplicate(n, ev) # "Apply"
        BY <1>1, <1>5, <1>9, <3>1
      <4>2. ev.kind = "insert" /\ cache[n][ev.key] # Absent /\ cache[n][ev.key].wall >= ev.ts
        BY <2>3, <4>1, DroppedIsStale
      <4>3. ASSUME Concerns(ev, k), Made(cache[p][k], ev), ev.ts >= cache[p][k].wall
            PROVE  Agree(cache[n][k], cache[p][k])
        <5>1. ev.key = k /\ cache[p][k] # Absent /\ cache[n][k] # Absent /\ cache[n][k].wall >= ev.ts
          BY <4>2, <4>3 DEF Concerns, Made
        <5>2. \A x \in Slot : x.wall \in Nat
          BY ReplicationAssumption DEF Slot, Absent
        <5>3. cache[n][k].wall \in Nat /\ cache[p][k].wall \in Nat
          BY <5>2 DEF Sound, StateType
        <5>4. ev.ts \in Nat
          <6>1. ev.ts \in 1 .. MaxClock
            BY <2>2 DEF Event
          <6> QED
            BY <6>1, ReplicationAssumption
        <5>5. cache[n][k].wall >= cache[p][k].wall
          BY <4>3, <5>1, <5>3, <5>4
        <5> QED
          BY <5>1, <5>5 DEF Agree
      <4>4. task'[t].pc # "judged"
        BY <3>1 DEF Idle
      <4> QED
        BY <4>2, <4>3, <4>4
    <3>2. CASE task'[t].pc = "judged" /\ task'[t].ev = ev
      BY <3>2
    <3> QED
      BY <1>5, <1>9, <3>1, <3>2
  <2>8. ASSUME ~Unpublished(p, k)
        PROVE  Arrives(Tail(q), task'[t], cache[n][k], cache[p][k], k)
    <3>1. Arrives(q, task[t], cache[n][k], cache[p][k], k) /\ task[t].pc # "judged"
      BY <1>3, <1>9, <2>8 DEF Pipeline
    <3> HIDE DEF q, t
    <3> QED
      BY <2>1, <2>7, <3>1, ArrivesLess
  <2>9. ~Unpublished(p, k)' => Arrives(chan'[t].queue, task'[t], cache'[n][k], cache'[p][k], k)
    <3> HIDE DEF q, t
    <3> QED
      BY <1>3, <2>1, <2>5, <2>8
  <2> QED
    BY <2>9 DEF Pipeline
<1> QED
  BY <1>8, <1>9

\* A step that leaves a source's own tasks where they are, or takes them out of sight,
\* and no key of it changed.
LEMMA OthersMade ==
    ASSUME NEW p \in Nodes, NEW k \in Keys, MadeInv(p, k), config' = config,
           cache'[p][k] = cache[p][k], overlaps \subseteq overlaps',
           \A s \in Tasks : task'[s] = task[s] \/ task'[s].pc # "stored"
    PROVE  MadeInv(p, k)'
<1>1. \A s : NodeOf(s)' = NodeOf(s)
  BY DEF NodeOf
<1>2. \A s \in Tasks : Holds(s, p, k)' => Holds(s, p, k) /\ task'[s].ev = task[s].ev
  BY <1>1 DEF Holds
<1> QED
  BY <1>2, MadeStill

\* An evicted entry takes the place of what an unpublished change had made of the key.
LEMMA EvictMade ==
    ASSUME Sound, NEW p \in Nodes, NEW k \in Keys, MadeInv(p, k),
           NEW m \in Nodes, NEW x \in Keys, Evict(m, x)
    PROVE  MadeInv(p, k)'
<1>1. /\ cache' = [cache EXCEPT ![m][x] = Absent] /\ UNCHANGED <<config, task>>
      /\ overlaps' = IF Unpublished(m, x) THEN overlaps \cup {<<m, x>>} ELSE overlaps
  BY DEF Evict
<1>2. CASE p = m /\ k = x
  <2> SUFFICES ASSUME <<p, k>> \notin overlaps', NEW s \in Tasks, Holds(s, p, k)' PROVE FALSE
    BY DEF MadeInv
  <2>1. ~Unpublished(p, k)
    BY <1>1, <1>2
  <2>2. Holds(s, p, k)
    BY <1>1 DEF Holds, NodeOf
  <2> QED
    BY <2>1, <2>2 DEF Unpublished
<1>3. CASE ~(p = m /\ k = x)
  <2>1. cache'[p][k] = cache[p][k]
    BY <1>1, <1>3 DEF Sound, StateType
  <2>2. overlaps \subseteq overlaps'
    BY <1>1
  <2> QED
    BY <1>1, <2>1, <2>2, OthersMade
<1> QED
  BY <1>2, <1>3

\* A node that is started again holds nothing back.
LEMMA RestartMade ==
    ASSUME Sound, NEW p \in Nodes, NEW k \in Keys, MadeInv(p, k),
           NEW m \in Nodes, NEW kept \in SUBSET Keys, Restart(m, kept)
    PROVE  MadeInv(p, k)'
<1>1. /\ cache' = [cache EXCEPT ![m] = [x \in Keys |-> IF x \in kept THEN cache[m][x] ELSE Absent]]
      /\ task' = [s \in Tasks |-> IF NodeOf(s) = m THEN Idle ELSE task[s]]
      /\ UNCHANGED <<config, overlaps>>
  BY DEF Restart
<1>2. Idle.pc # "stored" /\ \A s : NodeOf(s)' = NodeOf(s)
  BY <1>1 DEF Idle, NodeOf
<1>3. CASE p = m
  <2>1. \A s \in Tasks : ~Holds(s, p, k)'
    BY <1>1, <1>2, <1>3 DEF Holds
  <2> QED
    BY <2>1 DEF MadeInv
<1>4. CASE p # m
  <2>1. cache'[p] = cache[p]
    BY <1>1, <1>4 DEF Sound, StateType
  <2>2. \A s \in Tasks : task'[s] = task[s] \/ task'[s].pc # "stored"
    BY <1>1, <1>2
  <2> QED
    BY <1>1, <2>1, <2>2, OthersMade
<1> QED
  BY <1>3, <1>4

\* Every step keeps what is unpublished true to the source's entries.
LEMMA MadeStep ==
    ASSUME Sound, [Next]_vars, NEW p \in Nodes, NEW k \in Keys, MadeInv(p, k)
    PROVE  MadeInv(p, k)'
<1>1. ASSUME NEW s \in Clients, Local(s) PROVE MadeInv(p, k)'
  <2>1. PICK ev : IsChange(ev) /\ Store(s, ev) /\ config' = config
    BY <1>1, ClientChange
  <2> QED
    BY <2>1, StoreMade DEF Tasks
<1>2. ASSUME NEW s \in Tasks, Publish(s) PROVE MadeInv(p, k)'
  BY <1>2, PublishMade
<1>3. ASSUME NEW s \in Tasks, Apply(s) PROVE MadeInv(p, k)'
  <2>1. IsChange(task[s].ev) /\ Store(s, task[s].ev) /\ config' = config
    BY <1>3, ApplyChange
  <2> QED
    BY <2>1, StoreMade
<1>4. ASSUME NEW s \in Receivers, Receive(s) PROVE MadeInv(p, k)'
  <2>1. /\ UNCHANGED <<config, cache, overlaps>> /\ IsChange(Head(chan[s].queue))
        /\ task' = [task EXCEPT ![s] = Judged(s[2], Head(chan[s].queue))]
    BY <1>4, ReceiveEffect DEF ReceiveDoes
  <2>2. Judged(s[2], Head(chan[s].queue)).pc # "stored"
    BY <2>1, JudgedTask DEF Idle
  <2>3. \A x \in Tasks : task'[x] = task[x] \/ task'[x].pc # "stored"
    BY <2>1, <2>2 DEF Sound, TaskType
  <2> QED
    BY <2>1, <2>3, OthersMade
<1>5. ASSUME NEW s \in Receivers, Connect(s) \/ Disconnect(s) PROVE MadeInv(p, k)'
  BY <1>5, OthersMade DEF Connect, Disconnect
<1>6. ASSUME NEW m \in Nodes, Snapshot(m) \/ SnapshotFail(m) PROVE MadeInv(p, k)'
  <2>1. UNCHANGED <<config, cache, overlaps>>
    BY <1>6 DEF Snapshot, SnapshotFail, SnapshotList, SnapshotStamp, SnapshotReceive, SnapshotParity, SnapshotGiveUp
  <2>2. CASE SnapshotReceive(m)
    <3>1. PICK ev : task' = [task EXCEPT ![<<"snap", m>>] = Judged(m, ev)]
      BY <2>2 DEF SnapshotReceive
    <3>2. Judged(m, ev).pc # "stored"
      BY DEF Judged, Idle
    <3>3. \A x \in Tasks : task'[x] = task[x] \/ task'[x].pc # "stored"
      BY <3>1, <3>2 DEF Sound, TaskType
    <3> QED
      BY <2>1, <3>3, OthersMade
  <2>3. CASE ~SnapshotReceive(m)
    <3>1. task' = task
      BY <1>6, <2>3 DEF Snapshot, SnapshotFail, SnapshotList, SnapshotStamp, SnapshotParity, SnapshotGiveUp
    <3> QED
      BY <2>1, <3>1, OthersMade
  <2> QED
    BY <2>2, <2>3
<1>7. ASSUME NEW m \in Nodes, NEW x \in Keys, Evict(m, x) PROVE MadeInv(p, k)'
  BY <1>7, EvictMade
<1>8. ASSUME NEW m \in Nodes, NEW kept \in SUBSET Keys, Restart(m, kept) PROVE MadeInv(p, k)'
  BY <1>8, RestartMade
<1>9. CASE Tick \/ UNCHANGED vars
  BY <1>9, OthersMade DEF Tick, vars
<1> QED
  BY <1>1, <1>2, <1>3, <1>4, <1>5, <1>6, <1>7, <1>8, <1>9 DEF Next, Move, Stream

\* Every step after which a follower is in step leaves the pipeline as it should be: a
\* change of the key brings it back in step, and no other step does.
LEMMA FollowStep == Sound /\ FollowInv /\ [Next]_vars => FollowInv'
<1> SUFFICES ASSUME Sound, FollowInv, [Next]_vars, NEW n \in Nodes, NEW p \in Nodes, NEW k \in Keys,
                    InStep(n, p, k)'
             PROVE  Pipeline(n, p, k)'
  BY MadeStep DEF FollowInv
<1> DEFINE t == <<"recv", n, p>>
<1>0. config' = config
  BY DEF Next, vars, Local, ClientOp, Move, Publish, Apply, Stream, Connect, Receive, Disconnect, Snapshot,
         SnapshotFail, SnapshotList, SnapshotStamp, SnapshotReceive, SnapshotParity, SnapshotGiveUp,
         Evict, Restart, Tick
<1>1. n # p /\ Follows(n, p) /\ <<t, k>> \notin missed' /\ <<p, k>> \notin overlaps'
  BY <1>0 DEF InStep, ToldOf, Follows
<1>2. MadeInv(p, k) /\ (InStep(n, p, k) => Pipeline(n, p, k)) /\ ~config.snapshot
  BY <1>1 DEF FollowInv, Follows
<1>10. t \in Receivers /\ t \in Tasks /\ t[2] = n /\ t[3] = p /\ NodeOf(t) = n
  BY <1>1, TheReceiver
<1>11. ASSUME missed \subseteq missed', overlaps \subseteq overlaps'
       PROVE  Pipeline(n, p, k)
  BY <1>1, <1>2, <1>11 DEF InStep, ToldOf
<1>3. ASSUME NEW s \in Clients, Local(s) PROVE Pipeline(n, p, k)'
  <2>1. PICK ev : /\ IsChange(ev) /\ task[s] = Idle /\ Store(s, ev)
                  /\ UNCHANGED <<config, now, chan, state, snap, missed>>
    BY <1>3, ClientChange
  <2>2. s \in Tasks /\ NodeOf(s) # n /\ task[s].pc # "stored"
    <3>1. s[1] = "client" /\ s[2] \in Writers
      BY DEF Clients
    <3> QED
      BY <1>1, <2>1, <3>1 DEF Tasks, NodeOf, Follows, Idle
  <2> QED
    BY <1>1, <1>2, <2>1, <2>2, StoreFollows
<1>4. ASSUME NEW s \in Tasks, Publish(s) PROVE Pipeline(n, p, k)'
  BY <1>1, <1>2, <1>4, PublishFollows
<1>5. ASSUME NEW s \in Tasks, Apply(s) PROVE Pipeline(n, p, k)'
  <2>1. /\ task[s].pc = "judged" /\ IsChange(task[s].ev) /\ Store(s, task[s].ev)
        /\ UNCHANGED <<config, now, ops, chan, state, snap, missed>>
    BY <1>5, ApplyChange
  <2> QED
    BY <1>1, <1>2, <2>1, StoreFollows
<1>6. ASSUME NEW s \in Receivers, Receive(s) PROVE Pipeline(n, p, k)'
  <2>1. UNCHANGED <<missed, overlaps>>
    BY <1>6 DEF Receive
  <2> QED
    BY <1>1, <1>6, <1>11, <2>1, ReceiveFollows
<1>7. ASSUME NEW s \in Receivers, Connect(s) \/ Disconnect(s) PROVE Pipeline(n, p, k)'
  <2>1. /\ UNCHANGED <<config, cache, task, overlaps>> /\ missed \subseteq missed'
        /\ chan' = [chan EXCEPT ![s] = [open |-> chan'[s].open, queue |-> << >>]]
    <3>1. chan \in [Receivers -> [open : BOOLEAN, queue : Seq(Event)]]
      BY DEF Sound, ChanType
    <3> QED
      BY <1>7, <3>1 DEF Connect, Disconnect
  <2>2. Pipeline(n, p, k)
    BY <1>11, <2>1
  <2>3. CASE s # t
    <3>1. chan'[t] = chan[t]
      BY <1>10, <2>1, <2>3 DEF Sound, ChanType
    <3>2. StillWith(n, p, k)
      BY <2>1, <3>1 DEF StillWith
    <3> QED
      BY <2>2, <3>2, PipelineStill
  <2>4. CASE s = t
    <3>1. chan'[t].queue = << >>
      BY <1>10, <2>1, <2>4 DEF Sound, ChanType
    <3>2. ~Waits(chan[t].queue, k)
      <4>1. CASE Connect(s)
        <5>1. chan[t].queue = << >>
          BY <1>10, <2>4, <4>1 DEF Connect, Sound, Wired
        <5> QED
          BY <5>1 DEF Waits
      <4>2. CASE Disconnect(s)
        <5>1. missed' = missed \cup {<<t, y>> : y \in {x \in Keys :
                           \E i \in 1 .. Len(chan[t].queue) : Concerns(chan[t].queue[i], x)}}
          BY <2>4, <4>2 DEF Disconnect
        <5> QED
          BY <1>1, <5>1 DEF Waits
      <4> QED
        BY <1>7, <4>1, <4>2
    <3>3. Unpublished(p, k)' <=> Unpublished(p, k)
      BY <2>1 DEF Unpublished, Holds, NodeOf
    <3>4. ~Waits(<< >>, k)
      BY DEF Waits
    <3>5. ASSUME Arrives(chan[t].queue, task[t], cache[n][k], cache[p][k], k)
          PROVE  Arrives(<< >>, task[t], cache[n][k], cache[p][k], k)
      <4>1. \A i \in 1 .. Len(<< >>) : FALSE
        OBVIOUS
      <4> HIDE DEF t
      <4> QED
        BY <3>2, <3>4, <3>5, <4>1, Zenon DEF Arrives
    <3> HIDE DEF t
    <3>6. ~Unpublished(p, k)' => Arrives(chan'[t].queue, task'[t], cache'[n][k], cache'[p][k], k)
      BY <2>1, <2>2, <3>1, <3>3, <3>5 DEF Pipeline, t
    <3> QED
      BY <3>6 DEF Pipeline, t
  <2> QED
    BY <2>3, <2>4
<1>8. ASSUME NEW m \in Nodes, Snapshot(m) \/ SnapshotFail(m) PROVE FALSE
  <2>1. snap[m].pc # "done"
    BY <1>8 DEF Snapshot, SnapshotFail, SnapshotList, SnapshotStamp, SnapshotReceive, SnapshotParity, SnapshotGiveUp
  <2> QED
    BY <1>2, <2>1 DEF Sound, Wired
<1>9. ASSUME NEW m \in Nodes, NEW x \in Keys, Evict(m, x) PROVE Pipeline(n, p, k)'
  <2>1. /\ cache' = [cache EXCEPT ![m][x] = Absent]
        /\ missed' = missed \cup (EndsAt(m) \X {x})
        /\ UNCHANGED <<config, task, chan>> /\ overlaps \subseteq overlaps'
    BY <1>9 DEF Evict
  <2>2. Pipeline(n, p, k)
    BY <1>11, <2>1
  <2>3. ~(m \in {n, p} /\ x = k)
    BY <1>1, <1>10, <2>1 DEF EndsAt
  <2>4. cache'[n][k] = cache[n][k] /\ cache'[p][k] = cache[p][k]
    BY <2>1, <2>3 DEF Sound, StateType
  <2>5. StillWith(n, p, k)
    BY <2>1, <2>4 DEF StillWith
  <2> QED
    BY <2>2, <2>5, PipelineStill
<1>12. ASSUME NEW m \in Nodes, NEW kept \in SUBSET Keys, Restart(m, kept) PROVE Pipeline(n, p, k)'
  <2>1. /\ cache' = [cache EXCEPT ![m] = [x \in Keys |-> IF x \in kept THEN cache[m][x] ELSE Absent]]
        /\ task' = [s \in Tasks |-> IF NodeOf(s) = m THEN Idle ELSE task[s]]
        /\ chan' = [s \in Receivers |->
                      IF s \in EndsAt(m) THEN [open |-> FALSE, queue |-> << >>] ELSE chan[s]]
        /\ missed' = missed \cup (EndsAt(m) \X Keys)
        /\ UNCHANGED <<config, overlaps>>
    BY <1>12 DEF Restart
  <2>2. Pipeline(n, p, k)
    BY <1>11, <2>1
  <2>3. m \notin {n, p} /\ t \notin EndsAt(m)
    BY <1>1, <1>10, <2>1 DEF EndsAt
  <2>4. cache'[n] = cache[n] /\ cache'[p] = cache[p]
    BY <2>1, <2>3 DEF Sound, StateType
  <2>5. chan'[t] = chan[t] /\ task'[t] = task[t] /\ \A s \in Tasks : NodeOf(s) = p => task'[s] = task[s]
    BY <1>10, <2>1, <2>3
  <2>6. StillWith(n, p, k)
    BY <2>1, <2>4, <2>5 DEF StillWith
  <2> QED
    BY <2>2, <2>6, PipelineStill
<1>13. CASE Tick \/ UNCHANGED vars
  <2>1. UNCHANGED <<config, cache, task, chan, missed, overlaps>>
    BY <1>13 DEF Tick, vars
  <2>2. StillWith(n, p, k)
    BY <2>1 DEF StillWith
  <2> QED
    BY <1>11, <2>1, <2>2, PipelineStill
<1> QED
  BY <1>3, <1>4, <1>5, <1>6, <1>7, <1>8, <1>9, <1>12, <1>13 DEF Next, Move, Stream

\* At the start nobody has anything, and nothing is on the way.
LEMMA FollowInit == Init => FollowInv
<1> SUFFICES ASSUME Init, NEW n \in Nodes, NEW p \in Nodes, NEW k \in Keys
             PROVE  MadeInv(p, k) /\ Pipeline(n, p, k)
  BY DEF FollowInv
<1> DEFINE t == <<"recv", n, p>>
<1>1. config \in Configs
  BY DEF Init
<1>2. t \in Receivers /\ t \in Tasks
  BY <1>1, TaskParts DEF Tasks
<1>3. \A s \in Tasks : task[s].pc = "idle"
  BY DEF Init, Idle
<1>4. chan[t].queue = << >> /\ cache[n][k] = Absent /\ cache[p][k] = Absent
  BY <1>2 DEF Init
<1>5. \A s \in Tasks : ~Holds(s, p, k)
  BY <1>3 DEF Holds
<1>6. task[t].pc # "judged"
  BY <1>2, <1>3
<1>7. Arrives(chan[t].queue, task[t], cache[n][k], cache[p][k], k)
  <2> HIDE DEF t
  <2> QED
    BY <1>4, <1>6 DEF Arrives, Agree
<1> QED
  BY <1>5, <1>7 DEF Pipeline, MadeInv

\* With nothing on the way, the pipeline says that the entries agree.
LEMMA QuietAgrees ==
    ASSUME Sound, FollowInv, NEW n \in Nodes, NEW p \in Nodes, NEW k \in Keys,
           Follows(n, p), Quiet(n, p), ToldOf(n, p, k)
    PROVE  Agree(cache[n][k], cache[p][k])
<1> DEFINE t == <<"recv", n, p>>
<1>1. CASE n = p
  BY <1>1 DEF Agree
<1>2. CASE n # p
  <2>1. InStep(n, p, k)
    BY <1>2 DEF InStep
  <2>2. Pipeline(n, p, k) /\ t \in Tasks /\ NodeOf(t) = n
    BY <1>2, <2>1, TheReceiver DEF FollowInv
  <2>3. \A s \in Tasks : NodeOf(s) \in {n, p} => task[s].pc = "idle"
    BY DEF Quiet, Idle
  <2>4. ~Unpublished(p, k)
    BY <2>3 DEF Unpublished, Holds
  <2>5. Arrives(chan[t].queue, task[t], cache[n][k], cache[p][k], k)
    BY <2>2, <2>4 DEF Pipeline
  <2>6. chan[t].queue = << >> /\ task[t].pc # "judged"
    BY <2>2, <2>3 DEF Quiet
  <2>7. ~Waits(chan[t].queue, k)
    BY <2>6 DEF Waits
  <2> HIDE DEF t
  <2> QED
    BY <2>5, <2>6, <2>7 DEF Arrives
<1> QED
  BY <1>1, <1>2

\* In any wiring of any number of nodes, and through lost events, evictions and
\* restarts: a follower that has received everything and the node it follows hold the
\* same of the keys whose last change it was told of.
THEOREM FollowersAgree == Spec => []FollowerKeysAgree
<1>1. Sound /\ FollowInv => FollowerKeysAgree
  BY QuietAgrees DEF FollowerKeysAgree, Agree
<1> QED
  BY <1>1, SoundInit, SoundStep, FollowInit, FollowStep, PTL DEF Spec

\* It has the latest values too, but for those that deduplicate took for stale.
THEOREM FollowersCatchUp == Spec => []FollowerCatchesUp
<1>1. Sound /\ FollowInv => FollowerCatchesUp
  BY QuietAgrees DEF FollowerCatchesUp, Agree
<1> QED
  BY <1>1, SoundInit, SoundStep, FollowInit, FollowStep, PTL DEF Spec
=============================================================================
