------------------------ MODULE ConnectionPoolProofs ------------------------
(***************************************************************************)
(* What ConnectionPool satisfies for every number of requests, permits and *)
(* queue places.                                                           *)
(***************************************************************************)
EXTENDS ConnectionPool, FiniteSetTheorems, SequenceTheorems, TLAPS

PoolInv == TypeOK /\ PermitsConserved /\ ActiveIsHeld

\* Marking a dropped receiver's entry keeps the queue and its length.
LEMMA AbandonedType ==
    ASSUME queue \in Seq(Entries), NEW c \in Clients
    PROVE  Abandoned(c) \in Seq(Entries) /\ Len(Abandoned(c)) = Len(queue)
<1>1. Len(queue) \in Nat /\ \A i \in 1 .. Len(queue) : queue[i] \in Entries
  OBVIOUS
<1>2. \A i \in 1 .. Len(queue) : Abandoned(c)[i] \in Entries
  BY <1>1 DEF Abandoned, Entries, Live
<1>3. Abandoned(c) \in [1 .. Len(queue) -> Entries]
  BY <1>2 DEF Abandoned
<1> QED
  BY <1>1, <1>3

\* What a queue loses at its head leaves a queue no longer than it was.
LEMMA PoppedType ==
    ASSUME queue \in Seq(Entries), NEW n \in 0 .. Len(queue)
    PROVE  /\ SubSeq(queue, n + 1, Len(queue)) \in Seq(Entries)
           /\ Len(SubSeq(queue, n + 1, Len(queue))) <= Len(queue)
<1>1. Len(queue) \in Nat
  OBVIOUS
<1> QED
  BY <1>1, SubSeqProperties

\* The size of a set of requests when one of them joins or leaves it.
LEMMA Sizes ==
    ASSUME NEW S \in SUBSET Clients, NEW c \in Clients
    PROVE  /\ Cardinality(S) \in Nat
           /\ Cardinality(S \cup {c}) = IF c \in S THEN Cardinality(S) ELSE Cardinality(S) + 1
           /\ Cardinality(S \ {c}) = IF c \in S THEN Cardinality(S) - 1 ELSE Cardinality(S)
<1>1. IsFiniteSet(S)
  BY PoolAssumption, FS_Subset
<1> QED
  BY <1>1, FS_CardinalityType, FS_AddElement, FS_RemoveElement

\* The types are preserved by every step of acquire and of a guard's drop; that free
\* and active stay in range needs the two counting invariants.
LEMMA PoolStep == PoolInv /\ [Next]_vars => PoolInv'
<1> SUFFICES ASSUME PoolInv, [Next]_vars PROVE PoolInv'
  OBVIOUS
<1> USE PoolAssumption DEF PoolInv, TypeOK, At, Goto
<1>0. Len(queue) \in Nat
  OBVIOUS
<1>1. ASSUME NEW c \in Clients, NEW p \in Places, pc' = [pc EXCEPT ![c] = p]
      PROVE  /\ pc' \in [Clients -> Places]
             /\ Cardinality(Holders) \in Nat /\ Cardinality(Counted) \in Nat
             /\ Cardinality(Holders') \in Nat /\ Cardinality(Counted') \in Nat
             /\ (pc[c] \in Holding <=> p \in Holding) => Cardinality(Holders') = Cardinality(Holders)
             /\ pc[c] \notin Holding /\ p \in Holding => Cardinality(Holders') = Cardinality(Holders) + 1
             /\ pc[c] \in Holding /\ p \notin Holding => Cardinality(Holders') = Cardinality(Holders) - 1
             /\ (pc[c] = "holding" <=> p = "holding") => Cardinality(Counted') = Cardinality(Counted)
             /\ pc[c] # "holding" /\ p = "holding" => Cardinality(Counted') = Cardinality(Counted) + 1
             /\ pc[c] = "holding" /\ p # "holding" => Cardinality(Counted') = Cardinality(Counted) - 1
  <2>1. pc \in [Clients -> Places] /\ pc' \in [Clients -> Places]
    BY <1>1
  <2>2. /\ Holders \in SUBSET Clients /\ (c \in Holders <=> pc[c] \in Holding)
        /\ Holders' = IF p \in Holding THEN Holders \cup {c} ELSE Holders \ {c}
    BY <1>1, <2>1 DEF Holders
  <2>3. /\ Counted \in SUBSET Clients /\ (c \in Counted <=> pc[c] = "holding")
        /\ Counted' = IF p = "holding" THEN Counted \cup {c} ELSE Counted \ {c}
    BY <1>1, <2>1 DEF Counted
  <2>4. /\ Cardinality(Holders) \in Nat
        /\ Cardinality(Holders \cup {c}) = IF c \in Holders THEN Cardinality(Holders) ELSE Cardinality(Holders) + 1
        /\ Cardinality(Holders \ {c}) = IF c \in Holders THEN Cardinality(Holders) - 1 ELSE Cardinality(Holders)
    BY <2>2, Sizes
  <2>5. /\ Cardinality(Counted) \in Nat
        /\ Cardinality(Counted \cup {c}) = IF c \in Counted THEN Cardinality(Counted) ELSE Cardinality(Counted) + 1
        /\ Cardinality(Counted \ {c}) = IF c \in Counted THEN Cardinality(Counted) - 1 ELSE Cardinality(Counted)
    BY <2>3, Sizes
  <2>6. Cardinality(Holders') \in Nat /\ Cardinality(Counted') \in Nat
    <3>1. Holders' \in SUBSET Clients /\ Counted' \in SUBSET Clients
      BY DEF Holders, Counted
    <3> QED
      BY <3>1, Sizes
  <2> QED
    BY <2>1, <2>2, <2>3, <2>4, <2>5, <2>6
<1>2. ASSUME NEW c \in Clients, pc' = pc PROVE Holders' = Holders /\ Counted' = Counted
  BY <1>2 DEF Holders, Counted
<1>3. ASSUME NEW c \in Clients, TryAcquire(c) PROVE PoolInv'
  BY <1>3, <1>1, SMTT(90) DEF TryAcquire, PermitsConserved, ActiveIsHeld, Places, Holding, Errors
<1>4. ASSUME NEW c \in Clients, CountActive(c) PROVE PoolInv'
  <2>1. pc' = [pc EXCEPT ![c] = "holding"] /\ "holding" \in Places
    BY <1>4 DEF CountActive, Places, Holding
  <2>2. ActiveIsHeld' /\ active' \in Nat
    BY <1>4, <1>1, <2>1 DEF CountActive, ActiveIsHeld
  <2>3. PermitsConserved' /\ free' \in 0 .. MaxConnections
    BY <1>4, <1>1, <2>1 DEF CountActive, PermitsConserved, Holding
  <2> QED
    BY <1>4, <1>1, <2>1, <2>2, <2>3 DEF CountActive
<1>5. ASSUME NEW c \in Clients, RejectFull(c) PROVE PoolInv'
  BY <1>5, <1>1 DEF RejectFull, PermitsConserved, ActiveIsHeld, Places, Holding, Errors
<1>6. ASSUME NEW c \in Clients, Enqueue(c) PROVE PoolInv'
  <2>1. queue' \in Seq(Entries) /\ Len(queue') <= MaxQueue
    BY <1>6, <1>0, AppendProperties DEF Enqueue, Entries, Live
  <2> QED
    BY <1>6, <1>1, <2>1 DEF Enqueue, PermitsConserved, ActiveIsHeld, Places, Holding, Errors
<1>7. ASSUME NEW c \in Clients, Retry(c) PROVE PoolInv'
  BY <1>7, <1>1, SMTT(30) DEF Retry, LeaveWait, PermitsConserved, ActiveIsHeld, Places, Holding, Errors
<1>8. ASSUME NEW c \in Clients, SenderGone(c) PROVE PoolInv'
  BY <1>8, <1>1 DEF SenderGone, LeaveWait, PermitsConserved, ActiveIsHeld, Places, Holding, Errors
<1>9. ASSUME NEW c \in Clients, DeadlinePasses(c) PROVE PoolInv'
  BY <1>9, <1>2 DEF DeadlinePasses, PermitsConserved, ActiveIsHeld
<1>10. ASSUME NEW c \in Clients, TimesOut(c) PROVE PoolInv'
  <2>1. queue' \in Seq(Entries) /\ Len(queue') <= MaxQueue
    BY <1>10, AbandonedType DEF TimesOut
  <2> QED
    BY <1>10, <1>1, <2>1 DEF TimesOut, LeaveWait, PermitsConserved, ActiveIsHeld, Places,
       Holding, Errors
<1>11. ASSUME NEW c \in Clients, Cancel(c) PROVE PoolInv'
  <2>1. queue' \in Seq(Entries) /\ Len(queue') <= MaxQueue
    BY <1>11, AbandonedType DEF Cancel
  <2> QED
    BY <1>11, <1>1, <2>1 DEF Cancel, LeaveWait, PermitsConserved, ActiveIsHeld, Places,
       Holding, Errors
<1>12. ASSUME NEW c \in Clients, Return(c) PROVE PoolInv'
  BY <1>12, <1>1 DEF Return, PermitsConserved, ActiveIsHeld, Places, Holding, Errors
<1>13. ASSUME NEW c \in Clients, DropCount(c) PROVE PoolInv'
  <2>1. pc' = [pc EXCEPT ![c] = "dropping"] /\ "dropping" \in Places
    BY <1>13 DEF DropCount, Places, Holding
  <2>2. ActiveIsHeld' /\ active' \in Nat
    BY <1>13, <1>1, <2>1 DEF DropCount, ActiveIsHeld
  <2>3. PermitsConserved' /\ free' \in 0 .. MaxConnections
    BY <1>13, <1>1, <2>1 DEF DropCount, PermitsConserved, Holding
  <2> QED
    BY <1>13, <1>1, <2>1, <2>2, <2>3 DEF DropCount
<1>14. ASSUME NEW c \in Clients, WakeNextWaiter(c) PROVE PoolInv'
  <2>1. queue' \in Seq(Entries) /\ Len(queue') <= MaxQueue
    BY <1>14, <1>0, PoppedType DEF WakeNextWaiter
  <2>2. signal' \in [Clients -> {"none", "sent", "closed"}]
    BY <1>14 DEF WakeNextWaiter
  <2> QED
    BY <1>14, <1>1, <2>1, <2>2 DEF WakeNextWaiter, PermitsConserved, ActiveIsHeld, Places,
       Holding, Errors
<1>15. ASSUME NEW c \in Clients, DropPermit(c) PROVE PoolInv'
  <2>1. pc' = [pc EXCEPT ![c] = "idle"] /\ "idle" \in Places
    BY <1>15 DEF DropPermit, Places, Holding
  <2>2. ActiveIsHeld' /\ active' \in Nat
    BY <1>15, <1>1, <2>1 DEF DropPermit, ActiveIsHeld
  <2>3. PermitsConserved' /\ free' \in 0 .. MaxConnections
    <3>1. pc[c] \in Holding /\ "idle" \notin Holding
      BY <1>15 DEF DropPermit, Holding
    <3>2. Cardinality(Holders') = Cardinality(Holders) - 1 /\ Cardinality(Holders') \in Nat
          /\ Cardinality(Holders) \in Nat
      BY <1>1, <2>1, <3>1
    <3> QED
      BY <1>15, <3>2 DEF DropPermit, PermitsConserved
  <2> QED
    BY <1>15, <1>1, <2>1, <2>2, <2>3 DEF DropPermit
<1>16. CASE UNCHANGED vars
  BY <1>16 DEF vars, Holders, Counted, PermitsConserved, ActiveIsHeld
<1> QED
  BY <1>3, <1>4, <1>5, <1>6, <1>7, <1>8, <1>9, <1>10, <1>11, <1>12, <1>13, <1>14, <1>15,
     <1>16 DEF Next

\* Permits are conserved and active is exact for any number of requests, whatever
\* times out, is cancelled or is rejected; so the pool never has more than
\* max_connections connections in use and stats.active never wraps.
THEOREM PoolCorrect == Spec => [](TypeOK /\ PermitsConserved /\ ActiveIsHeld)
<1>1. ASSUME Init PROVE PoolInv
  <2>1. Holders = {} /\ Counted = {}
    BY <1>1 DEF Init, Holders, Counted, Holding
  <2>2. Cardinality({}) = 0
    BY FS_EmptySet
  <2>3. << >> \in Seq(Entries) /\ Len(<< >>) = 0
    OBVIOUS
  <2> QED
    BY <1>1, <2>1, <2>2, <2>3, PoolAssumption DEF Init, PoolInv, TypeOK, PermitsConserved,
       ActiveIsHeld, Places
<1> QED
  BY <1>1, PoolStep, PTL DEF Spec, PoolInv

\* Type correctness of the pool; in particular the queue never exceeds max_queue_size.
THEOREM TypeCorrect == Spec => []TypeOK
<1> QED
  BY PoolCorrect, PTL

\* stats.active is exactly the number of connections in use.
THEOREM ActiveExact == Spec => []ActiveIsHeld
<1> QED
  BY PoolCorrect, PTL

-----------------------------------------------------------------------------
(* The queue and the waiters                                               *)

Unsignalled(c) == pc[c] = "waiting" /\ signal[c] = "none"

\* What keeps a waiter from being forgotten: only waiters have been signalled, exactly
\* the unsignalled ones have a live entry, and nobody has two.
WaitInv ==
    /\ \A c \in Clients : pc[c] # "waiting" => signal[c] = "none"
    /\ \A c \in Clients : Unsignalled(c) => \E i \in 1 .. Len(queue) : queue[i] = Live(c)
    /\ \A c \in Clients : ~Unsignalled(c) => \A i \in 1 .. Len(queue) : queue[i] # Live(c)
    /\ \A c \in Clients : \A i, j \in 1 .. Len(queue) : queue[i] = Live(c) /\ queue[j] = Live(c) => i = j

\* Live entries of different requests are different, and a dead one is nobody's.
LEMMA LiveEntries ==
    ASSUME NEW c, NEW d
    PROVE  (Live(c) = Live(d) => c = d) /\ Live(d) # [who |-> c, live |-> FALSE]
<1>1. Live(c).who = c /\ Live(d).who = d /\ Live(d).live = TRUE
  BY DEF Live
<1> QED
  BY <1>1

\* A step that leaves the queue alone and under which no request starts or stops to be
\* an unsignalled waiter.
LEMMA QueueKept ==
    ASSUME TypeOK, WaitInv, queue' = queue,
           \A c \in Clients : Unsignalled(c)' <=> Unsignalled(c),
           \A c \in Clients : pc'[c] # "waiting" => signal'[c] = "none"
    PROVE  WaitInv'
<1> QED
  BY DEF WaitInv

\* The receiver of c is dropped with its wait: its entry dies, every other stays.
LEMMA AbandonStep ==
    ASSUME TypeOK, WaitInv, NEW c \in Clients, NEW p \in Places, p # "waiting",
           pc' = [pc EXCEPT ![c] = p], queue' = Abandoned(c), LeaveWait(c)
    PROVE  WaitInv'
<1> DEFINE dead == [who |-> c, live |-> FALSE]
<1>1. /\ Len(queue') = Len(queue) /\ Len(queue) \in Nat
      /\ \A i \in 1 .. Len(queue) : queue'[i] = IF queue[i] = Live(c) THEN dead ELSE queue[i]
  BY AbandonedType DEF TypeOK, Abandoned
<1>2. \A d \in Clients : Live(d) # dead /\ (Live(c) = Live(d) => c = d)
  BY LiveEntries
<1> HIDE DEF dead
<1>3. \A d \in Clients, i \in 1 .. Len(queue) : queue'[i] = Live(d) <=> queue[i] = Live(d) /\ d # c
  BY <1>1, <1>2
<1>4. \A d \in Clients : Unsignalled(d)' <=> Unsignalled(d) /\ d # c
  BY DEF Unsignalled, LeaveWait, TypeOK
<1>5. \A d \in Clients : pc'[d] # "waiting" => signal'[d] = "none"
  BY DEF WaitInv, LeaveWait, TypeOK
<1>6. \A d \in Clients : Live(d)' = Live(d)
  BY DEF Live
<1> QED
  BY <1>1, <1>3, <1>4, <1>5, <1>6 DEF WaitInv

LEMMA EnqueueStep ==
    ASSUME TypeOK, WaitInv, NEW c \in Clients, Enqueue(c)
    PROVE  WaitInv'
<1>1. /\ Len(queue) \in Nat /\ Len(queue') = Len(queue) + 1
      /\ \A i \in 1 .. Len(queue) : queue'[i] = queue[i]
      /\ queue'[Len(queue) + 1] = Live(c)
  BY DEF Enqueue, TypeOK
<1>2. \A d \in Clients : Unsignalled(d)' <=> Unsignalled(d) \/ d = c
  BY DEF Unsignalled, Enqueue, WaitInv, TypeOK, At, Goto
<1>3. ~Unsignalled(c) /\ \A d \in Clients : pc'[d] # "waiting" => signal'[d] = "none"
  BY DEF Unsignalled, Enqueue, WaitInv, TypeOK, At, Goto
<1>4. \A d \in Clients : Live(c) = Live(d) => c = d
  BY LiveEntries
<1>5. \A i \in 1 .. Len(queue') : i \in 1 .. Len(queue) \/ i = Len(queue) + 1
  BY <1>1
<1>6. \A d \in Clients : Live(d)' = Live(d)
  BY DEF Live
<1>7. ASSUME NEW d \in Clients, Unsignalled(d)'
      PROVE  \E i \in 1 .. Len(queue') : queue'[i] = Live(d)
  <2>1. CASE d = c
    BY <1>1, <2>1
  <2>2. CASE Unsignalled(d)
    BY <1>1, <2>2 DEF WaitInv
  <2> QED
    BY <1>2, <1>7, <2>1, <2>2
<1>8. ASSUME NEW d \in Clients, ~Unsignalled(d)', NEW i \in 1 .. Len(queue')
      PROVE  queue'[i] # Live(d)
  BY <1>1, <1>2, <1>4, <1>5, <1>8 DEF WaitInv
<1>9. ASSUME NEW d \in Clients, NEW i \in 1 .. Len(queue'), NEW j \in 1 .. Len(queue'),
             queue'[i] = Live(d), queue'[j] = Live(d)
      PROVE  i = j
  BY <1>1, <1>3, <1>4, <1>5, <1>9 DEF WaitInv
<1> QED
  BY <1>3, <1>6, <1>7, <1>8, <1>9 DEF WaitInv

LEMMA WakeStep ==
    ASSUME TypeOK, WaitInv, NEW c \in Clients, WakeNextWaiter(c)
    PROVE  WaitInv'
<1>1. PICK n \in 0 .. Len(queue) :
         /\ queue' = SubSeq(queue, n + 1, Len(queue))
         /\ signal' = [w \in Clients |->
                         IF \E i \in 1 .. n : queue[i] = Live(w)
                         THEN IF late[w] THEN "closed" ELSE "sent"
                         ELSE signal[w]]
  BY DEF WakeNextWaiter
<1>2. Len(queue) \in Nat /\ n \in Nat /\ n <= Len(queue)
  BY DEF TypeOK
<1>3. /\ Len(queue') = Len(queue) - n
      /\ \A i \in 1 .. Len(queue') : i + n \in 1 .. Len(queue) /\ queue'[i] = queue[i + n]
  BY <1>1, <1>2, SubSeqProperties DEF TypeOK
<1>4. pc[c] = "dropping" /\ pc' = [pc EXCEPT ![c] = "woke"] /\ pc \in [Clients -> Places]
  BY DEF WakeNextWaiter, At, Goto, TypeOK
<1>5. \A d \in Clients : (pc'[d] = "waiting" <=> pc[d] = "waiting")
  BY <1>4
<1>6. ASSUME NEW d \in Clients, \E i \in 1 .. n : queue[i] = Live(d)
      PROVE  Unsignalled(d) /\ ~Unsignalled(d)' /\ \A i \in 1 .. Len(queue') : queue'[i] # Live(d)
  <2>1. Unsignalled(d)
    BY <1>2, <1>6 DEF WaitInv
  <2>2. ~Unsignalled(d)'
    BY <1>1, <1>6 DEF Unsignalled
  <2> QED
    BY <1>2, <1>3, <1>6, <2>1, <2>2, SMTT(30) DEF WaitInv
<1>7. ASSUME NEW d \in Clients, ~\E i \in 1 .. n : queue[i] = Live(d)
      PROVE  (Unsignalled(d)' <=> Unsignalled(d)) /\ signal'[d] = signal[d]
  BY <1>1, <1>5, <1>7 DEF Unsignalled
<1>8. \A d \in Clients : Live(d)' = Live(d)
  BY DEF Live
<1>9. ASSUME NEW d \in Clients, Unsignalled(d)' PROVE \E i \in 1 .. Len(queue') : queue'[i] = Live(d)
  <2>1. Unsignalled(d) /\ ~\E i \in 1 .. n : queue[i] = Live(d)
    BY <1>6, <1>7, <1>9
  <2>2. PICK j \in 1 .. Len(queue) : queue[j] = Live(d)
    BY <2>1 DEF WaitInv
  <2>3. j - n \in 1 .. Len(queue') /\ (j - n) + n = j
    BY <1>2, <1>3, <2>1, <2>2
  <2> QED
    BY <1>3, <2>2, <2>3
<1>10. ASSUME NEW d \in Clients, ~Unsignalled(d)', NEW i \in 1 .. Len(queue') PROVE queue'[i] # Live(d)
  BY <1>3, <1>6, <1>7, <1>10, ZenonT(60) DEF WaitInv
<1>11. ASSUME NEW d \in Clients, NEW i \in 1 .. Len(queue'), NEW j \in 1 .. Len(queue'),
              queue'[i] = Live(d), queue'[j] = Live(d)
       PROVE  i = j
  <2>1. i + n = j + n
    BY <1>3, <1>11, ZenonT(60) DEF WaitInv
  <2> QED
    BY <1>2, <2>1
<1>12. \A d \in Clients : pc'[d] # "waiting" => signal'[d] = "none"
  BY <1>5, <1>6, <1>7 DEF WaitInv, Unsignalled
<1> QED
  BY <1>8, <1>9, <1>10, <1>11, <1>12 DEF WaitInv

LEMMA WaitStep == TypeOK /\ WaitInv /\ [Next]_vars => WaitInv'
<1> SUFFICES ASSUME TypeOK, WaitInv, [Next]_vars PROVE WaitInv'
  OBVIOUS
<1>1. ASSUME NEW c \in Clients,
             TryAcquire(c) \/ CountActive(c) \/ RejectFull(c) \/ Return(c) \/ DropCount(c) \/ DropPermit(c)
      PROVE  WaitInv'
  <2>1. /\ queue' = queue /\ signal' = signal /\ pc[c] # "waiting"
        /\ \E p \in Places : p # "waiting" /\ pc' = [pc EXCEPT ![c] = p]
    BY <1>1 DEF TryAcquire, CountActive, RejectFull, Return, DropCount, DropPermit, At, Goto, Places,
       Errors, Holding
  <2> QED
    BY <2>1, QueueKept DEF WaitInv, Unsignalled, TypeOK
<1>2. ASSUME NEW c \in Clients, Retry(c) \/ SenderGone(c) PROVE WaitInv'
  <2>1. /\ queue' = queue /\ signal' = [signal EXCEPT ![c] = "none"] /\ ~Unsignalled(c)
        /\ \E p \in Places : p # "waiting" /\ pc' = [pc EXCEPT ![c] = p]
    BY <1>2 DEF Retry, SenderGone, LeaveWait, Unsignalled, At, Goto, Places, Errors, Holding
  <2> QED
    BY <2>1, QueueKept DEF WaitInv, Unsignalled, TypeOK
<1>3. ASSUME NEW c \in Clients, DeadlinePasses(c) PROVE WaitInv'
  BY <1>3, QueueKept DEF DeadlinePasses, WaitInv, Unsignalled
<1>4. ASSUME NEW c \in Clients, TimesOut(c) \/ Cancel(c) PROVE WaitInv'
  BY <1>4, AbandonStep DEF TimesOut, Cancel, Goto, Places, Errors
<1>5. CASE UNCHANGED vars
  BY <1>5, QueueKept DEF vars, WaitInv, Unsignalled
<1> QED
  BY <1>1, <1>2, <1>3, <1>4, <1>5, EnqueueStep, WakeStep DEF Next

\* wake_next_waiter, the time-outs and the cancellations together never lose a waiter:
\* for any number of requests and any length of the queue, a request that waits for a
\* signal has exactly one live entry, and nobody else has one.
THEOREM WaitersKept == Spec => []NoForgottenWaiter
<1>1. Init => WaitInv
  BY DEF Init, WaitInv, Unsignalled
<1>2. TypeOK /\ WaitInv => NoForgottenWaiter
  <2> SUFFICES ASSUME TypeOK, WaitInv, NEW c \in Clients
               PROVE  LET mine == {i \in DOMAIN queue : queue[i] = Live(c)} IN
                      IF Unsignalled(c) THEN Cardinality(mine) = 1 ELSE mine = {}
    BY DEF NoForgottenWaiter, Unsignalled
  <2> DEFINE mine == {i \in DOMAIN queue : queue[i] = Live(c)}
  <2>1. DOMAIN queue = 1 .. Len(queue)
    BY DEF TypeOK
  <2>2. CASE Unsignalled(c)
    <3>1. PICK i \in 1 .. Len(queue) : queue[i] = Live(c)
      BY <2>2 DEF WaitInv
    <3>2. mine = {i}
      BY <2>1, <3>1 DEF WaitInv
    <3>3. Cardinality(mine) = 1
      BY <3>2, FS_Singleton
    <3> QED
      BY <2>2, <3>3
  <2>3. CASE ~Unsignalled(c)
    BY <2>1, <2>3 DEF WaitInv
  <2> QED
    BY <2>2, <2>3
<1> QED
  BY <1>1, <1>2, WaitStep, TypeCorrect, PTL DEF Spec
=============================================================================
