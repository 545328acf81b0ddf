-------------------------- MODULE QueryPathProofs --------------------------
(***************************************************************************)
(* What QueryPath satisfies for every number of clients and keys.          *)
(***************************************************************************)
EXTENDS QueryPath, FiniteSetTheorems, TLAPS

\* The responses a handler builds have the type of a response.
LEMMA ResponseTypes ==
    /\ Empty \in Responses
    /\ Failure \in Responses
    /\ Failure # Empty
    /\ \A label \in Labels, k \in Keys, age \in Ages \cup {"New"} :
          /\ Response(label, k, age) \in Responses
          /\ Response(label, k, age) # Empty
  BY DEF Empty, Failure, Response, Responses, Labels, Ages

\* A fallback answer is a response other than the empty one.
LEMMA CachedType ==
    ASSUME TypeOK, NEW k \in Keys, NEW label \in Labels
    PROVE  Cached(k, label) \in Responses /\ Cached(k, label) # Empty
  BY ResponseTypes DEF TypeOK, Cached, Ages

\* SemanticCache::insert keeps the tier within max_entries.
LEMMA SemanticBound ==
    ASSUME TypeOK, NEW k \in Keys, SemanticMax > 0, SemanticInsert(k)
    PROVE  semantic' \in SUBSET Keys /\ Cardinality(semantic') <= SemanticMax
<1> DEFINE grown == semantic \cup {k}
<1>1. IsFiniteSet(semantic)
  BY QueryPathAssumption, FS_Subset DEF TypeOK
<1>2. IsFiniteSet(grown) /\ (Cardinality(grown) = Cardinality(semantic) \/ Cardinality(grown) = Cardinality(semantic) + 1)
  BY <1>1, FS_AddElement
<1>3. Cardinality(semantic) \in Nat /\ Cardinality(grown) \in Nat
  BY <1>1, <1>2, FS_CardinalityType
<1>4. CASE Cardinality(grown) <= SemanticMax
  BY <1>4 DEF TypeOK, SemanticInsert
<1>5. CASE ~(Cardinality(grown) <= SemanticMax)
  <2>1. PICK v \in grown \ {k} : semantic' = grown \ {v}
    BY <1>5 DEF SemanticInsert
  <2>2. Cardinality(grown \ {v}) = Cardinality(grown) - 1
    BY <1>2, <2>1, FS_RemoveElement
  <2> QED
    BY <1>2, <1>3, <2>1, <2>2, QueryPathAssumption DEF TypeOK
<1> QED
  BY <1>4, <1>5

\* The type invariant is preserved by every step.
LEMMA TypeStep == TypeOK /\ [Next]_vars => TypeOK'
<1> SUFFICES ASSUME TypeOK, [Next]_vars PROVE TypeOK'
  OBVIOUS
<1> USE QueryPathAssumption DEF TypeOK, At, Goto, shared, env, local
<1>1. ASSUME NEW c \in Clients, NEW k \in Keys, NEW kd \in Kinds, Refuse(c, k, kd)
      PROVE  TypeOK'
  BY <1>1, ResponseTypes DEF Refuse, Finish, Places
<1>2. ASSUME NEW c \in Clients, NEW k \in Keys, NEW kd \in Kinds, Arrive(c, k, kd)
      PROVE  TypeOK'
  BY <1>2 DEF Arrive, Places
<1>3. ASSUME NEW c \in Clients, Progress(c) PROVE TypeOK'
  <2>1. CASE CheckFreshness(c)
    BY <2>1 DEF CheckFreshness, AfterLookup, Places
  <2>2. CASE GetGone(c)
    BY <2>2 DEF GetGone, AfterLookup, Places
  <2>3. CASE GetHit(c)
    BY <2>3, ResponseTypes DEF GetHit, Finish, Places, Labels, Ages
  <2>4. CASE SemanticHit(c)
    BY <2>4, ResponseTypes DEF SemanticHit, Finish, Matches, Places, Labels, Ages
  <2>5. CASE SemanticMiss(c)
    BY <2>5 DEF SemanticMiss, Places
  <2>6. CASE NoUpstream(c)
    BY <2>6, CachedType, ResponseTypes DEF NoUpstream, Finish, Places, Labels
  <2>7. CASE CircuitRejects(c)
    BY <2>7, CachedType, ResponseTypes DEF CircuitRejects, Finish, Places, Labels
  <2>8. CASE CircuitAllows(c)
    BY <2>8 DEF CircuitAllows, Places
  <2>9. CASE GetOrInsert(c)
    BY <2>9 DEF GetOrInsert, Places
  <2>10. CASE FetchOk(c)
    BY <2>10 DEF FetchOk, Places
  <2>11. CASE FetchErr(c)
    BY <2>11 DEF FetchErr, Places
  <2>12. CASE Store(c)
    <3>1. semantic' \in SUBSET Keys /\ Cardinality(semantic') <= SemanticMax
      BY <2>12, SemanticBound DEF Store
    <3> QED
      BY <2>12, <3>1 DEF Store, Places, Ages
  <2>13. CASE LeaderOk(c)
    <3>1. PICK r \in Responses : Complete(key[c], r) /\ Finish(c, r)
      BY <2>13, ResponseTypes, CachedType DEF LeaderOk, Labels
    <3> QED
      BY <2>13, <3>1 DEF LeaderOk, Complete, Finish, Places
  <2>14. CASE LeaderErr(c)
    <3>1. PICK r \in Responses : Complete(key[c], r) /\ Finish(c, r)
      BY <2>14, ResponseTypes, CachedType DEF LeaderErr, Labels
    <3> QED
      BY <2>14, <3>1 DEF LeaderErr, Complete, Finish, Places
  <2>15. CASE Receive(c)
    BY <2>15, CachedType, ResponseTypes DEF Receive, Finish, Places, Labels
  <2> QED
    BY <1>3, <2>1, <2>2, <2>3, <2>4, <2>5, <2>6, <2>7, <2>8, <2>9, <2>10, <2>11, <2>12,
       <2>13, <2>14, <2>15 DEF Progress
<1>4. ASSUME NEW c \in Clients, Drop(c) PROVE TypeOK'
  BY <1>4, ResponseTypes DEF Drop, Places
<1>5. ASSUME NEW c \in Clients, Recycle(c) PROVE TypeOK'
  BY <1>5, ResponseTypes DEF Recycle, Places
<1>6. ASSUME NEW c \in Clients, RefreshOk(c) PROVE TypeOK'
  BY <1>6 DEF RefreshOk, Ages
<1>7. ASSUME NEW c \in Clients, RefreshFails(c) PROVE TypeOK'
  BY <1>7 DEF RefreshFails
<1>8. ASSUME NEW k \in Keys, Grow(k) PROVE TypeOK'
  BY <1>8 DEF Grow, NextAge, Ages
<1>9. ASSUME NEW k \in Keys, Remove(k) PROVE TypeOK'
  BY <1>9 DEF Remove
<1>10. CASE Pause \/ Resume \/ Reload
  BY <1>10, ZenonT(60) DEF Pause, Resume, Reload
<1>11. CASE UNCHANGED vars
  BY <1>11 DEF vars
<1> QED
  BY <1>1, <1>2, <1>3, <1>4, <1>5, <1>6, <1>7, <1>8, <1>9, <1>10, <1>11 DEF Next

\* The initial state has its type.
LEMMA InitType == Init => TypeOK
<1> SUFFICES ASSUME Init PROVE TypeOK
  OBVIOUS
<1>1. Cardinality({}) <= SemanticMax
  BY QueryPathAssumption, FS_EmptySet
<1> QED
  BY <1>1, QueryPathAssumption, ResponseTypes DEF Init, TypeOK, Places

\* Type correctness of the query path; in particular a request in progress always
\* has a key and the semantic tier never exceeds max_entries.
THEOREM TypeCorrect == Spec => []TypeOK
<1> QED
  BY InitType, TypeStep, PTL DEF Spec

\* The map invariant is preserved by every step: only a leader's own step, or the
\* loss of its connection, ends its leadership, and complete() empties the mailbox
\* wait of every receiver of the sender it removes.
LEMMA MapStep == TypeOK /\ MapInv /\ [Next]_vars => MapInv'
<1> SUFFICES ASSUME TypeOK, MapInv, [Next]_vars PROVE MapInv'
  OBVIOUS
<1> USE QueryPathAssumption DEF TypeOK, MapInv, Leads, Abandoned, Waiting, At, Goto, shared, env, local
<1>1. ASSUME NEW c \in Clients, NEW k \in Keys, NEW kd \in Kinds, Refuse(c, k, kd)
      PROVE  MapInv'
  BY <1>1 DEF Refuse, Finish
<1>2. ASSUME NEW c \in Clients, NEW k \in Keys, NEW kd \in Kinds, Arrive(c, k, kd)
      PROVE  MapInv'
  BY <1>2, SMTT(30) DEF Arrive
<1>3. ASSUME NEW c \in Clients, Progress(c) PROVE MapInv'
  <2>1. CASE CheckFreshness(c)
    BY <2>1 DEF CheckFreshness, AfterLookup
  <2>2. CASE GetGone(c)
    BY <2>2 DEF GetGone, AfterLookup
  <2>3. CASE GetHit(c)
    BY <2>3 DEF GetHit, Finish
  <2>4. CASE SemanticHit(c)
    BY <2>4 DEF SemanticHit, Finish
  <2>5. CASE SemanticMiss(c)
    BY <2>5 DEF SemanticMiss
  <2>6. CASE NoUpstream(c)
    BY <2>6 DEF NoUpstream, Finish
  <2>7. CASE CircuitRejects(c)
    BY <2>7 DEF CircuitRejects, Finish
  <2>8. CASE CircuitAllows(c)
    BY <2>8 DEF CircuitAllows
  <2>9. CASE GetOrInsert(c)
    BY <2>9 DEF GetOrInsert
  <2>10. CASE FetchOk(c)
    BY <2>10 DEF FetchOk
  <2>11. CASE FetchErr(c)
    BY <2>11 DEF FetchErr
  <2>12. CASE Store(c)
    BY <2>12 DEF Store
  <2>13. CASE LeaderOk(c)
    <3>1. PICK r \in Responses : r # Empty /\ Complete(key[c], r) /\ Finish(c, r)
      BY <2>13, ResponseTypes, CachedType DEF LeaderOk, Labels
    <3>2. key[c] \in Keys /\ inFlight[key[c]] = c
      BY <2>13 DEF LeaderOk
    <3> QED
      BY <2>13, <3>1, <3>2 DEF LeaderOk, Complete, Finish
  <2>14. CASE LeaderErr(c)
    <3>1. PICK r \in Responses : r # Empty /\ Complete(key[c], r) /\ Finish(c, r)
      BY <2>14, ResponseTypes, CachedType DEF LeaderErr, Labels
    <3>2. key[c] \in Keys /\ inFlight[key[c]] = c
      BY <2>14 DEF LeaderErr
    <3> QED
      BY <2>14, <3>1, <3>2 DEF LeaderErr, Complete, Finish
  <2>15. CASE Receive(c)
    BY <2>15 DEF Receive, Finish
  <2> QED
    BY <1>3, <2>1, <2>2, <2>3, <2>4, <2>5, <2>6, <2>7, <2>8, <2>9, <2>10, <2>11, <2>12,
       <2>13, <2>14, <2>15 DEF Progress
<1>4. ASSUME NEW c \in Clients, Drop(c) PROVE MapInv'
  BY <1>4 DEF Drop
<1>5. ASSUME NEW c \in Clients, Recycle(c) PROVE MapInv'
  BY <1>5 DEF Recycle
<1>6. ASSUME NEW c \in Clients, RefreshOk(c) \/ RefreshFails(c) PROVE MapInv'
  BY <1>6 DEF RefreshOk, RefreshFails
<1>7. ASSUME NEW k \in Keys, Grow(k) \/ Remove(k) PROVE MapInv'
  BY <1>7 DEF Grow, Remove
<1>8. CASE Pause \/ Resume \/ Reload
  BY <1>8 DEF Pause, Resume, Reload
<1>9. CASE UNCHANGED vars
  BY <1>9 DEF vars
<1> QED
  BY <1>1, <1>2, <1>3, <1>4, <1>5, <1>6, <1>7, <1>8, <1>9 DEF Next

\* The coalescer's map and the requests agree in every reachable state.
LEMMA MapCorrect == Spec => [](TypeOK /\ MapInv)
<1>1. Init => TypeOK /\ MapInv
  BY InitType, QueryPathAssumption DEF Init, MapInv, Leads, Abandoned, Waiting
<1> QED
  BY <1>1, TypeStep, MapStep, PTL DEF Spec

\* Singleflight for any number of clients and keys: at most one request at a time
\* fetches a key (get_or_insert, and complete on every path of execute_query and
\* of the batch items).
THEOREM Singleflight == Spec => []SingleLeader
<1>1. TypeOK /\ MapInv => SingleLeader
  BY DEF MapInv, SingleLeader
<1> QED
  BY <1>1, MapCorrect, PTL

\* No waiter is orphaned by a race: whoever waits for a key has a leader that is
\* still at work on it or that was dropped while it was.
THEOREM WaitersHaveLeaders == Spec => []WaiterHasLeader
<1>1. TypeOK /\ MapInv => WaiterHasLeader
  BY QueryPathAssumption DEF TypeOK, MapInv, WaiterHasLeader
<1> QED
  BY <1>1, MapCorrect, PTL

\* A registered sender leaves the map only by its own leader's complete(): nobody
\* cuts off the waiters of another request.
THEOREM CompletionIsTheLeaders == Spec => OnlyLeaderCompletes
<1>1. ASSUME TypeOK, MapInv, [Next]_vars,
             NEW k \in Keys, inFlight[k] # Nobody, inFlight'[k] # inFlight[k]
      PROVE  Leads(inFlight[k], k) /\ pc'[inFlight[k]] = "done"
  <2> USE QueryPathAssumption DEF TypeOK, At, Goto, shared, env, local
  <2>1. ASSUME NEW c \in Clients, LeaderOk(c) \/ LeaderErr(c)
        PROVE  Leads(inFlight[k], k) /\ pc'[inFlight[k]] = "done"
    <3>1. Leads(c, key[c]) /\ key[c] \in Keys
      BY <1>1, <2>1 DEF LeaderOk, LeaderErr, Leads
    <3>2. inFlight[key[c]] = c
      BY <1>1, <3>1 DEF MapInv
    <3>3. key[c] = k
      BY <1>1, <2>1, <3>1 DEF LeaderOk, LeaderErr, Complete
    <3> QED
      BY <1>1, <2>1, <3>1, <3>2, <3>3 DEF LeaderOk, LeaderErr, Finish
  <2>2. ASSUME NEW c \in Clients, Progress(c)
        PROVE  LeaderOk(c) \/ LeaderErr(c)
    BY <1>1, <2>2 DEF Progress, CheckFreshness, GetGone, GetHit, SemanticHit, SemanticMiss,
       NoUpstream, CircuitRejects, CircuitAllows, GetOrInsert, FetchOk, FetchErr, Store, Receive
  <2> QED
    BY <1>1, <2>1, <2>2 DEF Next, Refuse, Arrive, Drop, Recycle, RefreshOk, RefreshFails,
       Grow, Remove, Pause, Resume, Reload, vars
<1>2. TypeOK /\ MapInv /\ [Next]_vars =>
        [\A k \in Keys :
            inFlight[k] # Nobody /\ inFlight'[k] # inFlight[k] =>
                Leads(inFlight[k], k) /\ pc'[inFlight[k]] = "done"]_vars
  BY <1>1
<1> QED
  BY <1>2, MapCorrect, PTL DEF Spec, OnlyLeaderCompletes

\* The coalescer's map is exactly the leaders at work and the dropped ones.
THEOREM MapAgrees == Spec => []MapInv
<1> QED
  BY MapCorrect, PTL

-----------------------------------------------------------------------------
(* Refinement of Flights                                                   *)

Aboard == [k \in Keys |-> {c \in Clients : Waiting(c, k)}]

\* A step that leaves the map alone and makes nobody wait or stop waiting is a stutter.
LEMMA SameFlights ==
    ASSUME UNCHANGED inFlight,
           \A c \in Clients, k \in Keys : Waiting(c, k)' <=> Waiting(c, k)
    PROVE  UNCHANGED <<inFlight, Aboard>>
  BY DEF Aboard

\* The flights as functions, and who is aboard, member by member.
LEMMA AboardAt ==
    /\ Aboard \in [Keys -> SUBSET Clients] /\ Aboard' \in [Keys -> SUBSET Clients]
    /\ \A k \in Keys, d \in Clients : d \in Aboard[k] <=> Waiting(d, k)
    /\ \A k \in Keys, d \in Clients :
          d \in Aboard'[k] <=> pc'[d] = "wait" /\ key'[d] = k /\ mail'[d] = Empty
  BY DEF Aboard, Waiting

\* If who waits changes for one key only, the flights change at that key only.
LEMMA OneFlight ==
    ASSUME NEW q \in Keys, NEW S \in SUBSET Clients,
           \A d \in Clients : Waiting(d, q)' <=> d \in S,
           \A d \in Clients, k \in Keys \ {q} : Waiting(d, k)' <=> Waiting(d, k)
    PROVE  Aboard' = [Aboard EXCEPT ![q] = S]
<1>1. Aboard'[q] = S
  BY AboardAt, SMTT(30) DEF Waiting
<1>2. ASSUME NEW k \in Keys \ {q} PROVE Aboard'[k] = Aboard[k]
  <2>1. \A d \in Clients : d \in Aboard'[k] <=> d \in Aboard[k]
    BY <1>2, AboardAt DEF Waiting
  <2>2. Aboard'[k] \in SUBSET Clients /\ Aboard[k] \in SUBSET Clients
    BY <1>2, AboardAt
  <2> QED
    BY <2>1, <2>2
<1> QED
  BY <1>1, <1>2, AboardAt

\* complete() lands the flight: it empties the map's entry, and everyone who was
\* waiting for this key, and nobody else, stops waiting.
LEMMA LandStep ==
    ASSUME TypeOK, MapInv, NEW c \in Clients, NEW r \in Responses, r # Empty,
           pc[c] \in {"filter", "stored", "failed"}, UNCHANGED key,
           Complete(key[c], r), Finish(c, r)
    PROVE  Flight!Land(key[c])
<1> USE QueryPathAssumption DEF TypeOK
<1>1. key[c] \in Keys /\ inFlight[key[c]] = c
  BY DEF MapInv, Leads
<1>2. \A d \in Clients : ~Waiting(d, key[c])'
  BY <1>1 DEF Waiting, Complete, Finish, Goto
<1>3. \A d \in Clients, k \in Keys \ {key[c]} : Waiting(d, k)' <=> Waiting(d, k)
  BY <1>1 DEF Waiting, Complete, Finish, Goto
<1>4. Aboard' = [Aboard EXCEPT ![key[c]] = {}]
  BY <1>1, <1>2, <1>3, OneFlight
<1> QED
  BY <1>1, <1>4 DEF Flight!Land, Aboard, Complete

\* Every step of the query path is a step of Flights or leaves the flights alone.
LEMMA FlightStep ==
    ASSUME TypeOK, MapInv, [Next]_vars
    PROVE  [Flight!Next]_<<inFlight, Aboard>>
<1> USE QueryPathAssumption DEF TypeOK, At, Goto, shared, env, local
<1>1. ASSUME NEW c \in Clients, NEW k \in Keys, NEW kd \in Kinds, Refuse(c, k, kd) \/ Arrive(c, k, kd)
      PROVE  UNCHANGED <<inFlight, Aboard>>
  BY <1>1, SameFlights DEF Refuse, Arrive, Finish, Waiting
<1>2. ASSUME NEW c \in Clients, Progress(c)
      PROVE  [Flight!Next]_<<inFlight, Aboard>>
  <2>1. CASE CheckFreshness(c) \/ GetGone(c) \/ SemanticMiss(c) \/ CircuitAllows(c) \/ FetchOk(c)
             \/ FetchErr(c)
    BY <2>1, SameFlights DEF CheckFreshness, GetGone, SemanticMiss, CircuitAllows, FetchOk,
       FetchErr, AfterLookup, Waiting
  <2>2. CASE GetHit(c) \/ SemanticHit(c) \/ NoUpstream(c) \/ CircuitRejects(c)
    BY <2>2, SameFlights DEF GetHit, SemanticHit, NoUpstream, CircuitRejects, Finish, Waiting
  <2>3. CASE Store(c)
    BY <2>3, SameFlights DEF Store, Waiting
  <2>4. CASE Receive(c)
    BY <2>4, SameFlights DEF Receive, Finish, Waiting
  <2>5. CASE GetOrInsert(c) /\ inFlight[key[c]] = Nobody
    <3>1. key[c] \in Keys
      BY <2>5 DEF GetOrInsert
    <3>2. Aboard' = Aboard
      BY <2>5 DEF GetOrInsert, Waiting, Aboard
    <3>3. Flight!TakeOff(key[c], c)
      BY <2>5, <3>2 DEF GetOrInsert, Flight!TakeOff, Aboard
    <3> QED
      BY <3>1, <3>3 DEF Flight!Next
  <2>6. CASE GetOrInsert(c) /\ inFlight[key[c]] # Nobody
    <3>1. PICK q \in Keys : q = key[c] /\ pc[c] = "join"
      BY <2>6 DEF GetOrInsert
    <3>2. CASE mail[c] = Empty
      <4>1. Waiting(c, q)' /\ ~Waiting(c, q)
        BY <2>6, <3>1, <3>2 DEF GetOrInsert, Waiting
      <4>2. \A d \in Clients, k \in Keys : d # c \/ k # q => (Waiting(d, k)' <=> Waiting(d, k))
        BY <2>6, <3>1, <3>2 DEF GetOrInsert, Waiting
      <4>3. Aboard' = [Aboard EXCEPT ![q] = Aboard[q] \cup {c}] /\ c \notin Aboard[q]
        <5>1. \A d \in Clients : Waiting(d, q)' <=> d \in Aboard[q] \cup {c}
          BY <4>1, <4>2, AboardAt
        <5>2. Aboard[q] \cup {c} \in SUBSET Clients
          BY AboardAt
        <5>3. Aboard' = [Aboard EXCEPT ![q] = Aboard[q] \cup {c}]
          BY <4>2, <5>1, <5>2, OneFlight
        <5> QED
          BY <4>1, <5>3, AboardAt
      <4>4. Flight!Board(q, c)
        BY <2>6, <3>1, <4>3 DEF GetOrInsert, Flight!Board, Aboard
      <4> QED
        BY <4>4 DEF Flight!Next
    <3>3. CASE mail[c] # Empty
      BY <2>6, <3>1, <3>3, SameFlights DEF GetOrInsert, Waiting
    <3> QED
      BY <3>2, <3>3
  <2>7. CASE LeaderOk(c) \/ LeaderErr(c)
    <3>1. PICK r \in Responses : r # Empty /\ Complete(key[c], r) /\ Finish(c, r)
      BY <2>7, ResponseTypes, CachedType DEF LeaderOk, LeaderErr, Labels
    <3>2. Flight!Land(key[c]) /\ key[c] \in Keys
      BY <2>7, <3>1, LandStep DEF LeaderOk, LeaderErr
    <3> QED
      BY <3>2 DEF Flight!Next
  <2> QED
    BY <1>2, <2>1, <2>2, <2>3, <2>4, <2>5, <2>6, <2>7 DEF Progress, GetOrInsert
<1>3. ASSUME NEW c \in Clients, Drop(c)
      PROVE  [Flight!Next]_<<inFlight, Aboard>>
  <2>1. PICK q \in Keys : q = key[c]
    BY <1>3 DEF Drop
  <2>2. CASE Waiting(c, q)
    <3>1. \A d \in Clients, k \in Keys : d # c \/ k # q => (Waiting(d, k)' <=> Waiting(d, k))
      BY <1>3, <2>1 DEF Drop, Waiting
    <3>2. ~Waiting(c, q)'
      BY <1>3 DEF Drop, Waiting
    <3>3. Aboard' = [Aboard EXCEPT ![q] = Aboard[q] \ {c}] /\ c \in Aboard[q]
      <4>1. \A d \in Clients : Waiting(d, q)' <=> d \in Aboard[q] \ {c}
        BY <3>1, <3>2, AboardAt
      <4>2. Aboard[q] \ {c} \in SUBSET Clients
        BY AboardAt
      <4>3. Aboard' = [Aboard EXCEPT ![q] = Aboard[q] \ {c}]
        BY <3>1, <4>1, <4>2, OneFlight
      <4> QED
        BY <2>2, <4>3, AboardAt
    <3>4. Flight!Leave(q, c)
      BY <1>3, <3>3 DEF Drop, Flight!Leave, Aboard
    <3> QED
      BY <3>4 DEF Flight!Next
  <2>3. CASE ~Waiting(c, q)
    BY <1>3, <2>1, <2>3, SameFlights DEF Drop, Waiting
  <2> QED
    BY <2>2, <2>3
<1>4. ASSUME NEW c \in Clients, Recycle(c)
      PROVE  UNCHANGED <<inFlight, Aboard>>
  BY <1>4, SameFlights DEF Recycle, Waiting
<1>5. ASSUME NEW c \in Clients, RefreshOk(c) \/ RefreshFails(c)
      PROVE  UNCHANGED <<inFlight, Aboard>>
  BY <1>5, SameFlights DEF RefreshOk, RefreshFails, Waiting
<1>6. ASSUME NEW k \in Keys, Grow(k) \/ Remove(k)
      PROVE  UNCHANGED <<inFlight, Aboard>>
  BY <1>6, SameFlights DEF Grow, Remove, Waiting
<1>7. CASE Pause \/ Resume \/ Reload \/ UNCHANGED vars
  BY <1>7, SameFlights DEF Pause, Resume, Reload, Waiting, vars
<1> QED
  BY <1>1, <1>2, <1>3, <1>4, <1>5, <1>6, <1>7 DEF Next

\* The query path implements Flights for any number of clients and keys: one leader
\* per key, nobody boards a flight that is not in the air, a landing serves everyone.
THEOREM ImplementsFlights == Spec => Coalesces
<1>1. Init => Flight!Init
  BY DEF Init, Flight!Init, Waiting
<1>2. TypeOK /\ MapInv /\ [Next]_vars
        => [Flight!Next]_<<inFlight, [k \in Keys |-> {c \in Clients : Waiting(c, k)}]>>
  BY FlightStep DEF Aboard
<1> QED
  BY <1>1, <1>2, MapCorrect, PTL DEF Spec, Coalesces, Flight!Spec

-----------------------------------------------------------------------------
(* Answers                                                                 *)

\* A message waits only for a request that waits for it, and is about its key; a slot
\* without a request holds no answer; only ordinary queries ask the semantic tier.
AnswerInv ==
    /\ AnswerFitsQuery
    /\ \A c \in Clients : pc[c] = "idle" => answer[c] = Empty
    /\ \A c \in Clients : mail[c] # Empty => pc[c] = "wait" /\ mail[c].src \in {NoKey, key[c]}
    /\ \A c \in Clients : pc[c] = "semantic" => kind[c] = "query"

\* The sources of the responses the handlers build.
LEMMA Sources ==
    /\ Empty.src = NoKey /\ Failure.src = NoKey
    /\ \A label, k, age : Response(label, k, age).src = k
    /\ \A label, k : Cached(k, label).src \in {NoKey, k}
  BY DEF Empty, Failure, Response, Cached

\* complete() and the leader's return keep every answer and message to its query.
LEMMA BroadcastFits ==
    ASSUME TypeOK, AnswerInv, NEW c \in Clients, NEW r \in Responses,
           r.src \in {NoKey, key[c]}, pc[c] \in {"filter", "stored", "failed"}, UNCHANGED <<key, kind>>,
           Complete(key[c], r), Finish(c, r)
    PROVE  AnswerInv'
<1> USE Sources DEF TypeOK, Finish, Goto
<1>1. AnswerFitsQuery'
  BY DEF AnswerInv, AnswerFitsQuery
<1>2. \A d \in Clients : pc'[d] = "idle" => answer'[d] = Empty
  BY DEF AnswerInv
<1>3. ASSUME NEW d \in Clients, mail'[d] # Empty
      PROVE  pc'[d] = "wait" /\ mail'[d].src \in {NoKey, key'[d]}
  BY <1>3 DEF AnswerInv, Complete, Waiting
<1> QED
  BY <1>1, <1>2, <1>3 DEF AnswerInv

\* Every step keeps answers and messages to their queries.
LEMMA AnswerStep ==
    ASSUME TypeOK, AnswerInv, [Next]_vars
    PROVE  AnswerInv'
<1> USE QueryPathAssumption, Sources DEF TypeOK, AnswerInv, AnswerFitsQuery, At, Goto, shared, env, local
<1>1. ASSUME NEW c \in Clients, NEW k \in Keys, NEW kd \in Kinds, Refuse(c, k, kd) \/ Arrive(c, k, kd)
      PROVE  AnswerInv'
  BY <1>1, SMTT(30) DEF Refuse, Arrive, Finish
<1>2. ASSUME NEW c \in Clients, Progress(c) PROVE AnswerInv'
  <2>1. CASE CheckFreshness(c) \/ GetGone(c) \/ SemanticMiss(c) \/ CircuitAllows(c) \/ FetchOk(c)
             \/ FetchErr(c) \/ Store(c) \/ GetOrInsert(c)
    BY <2>1 DEF CheckFreshness, GetGone, SemanticMiss, CircuitAllows, FetchOk, FetchErr, Store,
       GetOrInsert, AfterLookup
  <2>2. CASE GetHit(c)
    BY <2>2, SMTT(30) DEF GetHit, Finish
  <2>3. CASE SemanticHit(c)
    <3>1. PICK m \in Matches(key[c]) : cache[m] \in {"Fresh", "Stale", "Frozen"} /\ Finish(c, Response("Hit", m, cache[m]))
      BY <2>3 DEF SemanticHit
    <3>2. m = key[c] \/ <<key[c], m>> \in Similar
      BY <3>1 DEF Matches
    <3>3. LET r == Response("Hit", m, cache[m]) IN r.src = m /\ r.label = "Hit" /\ r.age # "Expired"
      BY <3>1 DEF Response
    <3>4. answer' = [answer EXCEPT ![c] = Response("Hit", m, cache[m])] /\ UNCHANGED <<key, kind, mail>>
          /\ pc' = [pc EXCEPT ![c] = "done"] /\ pc[c] = "semantic" /\ kind[c] = "query"
      BY <2>3, <3>1 DEF SemanticHit, Finish
    <3>5. ASSUME NEW d \in Clients, answer'[d].src \notin {NoKey, key'[d]}
          PROVE  /\ kind'[d] = "query" /\ answer'[d].label = "Hit" /\ answer'[d].age # "Expired"
                 /\ <<key'[d], answer'[d].src>> \in Similar
      <4>1. CASE d = c
        <5>1. answer'[d] = Response("Hit", m, cache[m])
          BY <3>4, <4>1
        <5> QED
          BY <3>2, <3>3, <3>4, <3>5, <4>1, <5>1, SMTT(30)
      <4>2. CASE d # c
        BY <3>4, <3>5, <4>2
      <4> QED
        BY <4>1, <4>2
    <3>6. AnswerFitsQuery'
      BY <3>5
    <3> QED
      BY <3>4, <3>6, SMTT(30)
  <2>4. CASE NoUpstream(c) \/ CircuitRejects(c)
    BY <2>4, SMTT(30) DEF NoUpstream, CircuitRejects, Finish
  <2>5. CASE Receive(c)
    BY <2>5 DEF Receive, Finish
  <2>6. CASE LeaderOk(c) \/ LeaderErr(c)
    <3>1. PICK r \in Responses : r.src \in {NoKey, key[c]} /\ Complete(key[c], r) /\ Finish(c, r)
      BY <2>6, ResponseTypes, CachedType DEF LeaderOk, LeaderErr, Labels
    <3> QED
      BY <2>6, <3>1, BroadcastFits DEF LeaderOk, LeaderErr
  <2> QED
    BY <1>2, <2>1, <2>2, <2>3, <2>4, <2>5, <2>6 DEF Progress
<1>3. ASSUME NEW c \in Clients, Drop(c) \/ Recycle(c) PROVE AnswerInv'
  BY <1>3, SMTT(30) DEF Drop, Recycle
<1>4. ASSUME NEW c \in Clients, RefreshOk(c) \/ RefreshFails(c) PROVE AnswerInv'
  BY <1>4 DEF RefreshOk, RefreshFails
<1>5. ASSUME NEW k \in Keys, Grow(k) \/ Remove(k) PROVE AnswerInv'
  BY <1>5 DEF Grow, Remove
<1>6. CASE Pause \/ Resume \/ Reload \/ UNCHANGED vars
  BY <1>6 DEF Pause, Resume, Reload, vars
<1> QED
  BY <1>1, <1>2, <1>3, <1>4, <1>5, <1>6 DEF Next

\* For any number of clients and keys, nobody is answered with the response to another
\* context-qualified query than its own, save an ordinary query by the semantic tier,
\* with an unexpired entry of a similar one.
THEOREM AnswersFit == Spec => []AnswerFitsQuery
<1>1. Init => AnswerInv
  BY QueryPathAssumption, Sources DEF Init, AnswerInv, AnswerFitsQuery
<1>2. TypeOK /\ AnswerInv /\ [Next]_vars => AnswerInv'
  BY AnswerStep
<1>3. AnswerInv => AnswerFitsQuery
  BY DEF AnswerInv
<1> QED
  BY <1>1, <1>2, <1>3, TypeCorrect, PTL DEF Spec

=============================================================================
