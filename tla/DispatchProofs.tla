--------------------------- MODULE DispatchProofs ---------------------------
(***************************************************************************)
(* What Dispatch satisfies for every number of upstreams and requests and  *)
(* every configuration.                                                    *)
(*                                                                         *)
(* The invariant says of every request where its attempt stands: that      *)
(* nothing has been tried before a call is chosen (PlaceInv), how many     *)
(* requests the call in progress and the upstreams left to try still allow *)
(* (CallInv), and that every                                               *)
(* candidate of the pool is still to be tried, being called or has failed  *)
(* (TriedInv).                                                             *)
(***************************************************************************)
EXTENDS Dispatch, FiniteSetTheorems, TLAPS

Answered == {"reset", "count", "mark", "judge"}
Busy == {"calling"} \cup Answered

\* Request q stands where its phase says; nothing of an earlier attempt is left over
\* when an attempt begins.
PlaceInv(q) ==
    /\ q.pc \in {"idle", "start", "select"} \cup Ended =>
          q.phase = "none" /\ q.cands = {} /\ q.rest = {} /\ q.oks = {} /\ q.bad = {} /\ q.calls = 0
    /\ q.pc = "next" => q.phase = "none" /\ config.mode # "single"
    /\ q.pc \in Busy => q.phase # "none"
    /\ q.phase = "single" => config.mode = "single"
    /\ q.phase = "target" => config.mode # "single" /\ q.target # NoTarget
    /\ q.phase = "primary" => config.mode = "pool" /\ q.target = NoTarget /\ q.u \in q.cands
    /\ q.phase = "loop" => config.mode # "single"
    /\ q.pc # "calling" \/ ~ModeAware => q.ask \in {"text", "vector"}

\* The requests the call in progress may still make.
Slack(q) == IF q.ask = "first" THEN 2 ELSE IF q.ask = "probe" THEN 1 ELSE 0

\* The requests the upstreams left to try may take.
Ahead(q) == CallCost * Cardinality(q.rest)

\* The requests made and those the loop may still make.
CallInv(q) ==
    /\ q.phase \in {"single", "target", "primary"} => q.calls + Slack(q) <= CallCost
    /\ q.pc = "next" \/ q.phase = "loop" => q.calls + Slack(q) + Ahead(q) <= CallCost * (N + 1)

\* An answer is on record, and the pool forgets no candidate.
TriedInv(q) ==
    /\ q.pc \in Answered => (q.out \in Ok => q.u \in q.oks) /\ (q.out = "error" => q.u \in q.bad)
    /\ config.mode = "pool" /\ q.target = NoTarget =>
          /\ q.pc = "next" => q.cands \subseteq q.rest \cup q.bad
          /\ q.phase = "loop" => q.cands \subseteq q.rest \cup q.bad \cup {q.u}

Sound(q) ==
    /\ q \in RequestType /\ q.attempt <= config.retries
    /\ PlaceInv(q) /\ CallInv(q) /\ TriedInv(q)

DispatchInv == TypeOK /\ PermitsConserved /\ \A r \in Requests : Sound(rq[r])

\* The size of a set of upstreams, and of one without one of its members.
LEMMA UpstreamSets ==
    ASSUME NEW S \in SUBSET Upstreams
    PROVE  /\ Cardinality(S) \in Nat /\ Cardinality(S) <= N
           /\ \A u \in S : Cardinality(S \ {u}) = Cardinality(S) - 1
<1>1. IsFiniteSet(Upstreams) /\ Cardinality(Upstreams) = N
  BY DispatchAssumption, FS_Interval DEF Upstreams
<1>2. IsFiniteSet(S) /\ Cardinality(S) <= Cardinality(Upstreams)
  BY <1>1, FS_Subset
<1> QED
  BY <1>1, <1>2, FS_CardinalityType, FS_RemoveElement

\* What the upstreams of a set may take, of a set without one of them, and of all.
LEMMA Costs ==
    ASSUME NEW S \in SUBSET Upstreams
    PROVE  /\ CallCost \in {1, 3} /\ CallCost * Cardinality(S) \in Nat
           /\ CallCost + CallCost * Cardinality(S) <= CallCost * (N + 1)
           /\ CallCost <= CallCost * (N + 1) /\ CallCost * (N + 1) \in Nat
           /\ \A u \in S : CallCost + CallCost * Cardinality(S \ {u}) = CallCost * Cardinality(S)
<1>1. CallCost = 1 \/ CallCost = 3
  BY DEF CallCost
<1>2. /\ Cardinality(S) \in Nat /\ Cardinality(S) <= N /\ N \in Nat
      /\ \A u \in S : Cardinality(S \ {u}) = Cardinality(S) - 1
  BY UpstreamSets, DispatchAssumption
<1>3. CASE CallCost = 1
  BY <1>2, <1>3
<1>4. CASE CallCost = 3
  BY <1>2, <1>4
<1> QED
  BY <1>1, <1>3, <1>4

Holders == {r \in Requests : HoldsPermit(r)}

\* One request moves: who holds a permit changes by that request alone.
LEMMA HoldersMove ==
    ASSUME rq \in [Requests -> RequestType], NEW r \in Requests, NEW q,
           rq' = [rq EXCEPT ![r] = q]
    PROVE  /\ Cardinality(Holders) \in Nat /\ Cardinality(Holders') \in Nat
           /\ (rq[r].pc \in Inside <=> q.pc \in Inside) => Cardinality(Holders') = Cardinality(Holders)
           /\ rq[r].pc \notin Inside /\ q.pc \in Inside => Cardinality(Holders') = Cardinality(Holders) + 1
           /\ rq[r].pc \in Inside /\ q.pc \notin Inside => Cardinality(Holders') = Cardinality(Holders) - 1
<1>1. /\ Holders \subseteq Requests /\ (r \in Holders <=> rq[r].pc \in Inside)
      /\ Holders' = IF q.pc \in Inside THEN Holders \cup {r} ELSE Holders \ {r}
  BY DEF Holders, HoldsPermit
<1>2. IsFiniteSet(Holders)
  BY <1>1, DispatchAssumption, FS_Subset
<1>3. /\ Cardinality(Holders) \in Nat
      /\ Cardinality(Holders \cup {r}) = IF r \in Holders THEN Cardinality(Holders) ELSE Cardinality(Holders) + 1
      /\ Cardinality(Holders \ {r}) = IF r \in Holders THEN Cardinality(Holders) - 1 ELSE Cardinality(Holders)
  BY <1>2, FS_CardinalityType, FS_AddElement, FS_RemoveElement
<1>4. IsFiniteSet(Holders \ {r}) /\ Cardinality(Holders \ {r}) \in Nat
  BY <1>2, FS_RemoveElement, FS_CardinalityType
<1> QED
  BY <1>1, <1>3, <1>4

HealthType ==
    /\ failures \in [Upstreams -> 0 .. config.offlineAt]
    /\ wins \in [Upstreams -> 0 .. config.onlineAt]
    /\ offline \in [Upstreams -> BOOLEAN]
    /\ qmode \in [Upstreams -> IF ModeAware THEN Modes ELSE {"text"}]

\* What a step of request r has to show: that r is sound afterwards and that the
\* permits follow it in and out.
LEMMA RequestMoves ==
    ASSUME DispatchInv, NEW r \in Requests, NEW q, Sound(q),
           rq' = [rq EXCEPT ![r] = q], config' = config, HealthType',
           permits' = IF rq[r].pc \in Inside
                      THEN IF q.pc \in Inside THEN permits ELSE permits + 1
                      ELSE IF q.pc \in Inside THEN permits - 1 ELSE permits,
           rq[r].pc \notin Inside /\ q.pc \in Inside => permits > 0
    PROVE  DispatchInv'
<1>1. rq \in [Requests -> RequestType] /\ permits \in Nat /\ config \in Configs
  BY DEF DispatchInv, TypeOK
<1>2. permits' \in Nat
  BY <1>1
<1>3. \A s \in Requests : Sound(rq'[s])
  BY <1>1 DEF DispatchInv
<1>4. \A s \in Requests : Sound(rq[s])'
  BY <1>3 DEF Sound, PlaceInv, CallInv, TriedInv, Slack, Ahead, CallCost, ModeAware
<1>5. rq' \in [Requests -> RequestType] /\ \A s \in Requests : rq'[s].attempt <= config'.retries
  BY <1>1, <1>3 DEF Sound
<1>6. TypeOK'
  BY <1>1, <1>2, <1>5 DEF TypeOK, HealthType, ModeAware
<1>7. PermitsConserved'
  <2>1. permits + Cardinality(Holders) = config.limit /\ config.limit \in Nat
    BY <1>1, DispatchAssumption DEF DispatchInv, PermitsConserved, Holders, ConfigType
  <2>2. /\ Cardinality(Holders) \in Nat /\ Cardinality(Holders') \in Nat
        /\ (rq[r].pc \in Inside <=> q.pc \in Inside) => Cardinality(Holders') = Cardinality(Holders)
        /\ rq[r].pc \notin Inside /\ q.pc \in Inside => Cardinality(Holders') = Cardinality(Holders) + 1
        /\ rq[r].pc \in Inside /\ q.pc \notin Inside => Cardinality(Holders') = Cardinality(Holders) - 1
    BY <1>1, HoldersMove
  <2>3. permits' + Cardinality(Holders') = config'.limit
    BY <1>1, <1>2, <2>1, <2>2
  <2> QED
    BY <2>3 DEF PermitsConserved, Holders
<1> QED
  BY <1>4, <1>6, <1>7 DEF DispatchInv

\* A request outside an attempt: at place p, for target t, after n attempts.
Outside(p, t, n) ==
    [pc |-> p, target |-> t, attempt |-> n, phase |-> "none",
     cands |-> {}, rest |-> {}, u |-> 1, out |-> "thin", seen |-> 0,
     oks |-> {}, bad |-> {}, calls |-> 0, ask |-> "text"]

LEMMA OutsideSound ==
    ASSUME config \in Configs, NEW p \in {"idle", "start", "ok", "err"},
           NEW t \in {NoTarget} \cup Upstreams, NEW n \in Nat, n <= config.retries
    PROVE  Sound(Outside(p, t, n)) /\ Outside(p, t, n).pc \notin Inside
<1>1. 1 \in Upstreams
  BY DispatchAssumption DEF Upstreams
<1>2. Outside(p, t, n) \in RequestType
  BY <1>1 DEF Outside, RequestType, Ok, Outcomes, Ended
<1> QED
  BY <1>2 DEF Outside, Sound, PlaceInv, CallInv, TriedInv, Ended, Busy, Answered, Inside

\* Fresh, moved elsewhere.
LEMMA FreshMoved ==
    ASSUME NEW p, NEW t, NEW n
    PROVE  /\ Fresh = Outside("idle", NoTarget, 0)
           /\ [Fresh EXCEPT !.pc = p] = Outside(p, NoTarget, 0)
           /\ [Fresh EXCEPT !.pc = p, !.target = t] = Outside(p, t, 0)
           /\ [Fresh EXCEPT !.pc = p, !.target = t, !.attempt = n] = Outside(p, t, n)
<1>1. Fresh = Outside("idle", NoTarget, 0)
  BY DEF Fresh, Outside
<1>2. [Fresh EXCEPT !.pc = p] = Outside(p, NoTarget, 0)
  BY DEF Fresh, Outside
<1>3. [Outside(p, NoTarget, 0) EXCEPT !.target = t] = Outside(p, t, 0)
  BY DEF Outside
<1>4. [Outside(p, t, 0) EXCEPT !.attempt = n] = Outside(p, t, n)
  BY DEF Outside
<1>5. [Fresh EXCEPT !.pc = p, !.target = t] = [[Fresh EXCEPT !.pc = p] EXCEPT !.target = t]
  BY Zenon
<1>6. [Fresh EXCEPT !.pc = p, !.target = t, !.attempt = n] =
        [[[Fresh EXCEPT !.pc = p] EXCEPT !.target = t] EXCEPT !.attempt = n]
  BY Zenon
<1> QED
  BY <1>1, <1>2, <1>3, <1>4, <1>5, <1>6

\* An attempt that has ended leaves a request outside.
LEMMA ConcludedOutside ==
    ASSUME DispatchInv, NEW r \in Requests, NEW o
    PROVE  /\ Sound(Concluded(r, o)) /\ Concluded(r, o).pc \notin Inside
           /\ Concluded(r, o).pc = "ok" <=> o \in Ok
<1>1. /\ rq[r].attempt \in Nat /\ rq[r].attempt <= config.retries /\ config.retries \in Nat
      /\ rq[r].target \in {NoTarget} \cup Upstreams /\ config \in Configs
  BY DispatchAssumption DEF DispatchInv, TypeOK, ConfigType, RequestType
<1>2. CASE o \in Ok
  <2>1. Concluded(r, o) = Outside("ok", NoTarget, 0) /\ Outside("ok", NoTarget, 0).pc = "ok"
    BY <1>2, FreshMoved DEF Concluded, Outside
  <2> QED
    BY <1>1, <1>2, <2>1, OutsideSound
<1>3. CASE o \notin Ok /\ ShouldRetry(r, o)
  <2>1. /\ Concluded(r, o) = Outside("start", rq[r].target, rq[r].attempt + 1)
        /\ Outside("start", rq[r].target, rq[r].attempt + 1).pc = "start"
    BY <1>3, FreshMoved, ZenonT(60) DEF Concluded, Outside
  <2>2. rq[r].attempt + 1 <= config.retries /\ rq[r].attempt + 1 \in Nat
    BY <1>1, <1>3 DEF ShouldRetry
  <2> QED
    BY <1>1, <1>3, <2>1, <2>2, OutsideSound
<1>4. CASE o \notin Ok /\ ~ShouldRetry(r, o)
  <2>1. Concluded(r, o) = Outside("err", NoTarget, 0) /\ Outside("err", NoTarget, 0).pc = "err"
    BY <1>4, FreshMoved DEF Concluded, Outside
  <2> QED
    BY <1>1, <1>4, <2>1, OutsideSound
<1> QED
  BY <1>2, <1>3, <1>4

\* Every field can be set on its own.
LEMMA FieldTypes ==
    ASSUME NEW q \in RequestType
    PROVE  /\ \A p \in {"idle", "start"} \cup Inside \cup Ended : [q EXCEPT !.pc = p] \in RequestType
           /\ \A f \in {"none", "single", "target", "primary", "loop"} : [q EXCEPT !.phase = f] \in RequestType
           /\ \A u \in Upstreams : [q EXCEPT !.u = u] \in RequestType
           /\ \A o \in Outcomes : [q EXCEPT !.out = o] \in RequestType
           /\ \A n \in Nat : [q EXCEPT !.calls = n] \in RequestType
           /\ \A a \in {"text", "first", "probe", "vector"} : [q EXCEPT !.ask = a] \in RequestType
           /\ \A n \in Nat : [q EXCEPT !.seen = n] \in RequestType
           /\ \A S \in SUBSET Upstreams : [q EXCEPT !.cands = S] \in RequestType
           /\ \A S \in SUBSET Upstreams : [q EXCEPT !.rest = S] \in RequestType
           /\ \A S \in SUBSET Upstreams : [q EXCEPT !.oks = S] \in RequestType
           /\ \A S \in SUBSET Upstreams : [q EXCEPT !.bad = S] \in RequestType
<1> QED
  BY ZenonT(60) DEF RequestType

\* Request q with a call of u under way.
Called(q, f, u) ==
    [q EXCEPT !.pc = "calling", !.phase = f, !.u = u, !.calls = @ + 1, !.ask = FirstAsk(u)]

\* A call begins with one request and may take all it costs.
LEMMA FirstAsks ==
    ASSUME HealthType, NEW u \in Upstreams, NEW q, q.ask = FirstAsk(u)
    PROVE  /\ q.ask \in {"text", "first", "vector"} /\ Slack(q) \in Nat /\ 1 + Slack(q) <= CallCost
           /\ ~ModeAware => q.ask = "text"
<1>1. CASE ModeAware
  BY <1>1 DEF HealthType, FirstAsk, Slack, CallCost, Modes
<1>2. CASE ~ModeAware
  BY <1>2 DEF HealthType, FirstAsk, Slack, CallCost
<1> QED
  BY <1>1, <1>2

LEMMA CalledType ==
    ASSUME rq \in [Requests -> RequestType], HealthType, NEW r \in Requests,
           NEW f \in {"single", "target", "primary", "loop"}, NEW u \in Upstreams
    PROVE  /\ Calling(r, f, u) = [rq EXCEPT ![r] = Called(rq[r], f, u)]
           /\ Called(rq[r], f, u) \in RequestType
           /\ Called(rq[r], f, u).pc = "calling" /\ Called(rq[r], f, u).phase = f
           /\ Called(rq[r], f, u).u = u /\ Called(rq[r], f, u).calls = rq[r].calls + 1
           /\ Called(rq[r], f, u).cands = rq[r].cands /\ Called(rq[r], f, u).rest = rq[r].rest
           /\ Called(rq[r], f, u).oks = rq[r].oks /\ Called(rq[r], f, u).bad = rq[r].bad
           /\ Called(rq[r], f, u).target = rq[r].target /\ Called(rq[r], f, u).attempt = rq[r].attempt
           /\ Called(rq[r], f, u).ask = FirstAsk(u)
<1>1. rq[r] \in RequestType /\ rq[r].calls + 1 \in Nat
  BY DEF RequestType
<1> DEFINE c == [[[rq[r] EXCEPT !.pc = "calling"] EXCEPT !.phase = f] EXCEPT !.u = u]
           d == [c EXCEPT !.calls = rq[r].calls + 1]
<1>2. Called(rq[r], f, u) = [d EXCEPT !.ask = FirstAsk(u)]
  BY <1>1 DEF Called, RequestType
<1>3. "calling" \in Inside
  BY DEF Inside
<1>4. c \in RequestType
  BY <1>1, <1>3, FieldTypes
<1>5. Called(rq[r], f, u) \in RequestType
  <2> HIDE DEF c
  <2>1. d \in RequestType
    BY <1>1, <1>4, FieldTypes
  <2>2. FirstAsk(u) \in {"text", "first", "probe", "vector"}
    BY DEF HealthType, FirstAsk, Modes
  <2> HIDE DEF d
  <2> QED
    BY <1>2, <2>1, <2>2, FieldTypes
<1>6. Calling(r, f, u) = [rq EXCEPT ![r] = Called(rq[r], f, u)]
  BY DEF Calling, Called
<1> QED
  BY <1>1, <1>5, <1>6 DEF Called, RequestType

\* The candidates of an attempt are upstreams.
LEMMA CandidatesType == Candidates \in SUBSET Upstreams
<1> QED
  BY DEF Candidates, Available

\* What every step may use.
LEMMA Facts ==
    ASSUME DispatchInv, NEW r \in Requests
    PROVE  /\ rq \in [Requests -> RequestType] /\ rq[r] \in RequestType /\ Sound(rq[r])
           /\ config \in Configs /\ config \in ConfigType /\ permits \in Nat /\ HealthType
<1> QED
  BY DispatchAssumption DEF DispatchInv, TypeOK, HealthType

LEMMA BeginStep ==
    ASSUME DispatchInv, NEW r \in Requests, NEW t \in {NoTarget} \cup Named, Begin(r, t)
    PROVE  DispatchInv'
<1>1. rq' = [rq EXCEPT ![r] = Outside("start", t, 0)]
  BY FreshMoved DEF Begin
<1>2. config \in Configs /\ 0 <= config.retries /\ t \in {NoTarget} \cup Upstreams
  <2>1. config \in Configs /\ config \in ConfigType
    BY Facts
  <2>2. t \in {NoTarget} \cup Upstreams
    BY DispatchAssumption DEF Upstreams
  <2> QED
    BY <2>1, <2>2 DEF ConfigType
<1>3. Sound(Outside("start", t, 0)) /\ Outside("start", t, 0).pc \notin Inside
  BY <1>2, OutsideSound
<1>4. rq[r].pc \notin Inside /\ config' = config /\ permits' = permits
  BY DEF Begin, Inside, Ended
<1>5. HealthType'
  BY Facts DEF Begin, hvars, HealthType, ModeAware
<1> QED
  BY <1>1, <1>3, <1>4, <1>5, RequestMoves

LEMMA EndAttemptStep ==
    ASSUME DispatchInv, NEW r \in Requests, NEW o, rq[r].pc \in Inside, EndAttempt(r, o)
    PROVE  DispatchInv'
<1>1. rq' = [rq EXCEPT ![r] = Concluded(r, o)] /\ config' = config /\ permits' = permits + 1
  BY DEF EndAttempt
<1>2. HealthType'
  BY Facts DEF EndAttempt, hvars, HealthType, ModeAware
<1> QED
  BY <1>1, <1>2, ConcludedOutside, RequestMoves

LEMMA RejectStep ==
    ASSUME DispatchInv, NEW r \in Requests, Reject(r)
    PROVE  DispatchInv'
<1>1. /\ rq' = [rq EXCEPT ![r] = Concluded(r, "transient")] /\ config' = config /\ permits' = permits
      /\ rq[r].pc \notin Inside
  BY DEF Reject, At, Inside
<1>2. HealthType'
  BY Facts DEF Reject, hvars, HealthType, ModeAware
<1> QED
  BY <1>1, <1>2, ConcludedOutside, RequestMoves

LEMMA AbandonStep ==
    ASSUME DispatchInv, NEW r \in Requests, Abandon(r)
    PROVE  DispatchInv'
<1>1. /\ rq' = [rq EXCEPT ![r] = Outside("idle", NoTarget, 0)] /\ config' = config
      /\ permits' = IF rq[r].pc \in Inside THEN permits + 1 ELSE permits
  BY FreshMoved DEF Abandon, At, Inside
<1>2. HealthType'
  BY Facts DEF Abandon, hvars, HealthType, ModeAware
<1>3. Sound(Outside("idle", NoTarget, 0)) /\ Outside("idle", NoTarget, 0).pc \notin Inside
  BY Facts, OutsideSound DEF ConfigType
<1> QED
  BY <1>1, <1>2, <1>3, RequestMoves

LEMMA AdmitStep ==
    ASSUME DispatchInv, NEW r \in Requests, Admit(r)
    PROVE  DispatchInv'
<1> DEFINE q == [rq[r] EXCEPT !.pc = "select"]
<1>1. /\ rq' = [rq EXCEPT ![r] = q] /\ config' = config /\ permits' = permits - 1 /\ permits > 0
      /\ rq[r].pc = "start" /\ rq[r].pc \notin Inside
  BY DEF Admit, At, Inside
<1>2. HealthType'
  BY Facts DEF Admit, hvars, HealthType, ModeAware
<1>3. q \in RequestType /\ q.pc = "select" /\ q.pc \in Inside
  BY Facts DEF RequestType, Inside
<1>4. Sound(q)
  BY <1>1, <1>3, Facts DEF Sound, PlaceInv, CallInv, TriedInv, RequestType, Busy, Answered, Ended
<1> HIDE DEF q
<1> QED
  BY <1>1, <1>2, <1>3, <1>4, RequestMoves

\* A first call is sound: nothing has been tried and nothing is left to try.
LEMMA SelectCall ==
    ASSUME DispatchInv, NEW r \in Requests, NEW f \in {"single", "target"}, NEW u \in Upstreams,
           At(r, "select"), f = "single" => config.mode = "single",
           f = "target" => config.mode # "single" /\ rq[r].target # NoTarget,
           rq' = Calling(r, f, u), UNCHANGED <<config, qmode, permits, hvars>>
    PROVE  DispatchInv'
<1> DEFINE q == Called(rq[r], f, u)
<1>1. /\ rq' = [rq EXCEPT ![r] = q] /\ q \in RequestType /\ q.pc = "calling" /\ q.phase = f
      /\ q.u = u /\ q.calls = rq[r].calls + 1 /\ q.rest = rq[r].rest
      /\ q.target = rq[r].target /\ q.attempt = rq[r].attempt /\ q.ask = FirstAsk(u)
  BY Facts, CalledType
<1>2. HealthType'
  BY Facts DEF hvars, HealthType, ModeAware
<1> HIDE DEF q
<1>3. rq[r].calls = 0 /\ rq[r].attempt <= config.retries /\ rq[r].pc \in Inside /\ q.pc \in Inside
  BY <1>1, Facts DEF Sound, PlaceInv, At, Inside
<1>4. /\ Slack(q) \in Nat /\ 1 + Slack(q) <= CallCost /\ CallCost \in Nat
      /\ ~ModeAware => q.ask = "text"
  BY <1>1, Facts, FirstAsks DEF CallCost
<1>5. Sound(q)
  BY <1>1, <1>3, <1>4 DEF Sound, PlaceInv, CallInv, TriedInv, Busy, Answered, Ended
<1> QED
  BY <1>1, <1>2, <1>3, <1>5, RequestMoves

LEMMA SelectPrimaryStep ==
    ASSUME DispatchInv, NEW r \in Requests, SelectPrimary(r)
    PROVE  DispatchInv'
<1>1. PICK u \in Candidates :
         rq' = LET c == Calling(r, "primary", u) IN [c EXCEPT ![r].cands = Candidates]
  BY DEF SelectPrimary
<1> DEFINE c == Called(rq[r], "primary", u)
           q == [c EXCEPT !.cands = Candidates]
<1>2. u \in Upstreams /\ Candidates \in SUBSET Upstreams
  BY <1>1, CandidatesType
<1>3. /\ Calling(r, "primary", u) = [rq EXCEPT ![r] = c] /\ c \in RequestType /\ c.pc = "calling"
      /\ c.phase = "primary" /\ c.u = u /\ c.calls = rq[r].calls + 1
      /\ c.target = rq[r].target /\ c.attempt = rq[r].attempt /\ c.ask = FirstAsk(u)
  BY <1>2, Facts, CalledType
<1> HIDE DEF c
<1>4. rq' = [rq EXCEPT ![r] = q]
  BY <1>1, <1>3, Facts
<1>5. /\ q \in RequestType /\ q.pc = "calling" /\ q.phase = "primary" /\ q.u = u /\ q.cands = Candidates
      /\ q.calls = c.calls /\ q.target = c.target /\ q.attempt = c.attempt /\ q.ask = c.ask
  BY <1>2, <1>3 DEF RequestType
<1> HIDE DEF q
<1>6. /\ rq[r].calls = 0 /\ rq[r].attempt <= config.retries /\ rq[r].pc \in Inside /\ q.pc \in Inside
      /\ config.mode = "pool" /\ rq[r].target = NoTarget /\ config' = config /\ permits' = permits
  BY <1>5, Facts DEF Sound, PlaceInv, SelectPrimary, At, Inside
<1>7. /\ Slack(q) \in Nat /\ 1 + Slack(q) <= CallCost /\ CallCost \in Nat
      /\ ~ModeAware => q.ask = "text"
  BY <1>2, <1>3, <1>5, Facts, FirstAsks DEF CallCost
<1>8. Sound(q)
  BY <1>1, <1>3, <1>5, <1>6, <1>7 DEF Sound, PlaceInv, CallInv, TriedInv, Busy, Answered, Ended
<1>9. HealthType'
  BY Facts DEF SelectPrimary, hvars, HealthType, ModeAware
<1> QED
  BY <1>4, <1>6, <1>8, <1>9, RequestMoves

LEMMA OrderedType ==
    ASSUME DispatchInv, NEW r \in Requests
    PROVE  /\ Ordered(r) \in RequestType /\ Ordered(r).pc = "next"
           /\ Ordered(r).cands = Candidates /\ Ordered(r).rest = Candidates
           /\ Ordered(r).phase = rq[r].phase /\ Ordered(r).target = rq[r].target
           /\ Ordered(r).calls = rq[r].calls /\ Ordered(r).attempt = rq[r].attempt
           /\ Ordered(r).ask = rq[r].ask
<1>1. rq[r] \in RequestType /\ Candidates \in SUBSET Upstreams /\ {} \in SUBSET Upstreams
  BY Facts, CandidatesType
<1>2. Ordered(r) = [[[[[rq[r] EXCEPT !.pc = "next"] EXCEPT !.cands = Candidates]
                        EXCEPT !.rest = Candidates] EXCEPT !.oks = {}] EXCEPT !.bad = {}]
  BY Zenon DEF Ordered
<1>3. "next" \in Inside
  BY DEF Inside
<1>4. [[rq[r] EXCEPT !.pc = "next"] EXCEPT !.cands = Candidates] \in RequestType
  BY <1>1, <1>3, FieldTypes
<1>5. [[[rq[r] EXCEPT !.pc = "next"] EXCEPT !.cands = Candidates] EXCEPT !.rest = Candidates] \in RequestType
  BY <1>1, <1>4, FieldTypes
<1>6. Ordered(r) \in RequestType
  <2> DEFINE q == [[[[rq[r] EXCEPT !.pc = "next"] EXCEPT !.cands = Candidates]
                      EXCEPT !.rest = Candidates] EXCEPT !.oks = {}]
  <2>1. q \in RequestType
    BY <1>1, <1>5, FieldTypes
  <2>2. Ordered(r) = [q EXCEPT !.bad = {}]
    BY <1>2
  <2> HIDE DEF q
  <2>3. [q EXCEPT !.bad = {}] \in RequestType
    BY <1>1, <2>1, FieldTypes
  <2> QED
    BY <2>2, <2>3
<1> QED
  BY <1>1, <1>6 DEF Ordered, RequestType

LEMMA SelectCascadeStep ==
    ASSUME DispatchInv, NEW r \in Requests, SelectCascade(r)
    PROVE  DispatchInv'
<1> DEFINE q == Ordered(r)
<1>1. /\ q \in RequestType /\ q.pc = "next" /\ q.cands = Candidates /\ q.rest = Candidates
      /\ q.phase = rq[r].phase /\ q.target = rq[r].target
      /\ q.calls = rq[r].calls /\ q.attempt = rq[r].attempt /\ q.ask = rq[r].ask
  BY OrderedType
<1>2. /\ rq' = [rq EXCEPT ![r] = q] /\ config' = config /\ permits' = permits
      /\ rq[r].pc = "select" /\ config.mode = "cascade"
  BY DEF SelectCascade, At
<1> HIDE DEF q
<1>3. /\ Ahead(q) \in Nat /\ CallCost + Ahead(q) <= CallCost * (N + 1)
      /\ CallCost \in Nat /\ CallCost * (N + 1) \in Nat
  BY <1>1, CandidatesType, Costs DEF Ahead
<1>4. /\ rq[r].calls = 0 /\ rq[r].phase = "none" /\ rq[r].attempt <= config.retries
      /\ rq[r].ask \in {"text", "vector"} /\ Slack(q) = 0
  BY <1>1, <1>2, Facts DEF Sound, PlaceInv, Slack
<1>5. Sound(q)
  BY <1>1, <1>2, <1>3, <1>4 DEF Sound, PlaceInv, CallInv, TriedInv, Busy, Answered, Ended
<1>6. HealthType'
  BY Facts DEF SelectCascade, hvars, HealthType, ModeAware
<1>7. rq[r].pc \in Inside /\ q.pc \in Inside
  BY <1>1, <1>2 DEF Inside
<1> QED
  BY <1>2, <1>5, <1>6, <1>7, RequestMoves

\* A request that has heard from its upstream is sound, and asks nothing more.
LEMMA HeardSound ==
    ASSUME DispatchInv, NEW r \in Requests, NEW o \in Outcomes, rq[r].pc = "calling"
    PROVE  Sound(Heard(r, o)) /\ Heard(r, o).pc \in Inside
<1> DEFINE p == IF rq[r].phase = "single" THEN "judge" ELSE "reset"
           good == IF o \in Ok THEN rq[r].oks \cup {rq[r].u} ELSE rq[r].oks
           poor == IF o = "error" THEN rq[r].bad \cup {rq[r].u} ELSE rq[r].bad
           k == [[[rq[r] EXCEPT !.pc = p] EXCEPT !.out = o] EXCEPT !.ask = "text"]
           q == [[k EXCEPT !.oks = good] EXCEPT !.bad = poor]
<1>1. /\ rq[r] \in RequestType /\ p \in Answered /\ p \in Inside
      /\ good \in SUBSET Upstreams /\ poor \in SUBSET Upstreams
      /\ o \in Ok => rq[r].u \in good
      /\ o = "error" => rq[r].u \in poor
      /\ rq[r].bad \subseteq poor
  BY Facts DEF RequestType, Inside, Answered
<1>2. Heard(r, o) = q
  BY <1>1 DEF Heard, RequestType
<1> HIDE DEF p, good, poor
<1>3. k \in RequestType
  BY <1>1, FieldTypes
<1>4. /\ k.pc = p /\ k.out = o /\ k.u = rq[r].u /\ k.ask = "text"
      /\ k.phase = rq[r].phase /\ k.target = rq[r].target /\ k.attempt = rq[r].attempt
      /\ k.cands = rq[r].cands /\ k.rest = rq[r].rest /\ k.calls = rq[r].calls
  BY <1>1 DEF RequestType
<1> HIDE DEF k
<1>5. q \in RequestType
  BY <1>1, <1>3, FieldTypes
<1>6. /\ q.pc = p /\ q.out = o /\ q.oks = good /\ q.bad = poor /\ q.u = rq[r].u /\ q.ask = "text"
      /\ q.phase = rq[r].phase /\ q.target = rq[r].target /\ q.attempt = rq[r].attempt
      /\ q.cands = rq[r].cands /\ q.rest = rq[r].rest /\ q.calls = rq[r].calls
  BY <1>3, <1>4 DEF RequestType
<1> HIDE DEF q
<1>7. Sound(rq[r])
  BY Facts
<1>8. PlaceInv(q)
  BY <1>1, <1>6, <1>7 DEF Sound, PlaceInv, Busy, Answered, Ended
<1>9. CallInv(q)
  <2>1. /\ Slack(q) = 0 /\ Slack(rq[r]) \in Nat /\ Ahead(q) = Ahead(rq[r]) /\ Ahead(q) \in Nat
        /\ CallCost \in Nat /\ CallCost * (N + 1) \in Nat /\ q.calls \in Nat
    BY <1>1, <1>5, <1>6, Costs DEF Slack, Ahead, RequestType
  <2> QED
    BY <1>1, <1>6, <1>7, <2>1 DEF Sound, CallInv, Answered
<1>10. TriedInv(q)
  BY <1>1, <1>6, <1>7 DEF Sound, TriedInv, Answered
<1>11. Sound(q)
  BY <1>5, <1>6, <1>7, <1>8, <1>9, <1>10 DEF Sound
<1> QED
  BY <1>1, <1>2, <1>6, <1>11

LEMMA AnswerStep ==
    ASSUME DispatchInv, NEW r \in Requests, NEW o \in Outcomes, Answer(r, o)
    PROVE  DispatchInv'
<1>1. /\ rq' = [rq EXCEPT ![r] = Heard(r, o)] /\ config' = config /\ permits' = permits
      /\ rq[r].pc = "calling" /\ rq[r].pc \in Inside
  BY DEF Answer, At, Inside
<1>2. HealthType'
  <2>1. rq[r].u \in Upstreams /\ HealthType
    BY Facts DEF RequestType
  <2> QED
    BY <2>1 DEF Answer, hvars, HealthType, ModeAware, Modes
<1> QED
  BY <1>1, <1>2, HeardSound, RequestMoves

\* Asking again within a call uses up its slack.
LEMMA AskAgainStep ==
    ASSUME DispatchInv, NEW r \in Requests, NEW a, At(r, "calling"),
           \/ rq[r].ask = "first" /\ a = "probe"
           \/ rq[r].ask = "probe" /\ a = "vector",
           rq' = AskAgain(r, a), config' = config, permits' = permits, HealthType'
    PROVE  DispatchInv'
<1> DEFINE q == [[rq[r] EXCEPT !.ask = a] EXCEPT !.calls = rq[r].calls + 1]
<1>1. rq[r] \in RequestType /\ Sound(rq[r]) /\ rq[r].calls \in Nat /\ rq[r].pc = "calling"
  BY Facts DEF RequestType, At
<1>2. rq' = [rq EXCEPT ![r] = q]
  BY Facts DEF AskAgain
<1>3. q \in RequestType
  <2> DEFINE k == [rq[r] EXCEPT !.ask = a]
  <2>1. a \in {"text", "first", "probe", "vector"} /\ rq[r].calls + 1 \in Nat
    BY <1>1
  <2>2. k \in RequestType
    BY <1>1, <2>1, FieldTypes
  <2> HIDE DEF k
  <2>3. [k EXCEPT !.calls = rq[r].calls + 1] \in RequestType
    BY <2>1, <2>2, FieldTypes
  <2> QED
    BY <2>3 DEF k
<1>4. /\ q.pc = rq[r].pc /\ q.out = rq[r].out /\ q.oks = rq[r].oks /\ q.bad = rq[r].bad
      /\ q.u = rq[r].u /\ q.ask = a /\ q.phase = rq[r].phase /\ q.target = rq[r].target
      /\ q.attempt = rq[r].attempt /\ q.cands = rq[r].cands /\ q.rest = rq[r].rest
      /\ q.calls = rq[r].calls + 1
  BY <1>1 DEF RequestType
<1> HIDE DEF q
<1>5. CallInv(q)
  <2>1. /\ Slack(q) \in Nat /\ Slack(rq[r]) = Slack(q) + 1 /\ Ahead(q) = Ahead(rq[r]) /\ Ahead(q) \in Nat
        /\ CallCost \in Nat /\ CallCost * (N + 1) \in Nat
    BY <1>3, <1>4, Costs DEF Slack, Ahead, RequestType
  <2> QED
    BY <1>1, <1>4, <2>1 DEF Sound, CallInv
<1>6. PlaceInv(q)
  BY <1>1, <1>4 DEF Sound, PlaceInv, Busy, Answered, Ended
<1>7. TriedInv(q)
  BY <1>1, <1>4 DEF Sound, TriedInv, Answered
<1>8. Sound(q) /\ rq[r].pc \in Inside /\ q.pc \in Inside
  BY <1>1, <1>3, <1>4, <1>5, <1>6, <1>7 DEF Sound, Inside
<1> QED
  BY <1>2, <1>8, RequestMoves

LEMMA ProbeStep ==
    ASSUME DispatchInv, NEW r \in Requests, Probe(r)
    PROVE  DispatchInv'
<1>1. /\ rq[r].u \in Upstreams /\ HealthType /\ Sound(rq[r]) /\ "error" \in Outcomes
      /\ At(r, "calling") /\ rq[r].pc = "calling" /\ rq[r].pc \in Inside
      /\ rq[r].ask \in {"first", "probe"} /\ config' = config /\ permits' = permits
  BY Facts DEF RequestType, Probe, Unsupported, Discover, ProbeFails, At, Inside, Outcomes
<1>2. ModeAware
  BY <1>1 DEF Sound, PlaceInv
<1>3. HealthType'
  BY <1>1, <1>2 DEF Probe, Unsupported, Discover, ProbeFails, hvars, HealthType, ModeAware
<1>4. \/ rq' = AskAgain(r, "probe") /\ rq[r].ask = "first"
      \/ rq' = AskAgain(r, "vector") /\ rq[r].ask = "probe"
      \/ rq' = [rq EXCEPT ![r] = Heard(r, "error")]
  BY DEF Probe, Unsupported, Discover, ProbeFails
<1>5. CASE rq' = [rq EXCEPT ![r] = Heard(r, "error")]
  BY <1>1, <1>3, <1>5, HeardSound, RequestMoves
<1> QED
  BY <1>1, <1>3, <1>4, <1>5, AskAgainStep

\* Recording an answer moves the request on and leaves what it has learnt.
LEMMA RecordMove ==
    ASSUME DispatchInv, NEW r \in Requests, NEW p \in Answered, NEW n \in Nat,
           rq[r].pc \in Answered, HealthType', config' = config, permits' = permits,
           rq' = [rq EXCEPT ![r] = [[rq[r] EXCEPT !.pc = p] EXCEPT !.seen = n]]
    PROVE  DispatchInv'
<1> DEFINE q == [[rq[r] EXCEPT !.pc = p] EXCEPT !.seen = n]
<1>1. rq[r] \in RequestType /\ p \in Inside /\ rq[r].pc \in Inside /\ Sound(rq[r])
  BY Facts DEF Answered, Inside
<1>2. q \in RequestType
  BY <1>1, FieldTypes
<1>3. /\ q.pc = p /\ q.out = rq[r].out /\ q.oks = rq[r].oks /\ q.bad = rq[r].bad /\ q.u = rq[r].u
      /\ q.phase = rq[r].phase /\ q.target = rq[r].target /\ q.attempt = rq[r].attempt
      /\ q.cands = rq[r].cands /\ q.rest = rq[r].rest /\ q.calls = rq[r].calls /\ q.ask = rq[r].ask
  BY <1>1 DEF RequestType
<1> HIDE DEF q
<1>4. Sound(q)
  <2>1. PlaceInv(q)
    BY <1>1, <1>3 DEF Sound, PlaceInv, Busy, Answered, Ended
  <2>2. CallInv(q)
    BY <1>1, <1>3 DEF Sound, CallInv, Answered, Slack, Ahead
  <2>3. TriedInv(q)
    BY <1>1, <1>3 DEF Sound, TriedInv, Answered
  <2> QED
    BY <1>1, <1>2, <1>3, <2>1, <2>2, <2>3 DEF Sound
<1>5. rq' = [rq EXCEPT ![r] = q] /\ q.pc \in Inside
  BY <1>1, <1>3 DEF q
<1> QED
  BY <1>1, <1>4, <1>5, RequestMoves

LEMMA RecordStep ==
    ASSUME DispatchInv, NEW r \in Requests, Record(r)
    PROVE  DispatchInv'
<1>1. rq[r] \in RequestType /\ rq[r].u \in Upstreams /\ rq[r].seen \in Nat
  BY Facts DEF RequestType
<1>2. HealthType /\ config.onlineAt \in Nat \ {0} /\ config.offlineAt \in Nat \ {0}
  BY Facts DEF ConfigType
<1>3. CASE RecordReset(r)
  <2>1. rq' = [rq EXCEPT ![r] = [[rq[r] EXCEPT !.pc = "count"] EXCEPT !.seen = rq[r].seen]]
    BY <1>1, <1>3, Facts DEF RecordReset, RequestType
  <2>2. HealthType' /\ config' = config /\ permits' = permits
    BY <1>1, <1>2, <1>3 DEF RecordReset, HealthType, ModeAware
  <2>3. rq[r].pc \in Answered /\ "count" \in Answered
    BY <1>3 DEF RecordReset, At, Answered
  <2> QED
    BY <1>1, <2>1, <2>2, <2>3, RecordMove
<1>4. CASE RecordCount(r)
  <2> DEFINE w == AtMost(wins[rq[r].u] + 1, config.onlineAt)
             f == AtMost(failures[rq[r].u] + 1, config.offlineAt)
             n == IF rq[r].out \in Ok THEN w ELSE f
  <2>1. w \in 0 .. config.onlineAt /\ f \in 0 .. config.offlineAt /\ n \in Nat
    BY <1>1, <1>2 DEF HealthType, AtMost
  <2>2. /\ IF rq[r].out \in Ok
           THEN wins' = [wins EXCEPT ![rq[r].u] = w] /\ failures' = failures
           ELSE failures' = [failures EXCEPT ![rq[r].u] = f] /\ wins' = wins
        /\ rq' = [rq EXCEPT ![r].pc = "mark", ![r].seen = n]
        /\ config' = config /\ permits' = permits /\ offline' = offline /\ qmode' = qmode /\ rq[r].pc = "count"
    BY <1>4 DEF RecordCount, At
  <2> HIDE DEF w, f, n
  <2>3. rq' = [rq EXCEPT ![r] = [[rq[r] EXCEPT !.pc = "mark"] EXCEPT !.seen = n]]
    BY <2>2, <1>1, Facts
  <2>4. HealthType'
    BY <1>1, <1>2, <2>1, <2>2 DEF HealthType, ModeAware
  <2>5. rq[r].pc \in Answered /\ "mark" \in Answered
    BY <2>2 DEF Answered
  <2> QED
    BY <2>1, <2>2, <2>3, <2>4, <2>5, RecordMove
<1>5. CASE RecordMark(r)
  <2>1. rq' = [rq EXCEPT ![r] = [[rq[r] EXCEPT !.pc = "judge"] EXCEPT !.seen = 0]]
    BY <1>1, <1>5, Facts DEF RecordMark
  <2>2. HealthType' /\ config' = config /\ permits' = permits
    BY <1>1, <1>2, <1>5 DEF RecordMark, HealthType, ModeAware
  <2>3. rq[r].pc \in Answered /\ "judge" \in Answered
    BY <1>5 DEF RecordMark, At, Answered
  <2> QED
    BY <2>1, <2>2, <2>3, RecordMove
<1> QED
  BY <1>3, <1>4, <1>5 DEF Record

\* Request x, about to try the upstreams in rest, is sound once its last call is forgotten.
LEMMA ForgetCall ==
    ASSUME NEW x \in RequestType, x.pc = "next", x.attempt <= config.retries,
           config.mode # "single", x.calls + Ahead(x) <= CallCost * (N + 1),
           x.ask \in {"text", "vector"},
           config.mode = "pool" /\ x.target = NoTarget => x.cands \subseteq x.rest \cup x.bad
    PROVE  /\ Sound([x EXCEPT !.phase = "none", !.u = 1, !.out = "thin"])
           /\ [x EXCEPT !.phase = "none", !.u = 1, !.out = "thin"].pc = "next"
<1> DEFINE q == [[[x EXCEPT !.phase = "none"] EXCEPT !.u = 1] EXCEPT !.out = "thin"]
<1>1. [x EXCEPT !.phase = "none", !.u = 1, !.out = "thin"] = q
  BY Zenon
<1>2. 1 \in Upstreams /\ "thin" \in Outcomes
  BY DispatchAssumption DEF Upstreams, Outcomes, Ok
<1>3. [[x EXCEPT !.phase = "none"] EXCEPT !.u = 1] \in RequestType
  BY <1>2, FieldTypes
<1>4. q \in RequestType
  BY <1>2, <1>3, FieldTypes
<1>5. /\ q.pc = "next" /\ q.phase = "none" /\ q.attempt = x.attempt /\ q.target = x.target
      /\ q.calls = x.calls /\ q.rest = x.rest /\ q.cands = x.cands /\ q.bad = x.bad /\ q.ask = x.ask
  BY DEF RequestType
<1> HIDE DEF q
<1>6. CallInv(q)
  <2>1. Slack(q) = 0 /\ Ahead(q) = Ahead(x) /\ Ahead(x) \in Nat /\ x.calls \in Nat
    BY <1>5, Costs DEF Slack, Ahead, RequestType
  <2> QED
    BY <1>5, <2>1 DEF CallInv
<1>7. Sound(q)
  BY <1>4, <1>5, <1>6 DEF Sound, PlaceInv, TriedInv, Busy, Answered, Ended
<1> QED
  BY <1>1, <1>5, <1>7

LEMMA JudgeFallBackStep ==
    ASSUME DispatchInv, NEW r \in Requests, JudgeFallBack(r)
    PROVE  DispatchInv'
<1> DEFINE x == IF rq[r].phase = "target" THEN Ordered(r)
                ELSE IF rq[r].phase = "primary"
                     THEN [rq[r] EXCEPT !.pc = "next", !.rest = rq[r].cands]
                     ELSE [rq[r] EXCEPT !.pc = "next"]
           q == [x EXCEPT !.phase = "none", !.u = 1, !.out = "thin"]
<1>1. /\ rq' = [rq EXCEPT ![r] = q] /\ config' = config /\ permits' = permits
      /\ rq[r].pc = "judge" /\ ~Decides(r)
  BY DEF JudgeFallBack, At
<1>2. rq[r] \in RequestType /\ Sound(rq[r]) /\ config \in ConfigType
  BY Facts
<1>3. /\ rq[r].phase \in {"target", "primary", "loop"} /\ config.mode # "single"
      /\ rq[r].attempt <= config.retries /\ rq[r].ask \in {"text", "vector"} /\ Slack(rq[r]) = 0
      /\ rq[r].calls \in Nat
  BY <1>1, <1>2 DEF Sound, PlaceInv, RequestType, Decides, Busy, Answered, Slack
<1>4. /\ x \in RequestType /\ x.pc = "next" /\ x.attempt = rq[r].attempt /\ x.ask = rq[r].ask
      /\ x.calls + Ahead(x) <= CallCost * (N + 1)
      /\ config.mode = "pool" /\ x.target = NoTarget => x.cands \subseteq x.rest \cup x.bad
  <2>1. CASE rq[r].phase = "target"
    <3>1. config.mode # "pool" /\ rq[r].calls <= CallCost
      BY <1>1, <1>2, <1>3, <2>1 DEF Decides, Sound, CallInv
    <3>2. /\ Ahead(x) \in Nat /\ CallCost + Ahead(x) <= CallCost * (N + 1)
          /\ CallCost \in Nat /\ CallCost * (N + 1) \in Nat
      BY <2>1, CandidatesType, Costs, OrderedType DEF Ahead
    <3>3. x = Ordered(r) /\ Ordered(r).calls = rq[r].calls /\ Ordered(r).ask = rq[r].ask
      BY <2>1, OrderedType
    <3>4. Ordered(r) \in RequestType /\ Ordered(r).pc = "next" /\ Ordered(r).attempt = rq[r].attempt
      BY OrderedType
    <3> HIDE DEF x
    <3> QED
      BY <1>3, <3>1, <3>2, <3>3, <3>4
  <2>2. CASE rq[r].phase = "primary"
    <3>1. x = [[rq[r] EXCEPT !.pc = "next"] EXCEPT !.rest = rq[r].cands]
      BY <2>2
    <3>2. x \in RequestType /\ x.pc = "next" /\ x.attempt = rq[r].attempt /\ x.calls = rq[r].calls
          /\ x.rest = rq[r].cands /\ x.cands = rq[r].cands /\ x.ask = rq[r].ask
      BY <1>2, <3>1, ZenonT(60) DEF RequestType, Inside
    <3>3. rq[r].calls <= CallCost /\ rq[r].cands \in SUBSET Upstreams
      BY <1>2, <1>3, <2>2 DEF Sound, CallInv, RequestType
    <3> HIDE DEF x
    <3>4. /\ Ahead(x) \in Nat /\ CallCost + Ahead(x) <= CallCost * (N + 1)
          /\ CallCost \in Nat /\ CallCost * (N + 1) \in Nat
      BY <3>2, <3>3, Costs DEF Ahead
    <3> QED
      BY <1>3, <3>2, <3>3, <3>4
  <2>3. CASE rq[r].phase = "loop"
    <3>1. x = [rq[r] EXCEPT !.pc = "next"]
      BY <2>3
    <3>2. x \in RequestType /\ x.pc = "next" /\ x.attempt = rq[r].attempt /\ x.calls = rq[r].calls
          /\ x.rest = rq[r].rest /\ x.cands = rq[r].cands /\ x.bad = rq[r].bad /\ x.target = rq[r].target
          /\ x.ask = rq[r].ask
      BY <1>2, <3>1 DEF RequestType, Inside
    <3>3. x.calls + Ahead(x) <= CallCost * (N + 1)
      <4>1. Ahead(x) = Ahead(rq[r]) /\ Ahead(x) \in Nat /\ CallCost * (N + 1) \in Nat
        BY <1>2, <3>2, Costs DEF Ahead, RequestType
      <4> QED
        BY <1>2, <1>3, <2>3, <3>2, <4>1 DEF Sound, CallInv
    <3>4. config.mode = "pool" /\ x.target = NoTarget => x.cands \subseteq x.rest \cup x.bad
      <4>1. SUFFICES ASSUME config.mode = "pool", x.target = NoTarget
                     PROVE  x.cands \subseteq x.rest \cup x.bad
        OBVIOUS
      <4>2. rq[r].out = "error"
        BY <1>1, <1>2, <4>1 DEF Decides, RequestType, Outcomes
      <4>3. rq[r].u \in rq[r].bad /\ rq[r].cands \subseteq rq[r].rest \cup rq[r].bad \cup {rq[r].u}
        BY <1>1, <1>2, <2>3, <3>2, <4>1, <4>2 DEF Sound, TriedInv, Answered
      <4> QED
        BY <3>2, <4>3
    <3> QED
      BY <3>2, <3>3, <3>4
  <2> QED
    BY <1>3, <2>1, <2>2, <2>3
<1> HIDE DEF x
<1>5. Sound(q) /\ q.pc = "next"
  BY <1>3, <1>4, ForgetCall
<1>6. HealthType'
  BY Facts DEF JudgeFallBack, hvars, HealthType, ModeAware
<1>7. rq[r].pc \in Inside /\ q.pc \in Inside
  BY <1>1, <1>5 DEF Inside
<1> HIDE DEF q
<1> QED
  BY <1>1, <1>5, <1>6, <1>7, RequestMoves

LEMMA TryNextStep ==
    ASSUME DispatchInv, NEW r \in Requests, TryNext(r)
    PROVE  DispatchInv'
<1>1. PICK u \in rq[r].rest :
         rq' = LET c == Calling(r, "loop", u) IN [c EXCEPT ![r].rest = @ \ {u}]
  BY DEF TryNext
<1>2. rq[r] \in RequestType /\ Sound(rq[r])
  BY Facts
<1>3. u \in Upstreams /\ rq[r].rest \in SUBSET Upstreams
  BY <1>1, <1>2 DEF RequestType
<1> DEFINE c == Called(rq[r], "loop", u)
           q == [c EXCEPT !.rest = rq[r].rest \ {u}]
<1>4. /\ Calling(r, "loop", u) = [rq EXCEPT ![r] = c] /\ c \in RequestType /\ c.pc = "calling"
      /\ c.phase = "loop" /\ c.u = u /\ c.calls = rq[r].calls + 1 /\ c.rest = rq[r].rest
      /\ c.cands = rq[r].cands /\ c.bad = rq[r].bad
      /\ c.target = rq[r].target /\ c.attempt = rq[r].attempt /\ c.ask = FirstAsk(u)
  BY <1>3, Facts, CalledType
<1> HIDE DEF c
<1>5. rq' = [rq EXCEPT ![r] = q]
  BY <1>1, <1>4, Facts
<1>6. /\ q \in RequestType /\ q.pc = "calling" /\ q.phase = "loop" /\ q.u = u
      /\ q.rest = rq[r].rest \ {u} /\ q.calls = rq[r].calls + 1
      /\ q.cands = rq[r].cands /\ q.bad = rq[r].bad
      /\ q.target = rq[r].target /\ q.attempt = rq[r].attempt /\ q.ask = FirstAsk(u)
  BY <1>3, <1>4 DEF RequestType
<1> HIDE DEF q
<1>7. rq[r].pc = "next" /\ config' = config /\ permits' = permits
  BY DEF TryNext, At
<1>8. /\ rq[r].calls + Slack(rq[r]) + Ahead(rq[r]) <= CallCost * (N + 1) /\ Slack(rq[r]) = 0
      /\ rq[r].calls \in Nat /\ config.mode # "single"
  BY <1>2, <1>7 DEF Sound, CallInv, PlaceInv, RequestType, Slack
<1>9. /\ CallCost + Ahead(q) = Ahead(rq[r]) /\ Ahead(rq[r]) \in Nat /\ Ahead(q) \in Nat
      /\ CallCost \in Nat /\ CallCost * (N + 1) \in Nat
  <2>1. rq[r].rest \ {u} \in SUBSET Upstreams
    BY <1>3
  <2>2. CallCost * Cardinality(rq[r].rest \ {u}) \in Nat
    BY <2>1, Costs
  <2> QED
    BY <1>1, <1>3, <1>6, <2>2, Costs DEF Ahead
<1>10. CallInv(q)
  <2>1. Slack(q) \in Nat /\ 1 + Slack(q) <= CallCost
    BY <1>3, <1>6, Facts, FirstAsks
  <2> QED
    BY <1>6, <1>8, <1>9, <2>1 DEF CallInv
<1>11. TriedInv(q)
  BY <1>2, <1>6, <1>7 DEF Sound, TriedInv, Answered
<1>12. PlaceInv(q)
  <2>1. ~ModeAware => q.ask = "text"
    BY <1>3, <1>6, Facts, FirstAsks
  <2> QED
    BY <1>6, <1>8, <2>1 DEF PlaceInv, Busy, Ended
<1>13. Sound(q)
  BY <1>2, <1>6, <1>10, <1>11, <1>12 DEF Sound
<1>14. HealthType'
  BY Facts DEF TryNext, hvars, HealthType, ModeAware
<1>15. rq[r].pc \in Inside /\ q.pc \in Inside
  BY <1>6, <1>7 DEF Inside
<1> QED
  BY <1>5, <1>7, <1>13, <1>14, <1>15, RequestMoves

LEMMA DispatchStep == DispatchInv /\ [Next]_vars => DispatchInv'
<1> SUFFICES ASSUME DispatchInv, [Next]_vars PROVE DispatchInv'
  OBVIOUS
<1>1. ASSUME NEW r \in Requests, NEW t \in {NoTarget} \cup Named, Begin(r, t) PROVE DispatchInv'
  BY <1>1, BeginStep
<1>2. ASSUME NEW r \in Requests, Select(r) PROVE DispatchInv'
  <2>1. CASE SelectSingle(r)
    <3>1. 1 \in Upstreams
      BY DispatchAssumption DEF Upstreams
    <3> QED
      BY <2>1, <3>1, SelectCall DEF SelectSingle
  <2>2. CASE SelectTarget(r)
    <3>1. rq[r].target \in Upstreams
      BY <2>2, Facts DEF SelectTarget, RequestType
    <3> QED
      BY <2>2, <3>1, SelectCall DEF SelectTarget
  <2> QED
    BY <1>2, <2>1, <2>2, SelectPrimaryStep, SelectCascadeStep DEF Select
<1>3. ASSUME NEW r \in Requests, Judge(r) PROVE DispatchInv'
  <2>1. CASE JudgeFinal(r)
    BY <2>1, EndAttemptStep DEF JudgeFinal, At, Inside
  <2> QED
    BY <1>3, <2>1, JudgeFallBackStep DEF Judge
<1>4. ASSUME NEW r \in Requests, Continue(r) PROVE DispatchInv'
  <2>1. rq[r].pc \in Inside
    BY <1>4 DEF Continue, TryNext, PoolExhausted, CascadeExhausted, CascadeTooDeep, CascadeTimeout,
       At, Inside
  <2> QED
    BY <1>4, <2>1, TryNextStep, EndAttemptStep
       DEF Continue, PoolExhausted, CascadeExhausted, CascadeTooDeep, CascadeTimeout
<1>5. CASE UNCHANGED vars
  BY <1>5 DEF vars, DispatchInv, TypeOK, PermitsConserved, HoldsPermit, Sound, PlaceInv, CallInv,
     TriedInv, Slack, Ahead, CallCost, ModeAware
<1> QED
  BY <1>1, <1>2, <1>3, <1>4, <1>5, RejectStep, AdmitStep, AnswerStep, ProbeStep, RecordStep, AbandonStep
     DEF Next, Step

LEMMA DispatchInit == Init => DispatchInv
<1> SUFFICES ASSUME Init PROVE DispatchInv
  OBVIOUS
<1>1. config \in Configs /\ config \in ConfigType
  BY DispatchAssumption DEF Init
<1>2. 0 <= config.retries /\ config.limit \in Nat /\ 0 \in 0 .. config.offlineAt /\ 0 \in 0 .. config.onlineAt
  BY <1>1 DEF ConfigType
<1>3. Sound(Fresh) /\ Fresh.pc \notin Inside
  <2>1. Fresh = Outside("idle", NoTarget, 0)
    BY FreshMoved
  <2> QED
    BY <1>1, <1>2, <2>1, OutsideSound
<1>4. rq = [r \in Requests |-> Fresh]
  BY DEF Init
<1>5. \A r \in Requests : Sound(rq[r]) /\ rq[r].pc \notin Inside
  BY <1>3, <1>4
<1>6. TypeOK
  BY <1>1, <1>2, <1>3, <1>4 DEF Init, TypeOK, Sound
<1>7. PermitsConserved
  <2>1. {r \in Requests : HoldsPermit(r)} = {}
    BY <1>5 DEF HoldsPermit
  <2> QED
    BY <1>2, <2>1, FS_EmptySet DEF Init, PermitsConserved
<1> QED
  BY <1>5, <1>6, <1>7 DEF DispatchInv

LEMMA CallsLeft == DispatchInv => CallBound
<1> SUFFICES ASSUME DispatchInv, NEW r \in Requests PROVE rq[r].calls <= CallCost * (N + 1)
  BY DEF CallBound
<1>1. rq[r] \in RequestType /\ Sound(rq[r]) /\ rq[r].calls \in Nat
  BY Facts DEF RequestType
<1>2. /\ Ahead(rq[r]) \in Nat /\ Slack(rq[r]) \in Nat /\ CallCost <= CallCost * (N + 1)
      /\ CallCost \in Nat /\ CallCost * (N + 1) \in Nat
  BY <1>1, Costs DEF Ahead, Slack, RequestType
<1>3. rq[r].pc \in {"idle", "start", "select"} \cup Ended => rq[r].calls = 0
  BY <1>1 DEF Sound, PlaceInv
<1>4. rq[r].phase \in {"single", "target", "primary"} => rq[r].calls <= CallCost
  BY <1>1, <1>2 DEF Sound, CallInv
<1>5. rq[r].pc = "next" \/ rq[r].phase = "loop" => rq[r].calls <= CallCost * (N + 1)
  BY <1>1, <1>2 DEF Sound, CallInv
<1>6. \/ rq[r].pc \in {"idle", "start", "select"} \cup Ended
      \/ rq[r].phase \in {"single", "target", "primary"}
      \/ rq[r].pc = "next" \/ rq[r].phase = "loop"
  BY <1>1 DEF Sound, PlaceInv, RequestType, Inside, Busy, Answered
<1> QED
  BY <1>1, <1>2, <1>3, <1>4, <1>5, <1>6

\* The retry loop, the pool and the cascade, for any number of upstreams and requests:
\* what they keep is of the right type, no permit is lost or doubled, and no attempt
\* makes more requests of the upstreams than N + 1 calls may cost.
THEOREM DispatchCorrect == Spec => [](TypeOK /\ PermitsConserved /\ CallBound)
<1>1. DispatchInv => TypeOK /\ PermitsConserved /\ CallBound
  BY CallsLeft DEF DispatchInv
<1> QED
  BY <1>1, DispatchInit, DispatchStep, PTL DEF Spec

\* Every step leaves the types.
THEOREM TypeCorrect == Spec => []TypeOK
<1> QED
  BY DispatchCorrect, PTL

\* global_concurrency: its permits are free or with exactly one request each, on every
\* path through dispatch_upstream_query, a dropped future included.
THEOREM PermitsNeverLeak == Spec => []PermitsConserved
<1> QED
  BY DispatchCorrect, PTL

\* An attempt costs at most one call per upstream and one more, and a call one request,
\* or three (text, probe, vector) where query modes are looked at.
THEOREM CallsBounded == Spec => []CallBound
<1> QED
  BY DispatchCorrect, PTL

\* What a step does to a request that it ends or leaves alone.
LEMMA EndsOnly ==
    ASSUME DispatchInv, [Next]_vars, NEW r \in Requests, rq'[r].pc # rq[r].pc
    PROVE  \/ \E t \in {NoTarget} \cup Named : Begin(r, t)
           \/ Step(r) \/ Abandon(r)
<1>1. rq \in [Requests -> RequestType]
  BY Facts
<1>2. Next
  BY DEF vars
<1>3. PICK s \in Requests : \/ \E t \in {NoTarget} \cup Named : Begin(s, t)
                            \/ Step(s) \/ Abandon(s)
  BY <1>2 DEF Next
<1>4. ASSUME s # r PROVE rq'[r] = rq[r]
  <2>1. ASSUME NEW q, rq' = [rq EXCEPT ![s] = q] PROVE rq'[r] = rq[r]
    BY <1>1, <1>4, <2>1
  <2>2. CASE \/ \E t \in {NoTarget} \cup Named : Begin(s, t)
             \/ Abandon(s) \/ Reject(s)
    BY <2>1, <2>2 DEF Begin, Abandon, Reject
  <2>3. CASE Admit(s) \/ Record(s) \/ (\E o \in Outcomes : Answer(s, o)) \/ Probe(s)
    BY <1>1, <1>4, <2>3 DEF Admit, Record, RecordReset, RecordCount, RecordMark, Answer, Probe,
       Unsupported, Discover, ProbeFails, AskAgain
  <2>4. CASE Select(s)
    BY <1>1, <1>4, <2>4 DEF Select, SelectSingle, SelectTarget, SelectPrimary, SelectCascade, Calling
  <2>5. CASE Judge(s)
    BY <2>1, <2>5 DEF Judge, JudgeFinal, JudgeFallBack, EndAttempt
  <2>6. CASE TryNext(s)
    BY <1>1, <1>4, <2>6 DEF TryNext, Calling
  <2>7. CASE Continue(s) /\ ~TryNext(s)
    BY <2>1, <2>7 DEF Continue, PoolExhausted, CascadeExhausted, CascadeTooDeep, CascadeTimeout, EndAttempt
  <2> QED
    BY <1>3, <2>2, <2>3, <2>4, <2>5, <2>6, <2>7 DEF Step
<1> QED
  BY <1>3, <1>4

\* How an attempt ends that was judged or had upstreams left to try.
LEMMA LateEnd ==
    ASSUME DispatchInv, [Next]_vars, NEW r \in Requests, At(r, "judge") \/ At(r, "next"),
           rq'[r].pc \notin Inside
    PROVE  \E o : /\ rq'[r] = Concluded(r, o)
                  /\ \/ At(r, "judge") /\ Decides(r) /\ (o \in Ok <=> rq[r].out \in Ok)
                     \/ At(r, "next") /\ config.mode = "pool" /\ rq[r].rest = {} /\ o \notin Ok
                     \/ /\ At(r, "next") /\ config.mode = "cascade"
                        /\ o \in Ok => \/ rq[r].oks # {}
                                       \/ Cardinality(rq[r].oks \cup rq[r].bad) >= config.depth
<1>1. rq \in [Requests -> RequestType] /\ rq[r] \in RequestType
  BY Facts
<1>2. \A o : EndAttempt(r, o) => rq'[r] = Concluded(r, o)
  BY <1>1 DEF EndAttempt
<1>3. Step(r)
  <2>1. rq'[r].pc # rq[r].pc
    BY DEF At, Inside
  <2>2. ~Abandon(r) /\ \A t : ~Begin(r, t)
    BY DEF At, Abandon, Begin, Ended
  <2> QED
    BY <2>1, <2>2, EndsOnly
<1>4. ~TryNext(r) /\ ~JudgeFallBack(r)
  <2>1. TryNext(r) => rq'[r].pc = "calling"
    BY <1>1 DEF TryNext, Calling
  <2>2. JudgeFallBack(r) => rq'[r].pc = "next"
    BY <1>1, SMTT(30) DEF JudgeFallBack, Ordered
  <2> QED
    BY <2>1, <2>2 DEF Inside
<1>5. JudgeFinal(r) \/ PoolExhausted(r) \/ CascadeExhausted(r) \/ CascadeTooDeep(r) \/ CascadeTimeout(r)
  BY <1>3, <1>4 DEF Step, Reject, Admit, Select, SelectSingle, SelectTarget, SelectPrimary,
     SelectCascade, Answer, Probe, Unsupported, Discover, ProbeFails, Record, RecordReset, RecordCount, RecordMark, Judge, Continue, At
<1>6. CASE JudgeFinal(r)
  BY <1>2, <1>6 DEF JudgeFinal, Ok, Err
<1>7. CASE PoolExhausted(r)
  BY <1>2, <1>7 DEF PoolExhausted, Ok
<1>8. CASE CascadeExhausted(r)
  BY <1>2, <1>8 DEF CascadeExhausted, Ok
<1>9. CASE CascadeTooDeep(r)
  BY <1>2, <1>9 DEF CascadeTooDeep
<1>10. CASE CascadeTimeout(r)
  BY <1>2, <1>10 DEF CascadeTimeout, Ok
<1> QED
  BY <1>5, <1>6, <1>7, <1>8, <1>9, <1>10

\* UpstreamPool::query, for any number of upstreams: an attempt of the pool fails only
\* after every candidate chosen at its start has failed, whatever other requests
\* recorded about their health meanwhile.
THEOREM NoCandidateSkipped == Spec => FailedMeansAllTried
<1>1. ASSUME DispatchInv, [Next]_vars, NEW r \in Requests, config.mode = "pool", rq[r].target = NoTarget,
             At(r, "judge") \/ At(r, "next"), rq'[r].pc \in {"start", "err"}
      PROVE  rq[r].cands \subseteq rq[r].bad
  <2>1. rq[r] \in RequestType /\ Sound(rq[r])
    BY <1>1, Facts
  <2>2. PICK o : /\ rq'[r] = Concluded(r, o)
                 /\ \/ At(r, "judge") /\ Decides(r) /\ (o \in Ok <=> rq[r].out \in Ok)
                    \/ At(r, "next") /\ rq[r].rest = {}
    BY <1>1, LateEnd, Zenon DEF Inside
  <2>3. o \notin Ok
    BY <1>1, <2>2, ConcludedOutside
  <2>4. CASE At(r, "judge") /\ Decides(r) /\ rq[r].out \notin Ok
    <3>1. rq[r].phase = "primary" /\ Cardinality(rq[r].cands) = 1
      BY <1>1, <2>1, <2>4 DEF Decides, Sound, PlaceInv
    <3>2. rq[r].u \in rq[r].cands /\ rq[r].u \in rq[r].bad
      BY <2>1, <2>4, <3>1 DEF Sound, PlaceInv, TriedInv, At, Answered, RequestType, Outcomes
    <3>3. IsFiniteSet(rq[r].cands)
      <4>1. IsFiniteSet(Upstreams) /\ rq[r].cands \subseteq Upstreams
        BY <2>1, DispatchAssumption, FS_Interval DEF Upstreams, RequestType
      <4> QED
        BY <4>1, FS_Subset
    <3>4. \E v : rq[r].cands = {v}
      BY <3>1, <3>3, FS_Singleton
    <3> QED
      BY <3>2, <3>4
  <2>5. CASE At(r, "next") /\ rq[r].rest = {}
    BY <1>1, <2>1, <2>5 DEF Sound, TriedInv, At
  <2> QED
    BY <2>2, <2>3, <2>4, <2>5
<1>2. DispatchInv /\ [Next]_vars =>
        [\A r \in Requests :
            /\ config.mode = "pool" /\ rq[r].target = NoTarget
            /\ At(r, "judge") \/ At(r, "next")
            /\ rq'[r].pc \in {"start", "err"}
            => rq[r].cands \subseteq rq[r].bad]_vars
  BY <1>1
<1> QED
  BY <1>2, DispatchInit, DispatchStep, PTL DEF Spec, FailedMeansAllTried

\* Whatever is tried and in which order, a result is some upstream's, unless the
\* cascade stopped at max_cascade_depth.
THEOREM ResultsAreBacked == Spec => OkIsBacked
<1>1. ASSUME DispatchInv, [Next]_vars, NEW r \in Requests, ~At(r, "ok"), rq'[r].pc = "ok"
      PROVE  \/ rq[r].oks # {}
             \/ config.mode = "cascade" /\ Cardinality(rq[r].bad) >= config.depth
  <2>1. rq \in [Requests -> RequestType] /\ rq[r] \in RequestType /\ Sound(rq[r])
    BY <1>1, Facts
  <2>2. CASE At(r, "judge") \/ At(r, "next")
    <3>1. PICK o : /\ rq'[r] = Concluded(r, o)
                   /\ \/ At(r, "judge") /\ Decides(r) /\ (o \in Ok <=> rq[r].out \in Ok)
                      \/ At(r, "next") /\ config.mode = "pool" /\ rq[r].rest = {} /\ o \notin Ok
                      \/ /\ At(r, "next") /\ config.mode = "cascade"
                         /\ o \in Ok => \/ rq[r].oks # {}
                                        \/ Cardinality(rq[r].oks \cup rq[r].bad) >= config.depth
      BY <1>1, <2>2, LateEnd, Zenon DEF Inside
    <3>2. o \in Ok
      BY <1>1, <3>1, ConcludedOutside
    <3>3. CASE At(r, "judge") /\ rq[r].out \in Ok
      BY <2>1, <3>3 DEF Sound, TriedInv, At, Answered
    <3>4. CASE /\ config.mode = "cascade" /\ rq[r].oks = {}
               /\ Cardinality(rq[r].oks \cup rq[r].bad) >= config.depth
      <4>1. rq[r].oks \cup rq[r].bad = rq[r].bad
        BY <3>4
      <4> QED
        BY <3>4, <4>1
    <3> QED
      BY <3>1, <3>2, <3>3, <3>4
  <2>3. CASE ~At(r, "judge") /\ ~At(r, "next")
    <3>1. rq'[r].pc # rq[r].pc
      BY <1>1, SMTT(30) DEF At
    <3>2. \/ \E t \in {NoTarget} \cup Named : Begin(r, t)
          \/ Reject(r) \/ Admit(r) \/ Select(r) \/ (\E o \in Outcomes : Answer(r, o))
          \/ Probe(r) \/ Record(r) \/ Abandon(r)
      BY <1>1, <2>3, <3>1, EndsOnly DEF Step, Judge, JudgeFinal, JudgeFallBack, Continue, TryNext,
         PoolExhausted, CascadeExhausted, CascadeTooDeep, CascadeTimeout
    <3>3. ASSUME NEW t, Begin(r, t) PROVE rq'[r].pc # "ok"
      BY <2>1, <3>3, FreshMoved DEF Begin, Outside
    <3>4. CASE Reject(r)
      <4>1. rq'[r] = Concluded(r, "transient") /\ "transient" \notin Ok
        BY <2>1, <3>4 DEF Reject, Ok
      <4> QED
        BY <1>1, <4>1, ConcludedOutside
    <3>5. CASE Abandon(r)
      BY <1>1, <2>1, <3>5 DEF Abandon, Fresh
    <3>6. Admit(r) => rq'[r].pc = "select"
      BY <2>1 DEF Admit, RequestType
    <3>7. ASSUME NEW o, Answer(r, o) PROVE rq'[r].pc \in {"judge", "reset"}
      BY <2>1, <3>7 DEF Answer, Heard, RequestType
    <3>8. Record(r) => rq'[r].pc \in {"count", "mark", "judge"}
      BY <2>1 DEF Record, RecordReset, RecordCount, RecordMark, RequestType
    <3>9. SelectSingle(r) \/ SelectTarget(r) => rq'[r].pc = "calling"
      BY <2>1 DEF SelectSingle, SelectTarget, Calling, RequestType
    <3>10. SelectPrimary(r) => rq'[r].pc = "calling"
      BY <2>1 DEF SelectPrimary, Calling, RequestType
    <3>11. SelectCascade(r) => rq'[r].pc = "next"
      BY <2>1 DEF SelectCascade, Ordered, RequestType
    <3>12. CASE Probe(r)
      <4>1. \A a : rq' = AskAgain(r, a) => rq'[r].pc = rq[r].pc
        BY <2>1 DEF AskAgain, RequestType
      <4>2. Heard(r, "error").pc \in {"judge", "reset"}
        BY <2>1 DEF Heard, RequestType
      <4>3. rq' = [rq EXCEPT ![r] = Heard(r, "error")] => rq'[r] = Heard(r, "error")
        BY <2>1
      <4>4. rq'[r].pc \in {rq[r].pc, "judge", "reset"}
        BY <3>12, <4>1, <4>2, <4>3 DEF Probe, Unsupported, Discover, ProbeFails
      <4> QED
        BY <1>1, <3>1, <4>4
    <3> QED
      BY <1>1, <3>2, <3>3, <3>4, <3>5, <3>6, <3>7, <3>8, <3>9, <3>10, <3>11, <3>12 DEF Select
  <2> QED
    BY <2>2, <2>3
<1>2. DispatchInv /\ [Next]_vars =>
        [\A r \in Requests :
            ~At(r, "ok") /\ rq'[r].pc = "ok"
            => \/ rq[r].oks # {}
               \/ config.mode = "cascade" /\ Cardinality(rq[r].bad) >= config.depth]_vars
  BY <1>1
<1> QED
  BY <1>2, DispatchInit, DispatchStep, PTL DEF Spec, OkIsBacked
=============================================================================
