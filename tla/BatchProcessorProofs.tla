------------------------ MODULE BatchProcessorProofs ------------------------
(***************************************************************************)
(* What BatchProcessor satisfies for every number of queries, any choice   *)
(* of duplicates among them and every configuration.                       *)
(***************************************************************************)
EXTENDS BatchProcessor, FiniteSetTheorems, TLAPS

Handlers == {"start", "join", "seq", "await", "returned", "dropped"}
Places == {"none", "new", "acquire", "done", "gone"} \cup Running

\* The types without the bounds that need the counting invariants.
Types ==
    /\ config \in Configs
    /\ handler \in Handlers
    /\ j \in 1 .. N + 1 /\ late \in BOOLEAN
    /\ answer \in [results : SUBSET Items, ok : Nat, err : Nat, complete : BOOLEAN]
    /\ pc \in [Items -> Places]
    /\ res \in [Items -> {"none", "ok", "err", "panic"}]
    /\ msg \in [Items -> {"none", "ok", "err"}]
    /\ permits \in Nat
    /\ failed \in BOOLEAN
    /\ flight \in [Keys -> Items \cup {0, Outside}]
    /\ cached \in [Keys -> {"none", "usable", "expired"}]

\* Which parts of the program are at work: only parallel batches have tasks and use
\* permits, a sequential batch has not touched the queries ahead of it, and a result
\* belongs to a query that is over.
ModeInv ==
    /\ handler \in {"seq", "await"} => ~Parallel
    /\ handler = "join" => Parallel
    /\ handler = "start" => \A i \in Items : pc[i] = "none"
    /\ ~Parallel => permits = config.maxParallel /\ \A i \in Items : pc[i] \notin {"new", "acquire"}
    /\ handler = "seq" => \A i \in Items : i >= j => pc[i] = "none"
    /\ handler = "await" => j \in Items /\ \A i \in Items : i > j => pc[i] = "none"
    /\ \A i \in Items : res[i] # "none" => pc[i] \in {"done", "gone"}
    /\ \A i \in Items : pc[i] = "done" => res[i] # "none"

\* A query that fetches leads its key, and a key is led by one that fetches it or was
\* cut off while it did.
LeadInv ==
    /\ LeaderAtWork
    /\ \A i \in Items : pc[i] = "fetch" => flight[Key(i)] = i

\* The handler has counted each query before j once.
CountInv ==
    /\ handler # "returned" => answer.ok + answer.err = j - 1
    /\ answer.ok + answer.err <= N
    /\ answer.results \subseteq 1 .. answer.ok + answer.err
    /\ \A i \in answer.results : res[i] # "none"
    /\ answer.complete =>
         IF handler = "returned" THEN answer.results = Items /\ answer.ok + answer.err = N
         ELSE answer.results = 1 .. j - 1
    /\ answer.ok = Cardinality({i \in answer.results : res[i] = "ok"})

BatchInv == Types /\ ModeInv /\ LeadInv /\ ParallelBound /\ CountInv

-----------------------------------------------------------------------------
(* Basic facts                                                             *)

\* The queries of a batch are finitely many, and each has a key.
LEMMA Basics ==
    /\ N \in Nat /\ N > 0
    /\ 0 \notin Items /\ Outside \notin Items /\ Outside # 0
    /\ IsFiniteSet(Items)
    /\ \A S \in SUBSET Items : IsFiniteSet(S) /\ Cardinality(S) \in Nat
<1>1. N \in Nat /\ N > 0
  BY BatchAssumption
<1>2. IsFiniteSet(Items)
  BY <1>1, FS_Interval DEF Items
<1>3. 0 \notin Items /\ Outside \notin Items /\ Outside # 0
  BY <1>1 DEF Items, Outside
<1> QED
  BY <1>1, <1>2, <1>3, FS_Subset, FS_CardinalityType

\* The configuration's fields have their types.
LEMMA Config ==
    ASSUME config \in Configs
    PROVE  /\ config.maxParallel \in Nat \ {0}
           /\ config.parallel \in BOOLEAN /\ config.failFast \in BOOLEAN
           /\ \A i \in Items : Key(i) \in Keys
  BY BatchAssumption DEF ConfigType, Key

\* The number of running queries when one of them starts or ends.
LEMMA OneRunner ==
    ASSUME pc \in [Items -> Places], NEW i \in Items, NEW p \in Places, pc' = [pc EXCEPT ![i] = p]
    PROVE  LET R == {m \in Items : pc[m] \in Running}
               S == {m \in Items : pc'[m] \in Running}
           IN  /\ Cardinality(R) \in Nat /\ Cardinality(S) \in Nat
               /\ (pc[i] \in Running <=> p \in Running) => Cardinality(S) = Cardinality(R)
               /\ pc[i] \in Running /\ p \notin Running => Cardinality(S) = Cardinality(R) - 1
               /\ pc[i] \notin Running /\ p \in Running => Cardinality(S) = Cardinality(R) + 1
<1> DEFINE R == {m \in Items : pc[m] \in Running}
           S == {m \in Items : pc'[m] \in Running}
<1>1. R \in SUBSET Items /\ S \in SUBSET Items /\ (i \in R <=> pc[i] \in Running)
  OBVIOUS
<1>2. S = IF p \in Running THEN R \cup {i} ELSE R \ {i}
  OBVIOUS
<1>3. IsFiniteSet(R) /\ Cardinality(R) \in Nat /\ Cardinality(S) \in Nat
  BY <1>1, Basics
<1>4. /\ Cardinality(R \cup {i}) = IF i \in R THEN Cardinality(R) ELSE Cardinality(R) + 1
      /\ Cardinality(R \ {i}) = IF i \in R THEN Cardinality(R) - 1 ELSE Cardinality(R)
  BY <1>3, FS_AddElement, FS_RemoveElement
<1> HIDE DEF R, S
<1>5. /\ Cardinality(R) \in Nat /\ Cardinality(S) \in Nat
      /\ (pc[i] \in Running <=> p \in Running) => Cardinality(S) = Cardinality(R)
      /\ pc[i] \in Running /\ p \notin Running => Cardinality(S) = Cardinality(R) - 1
      /\ pc[i] \notin Running /\ p \in Running => Cardinality(S) = Cardinality(R) + 1
  BY <1>1, <1>2, <1>3, <1>4
<1> QED
  BY <1>5 DEF R, S

-----------------------------------------------------------------------------
(* The invariant step by step                                              *)

AnswerType == [results : SUBSET Items, ok : Nat, err : Nat, complete : BOOLEAN]

\* An incomplete answer with its errors replaced.
LEMMA WithError ==
    ASSUME NEW a \in AnswerType, NEW n \in Nat
    PROVE  /\ [a EXCEPT !.err = n, !.complete = FALSE] \in AnswerType
           /\ [a EXCEPT !.err = n, !.complete = FALSE].results = a.results
           /\ [a EXCEPT !.err = n, !.complete = FALSE].ok = a.ok
           /\ [a EXCEPT !.err = n, !.complete = FALSE].err = n
           /\ [a EXCEPT !.err = n, !.complete = FALSE].complete = FALSE
<1>1. [a EXCEPT !.err = n, !.complete = FALSE] \in AnswerType
  BY DEF AnswerType
<1>2. /\ [a EXCEPT !.err = n, !.complete = FALSE].results = a.results
      /\ [a EXCEPT !.err = n, !.complete = FALSE].ok = a.ok
      /\ [a EXCEPT !.err = n, !.complete = FALSE].err = n
      /\ [a EXCEPT !.err = n, !.complete = FALSE].complete = FALSE
  BY DEF AnswerType
<1> QED
  BY <1>1, <1>2

\* An answer with another verdict.
LEMMA WithComplete ==
    ASSUME NEW a \in AnswerType, NEW b \in BOOLEAN
    PROVE  /\ [a EXCEPT !.complete = b] \in AnswerType
           /\ [a EXCEPT !.complete = b].results = a.results
           /\ [a EXCEPT !.complete = b].ok = a.ok
           /\ [a EXCEPT !.complete = b].err = a.err
           /\ [a EXCEPT !.complete = b].complete = b
<1>1. [a EXCEPT !.complete = b] \in AnswerType
  BY DEF AnswerType
<1>2. /\ [a EXCEPT !.complete = b].results = a.results
      /\ [a EXCEPT !.complete = b].ok = a.ok
      /\ [a EXCEPT !.complete = b].err = a.err
      /\ [a EXCEPT !.complete = b].complete = b
  BY DEF AnswerType
<1> QED
  BY <1>1, <1>2

\* The answer with one more result.
LEMMA CountedIs ==
    ASSUME answer \in AnswerType, j \in Items
    PROVE  /\ Counted \in AnswerType
           /\ Counted.results = answer.results \cup {j}
           /\ Counted.ok = IF res[j] = "ok" THEN answer.ok + 1 ELSE answer.ok
           /\ Counted.err = IF res[j] = "ok" THEN answer.err ELSE answer.err + 1
           /\ Counted.complete = answer.complete
<1>1. /\ answer.results \cup {j} \in SUBSET Items /\ answer.complete \in BOOLEAN
      /\ answer.ok \in Nat /\ answer.err \in Nat
  BY DEF AnswerType
<1>2. Counted \in AnswerType
  BY <1>1 DEF Counted, AnswerType
<1>3. /\ Counted.results = answer.results \cup {j}
      /\ Counted.ok = answer.ok + (IF res[j] = "ok" THEN 1 ELSE 0)
      /\ Counted.err = answer.err + (IF res[j] = "ok" THEN 0 ELSE 1)
      /\ Counted.complete = answer.complete
  BY DEF Counted
<1> QED
  BY <1>1, <1>2, <1>3

\* The answer after a panic.
LEMMA PanicIs ==
    ASSUME answer \in AnswerType, JoinPanic
    PROVE  /\ answer' \in AnswerType /\ answer'.results = answer.results /\ answer'.ok = answer.ok
           /\ answer'.err = answer.err + 1 /\ answer'.complete = FALSE
<1>1. PICK n \in Nat : n = answer.err + 1
  BY DEF AnswerType
<1>2. answer' = [answer EXCEPT !.err = n, !.complete = FALSE]
  BY <1>1 DEF JoinPanic
<1> QED
  BY <1>1, <1>2, WithError

\* The answer when the deadline ends the loop.
LEMMA TimeoutIs ==
    ASSUME answer \in AnswerType, JoinTimeout \/ SeqTimeout
    PROVE  /\ answer' \in AnswerType /\ answer'.results = answer.results /\ answer'.ok = answer.ok
           /\ answer'.err = answer.err /\ answer'.complete = FALSE
<1>1. answer' = [answer EXCEPT !.complete = FALSE]
  BY DEF JoinTimeout, SeqTimeout
<1> QED
  BY <1>1, WithComplete

\* The answer after a query of a sequential batch.
LEMMA SeqIs ==
    ASSUME answer \in AnswerType, j \in Items, SeqResult
    PROVE  /\ answer' \in AnswerType /\ answer'.results = answer.results \cup {j}
           /\ answer'.ok = IF res[j] = "ok" THEN answer.ok + 1 ELSE answer.ok
           /\ answer'.err = IF res[j] = "ok" THEN answer.err ELSE answer.err + 1
           /\ answer'.complete = (answer.complete /\ ~(res[j] = "err" /\ config.failFast))
<1> DEFINE b == answer.complete /\ ~(res[j] = "err" /\ config.failFast)
<1>1. Counted \in AnswerType /\ Counted.complete = answer.complete
      /\ Counted.results = answer.results \cup {j}
      /\ Counted.ok = (IF res[j] = "ok" THEN answer.ok + 1 ELSE answer.ok)
      /\ Counted.err = (IF res[j] = "ok" THEN answer.err ELSE answer.err + 1)
  BY CountedIs
<1>2. answer' = [Counted EXCEPT !.complete = b] /\ b \in BOOLEAN
  BY <1>1 DEF SeqResult
<1> HIDE DEF b
<1>3. /\ answer' \in AnswerType /\ answer'.results = Counted.results /\ answer'.ok = Counted.ok
      /\ answer'.err = Counted.err /\ answer'.complete = b
  BY <1>1, <1>2, WithComplete
<1> QED
  BY <1>1, <1>3 DEF b

\* A query that neither leads a key nor starts to leaves the flights as they are.
LEMMA Bystander ==
    ASSUME Types, ModeInv, LeadInv, NEW i \in Items, NEW p \in Places \ {"fetch"},
           pc[i] \notin {"fetch", "gone"}, res[i] # "panic", pc' = [pc EXCEPT ![i] = p],
           res' = res \/ \E r \in {"ok", "err"} : res' = [res EXCEPT ![i] = r],
           UNCHANGED <<config, flight>>
    PROVE  LeadInv'
<1>1. ASSUME NEW k \in Keys, flight[k] \in Items PROVE flight[k] # i
  BY <1>1 DEF Types, LeadInv, LeaderAtWork
<1>2. ASSUME NEW k \in Keys, flight'[k] \in Items
      PROVE  /\ Key(flight[k])' = k
             /\ pc'[flight'[k]] \in {"fetch", "gone"} \/ res'[flight'[k]] = "panic"
  BY <1>1, <1>2 DEF Types, LeadInv, LeaderAtWork, Key
<1>3. \A m \in Items : pc'[m] = "fetch" => pc[m] = "fetch"
  BY DEF Types
<1>4. \A m \in Items : pc'[m] = "fetch" => flight'[Key(m)'] = m
  BY <1>3 DEF LeadInv, Key
<1> QED
  BY <1>2, <1>4 DEF LeadInv, LeaderAtWork, Key

\* A function stays of its type when one of its values is replaced.
LEMMA Update ==
    ASSUME NEW K, NEW V, NEW f \in [K -> V], NEW k \in K, NEW v \in V
    PROVE  [f EXCEPT ![k] = v] \in [K -> V]
  OBVIOUS

\* Every step keeps the types.
LEMMA TypesStep ==
    ASSUME Types, ModeInv, [Next]_vars
    PROVE  Types'
<1> USE Basics, Config DEF Types, Handlers, Places, Running, Items, hvars, ModeInv
<1>1. CASE Handle
  <2>1. CASE Spawn
    BY <2>1 DEF Spawn
  <2>2. CASE StartSequential
    BY <2>2 DEF StartSequential
  <2>3. CASE JoinResult
    <3>1. j \in Items /\ j + 1 \in 1 .. N + 1 /\ answer' \in AnswerType
      BY <2>3, CountedIs DEF JoinResult, AnswerType
    <3> QED
      BY <2>3, <3>1 DEF JoinResult, AnswerType
  <2>4. CASE JoinPanic
    <3>1. j \in Items /\ j + 1 \in 1 .. N + 1
      BY <2>4 DEF JoinPanic
    <3>2. answer' \in AnswerType
      BY <2>4, PanicIs DEF AnswerType
    <3> QED
      BY <2>4, <3>1, <3>2 DEF JoinPanic, AnswerType
  <2>5. CASE JoinTimeout
    BY <2>5 DEF JoinTimeout
  <2>6. CASE Return
    BY <2>6 DEF Return
  <2>7. CASE SeqTimeout
    BY <2>7 DEF SeqTimeout
  <2>8. CASE SeqRun
    BY <2>8 DEF SeqRun
  <2>9. CASE SeqResult
    <3>1. j \in Items /\ j + 1 \in 1 .. N + 1
      BY <2>9 DEF SeqResult
    <3>2. answer' \in AnswerType
      BY <2>9, <3>1, SeqIs DEF AnswerType
    <3> QED
      BY <2>9, <3>1, <3>2 DEF SeqResult, AnswerType
  <2> QED
    BY <1>1, <2>1, <2>2, <2>3, <2>4, <2>5, <2>6, <2>7, <2>8, <2>9 DEF Handle
<1>2. CASE DeadlinePasses
  BY <1>2 DEF DeadlinePasses
<1>3. CASE Drop
  BY <1>3 DEF Drop
<1>4. ASSUME NEW i \in Items, Run(i) PROVE Types'
  <2>1. CASE SkipFailed(i)
    BY <1>4, <2>1 DEF SkipFailed, Finish
  <2>2. CASE PassFlag(i)
    BY <1>4, <2>2 DEF PassFlag
  <2>3. CASE Acquire(i)
    BY <1>4, <2>3 DEF Acquire
  <2>4. CASE CacheHit(i)
    BY <1>4, <2>4 DEF CacheHit, Finish
  <2>5. CASE CacheMiss(i)
    BY <1>4, <2>5 DEF CacheMiss
  <2>6. CASE CacheOnly(i)
    BY <1>4, <2>6 DEF CacheOnly, Finish, Frozen
  <2>7. CASE Coalesce(i)
    <3>1. Key(i) \in Keys /\ i \in Items \cup {0, Outside}
      OBVIOUS
    <3>a. /\ flight' = flight \/ flight' = [flight EXCEPT ![Key(i)] = i]
          /\ pc' = [pc EXCEPT ![i] = "fetch"] \/ pc' = [pc EXCEPT ![i] = "wait"]
      BY <2>7, Zenon DEF Coalesce
    <3>2. flight' \in [Keys -> Items \cup {0, Outside}]
      BY <3>a, <3>1, Update
    <3>3. pc' \in [Items -> Places]
      BY <1>4, <3>a, Update
    <3> QED
      BY <2>7, <3>2, <3>3 DEF Coalesce
  <2>8. CASE FetchOk(i)
    BY <1>4, <2>8 DEF FetchOk, Finish, Complete
  <2>9. CASE FetchFails(i)
    BY <1>4, <2>9 DEF FetchFails, Finish, Complete, Frozen
  <2>10. CASE Wake(i)
    BY <1>4, <2>10 DEF Wake, Finish, Frozen
  <2> QED
    BY <1>4, <2>1, <2>2, <2>3, <2>4, <2>5, <2>6, <2>7, <2>8, <2>9, <2>10 DEF Run
<1>5. ASSUME NEW i \in Items, Panic(i) PROVE Types'
  BY <1>5 DEF Panic, Finish
<1>6. ASSUME NEW k \in Keys, Age(k) PROVE Types'
  <2>1. cached' \in [Keys -> {"none", "usable", "expired"}]
    <3>1. \/ cached' = [cached EXCEPT ![k] = "expired"]
          \/ cached' = [cached EXCEPT ![k] = "none"]
      BY <1>6 DEF Age
    <3> QED
      BY <3>1, Update
  <2> QED
    BY <1>6, <2>1 DEF Age
<1>7. CASE UNCHANGED vars
  BY <1>7 DEF vars
<1>8. ASSUME NEW k \in Keys, OutsideLeads(k) PROVE Types'
  BY <1>8 DEF OutsideLeads
<1>9. ASSUME NEW k \in Keys, OutsideLands(k) PROVE Types'
  <2>1. PICK r \in {"ok", "err"} : Complete(k, r)
    BY <1>9 DEF OutsideLands
  <2>2. flight' \in [Keys -> Items \cup {0, Outside}]
    BY <2>1, Zenon DEF Complete
  <2>3. msg' \in [Items -> {"none", "ok", "err"}]
    BY <2>1 DEF Complete
  <2>4. cached' \in [Keys -> {"none", "usable", "expired"}]
    <3>1. cached' = cached \/ cached' = [cached EXCEPT ![k] = "usable"]
      BY <1>9 DEF OutsideLands
    <3> QED
      BY <3>1, Update
  <2> QED
    BY <1>9, <2>2, <2>3, <2>4 DEF OutsideLands
<1> QED
  BY <1>1, <1>2, <1>3, <1>4, <1>5, <1>6, <1>7, <1>8, <1>9 DEF Next, Done

\* Every step keeps the modes apart.
LEMMA ModeStep ==
    ASSUME Types, ModeInv, [Next]_vars
    PROVE  ModeInv'
<1> USE Basics, Config DEF Types, ModeInv, Handlers, Places, Running, Items, hvars, Parallel
<1>1. CASE Handle
  <2>1. CASE Spawn
    BY <2>1 DEF Spawn
  <2>2. CASE StartSequential
    BY <2>2 DEF StartSequential
  <2>3. CASE JoinResult
    BY <2>3 DEF JoinResult, Counted
  <2>4. CASE JoinPanic
    BY <2>4 DEF JoinPanic
  <2>5. CASE JoinTimeout
    BY <2>5 DEF JoinTimeout
  <2>6. CASE Return
    BY <2>6 DEF Return
  <2>7. CASE SeqTimeout
    BY <2>7 DEF SeqTimeout
  <2>8. CASE SeqRun
    BY <2>8 DEF SeqRun
  <2>9. CASE SeqResult
    BY <2>9 DEF SeqResult, Counted
  <2> QED
    BY <1>1, <2>1, <2>2, <2>3, <2>4, <2>5, <2>6, <2>7, <2>8, <2>9 DEF Handle
<1>2. CASE DeadlinePasses
  BY <1>2 DEF DeadlinePasses
<1>3. CASE Drop
  BY <1>3 DEF Drop
<1>4. ASSUME NEW i \in Items, Run(i) PROVE ModeInv'
  <2>1. CASE SkipFailed(i)
    BY <1>4, <2>1 DEF SkipFailed, Finish
  <2>2. CASE PassFlag(i)
    BY <1>4, <2>2, SMTT(30) DEF PassFlag
  <2>3. CASE Acquire(i)
    BY <1>4, <2>3 DEF Acquire
  <2>4. CASE CacheHit(i)
    BY <1>4, <2>4, SMTT(30) DEF CacheHit, Finish
  <2>5. CASE CacheMiss(i)
    BY <1>4, <2>5, SMTT(30) DEF CacheMiss
  <2>6. CASE CacheOnly(i)
    BY <1>4, <2>6, SMTT(30) DEF CacheOnly, Finish, Frozen
  <2>7. CASE Coalesce(i)
    BY <1>4, <2>7, SMTT(30) DEF Coalesce
  <2>8. CASE FetchOk(i)
    BY <1>4, <2>8, SMTT(30) DEF FetchOk, Finish, Complete
  <2>9. CASE FetchFails(i)
    BY <1>4, <2>9 DEF FetchFails, Finish, Complete, Frozen
  <2>10. CASE Wake(i)
    BY <1>4, <2>10, SMTT(30) DEF Wake, Finish, Frozen
  <2> QED
    BY <1>4, <2>1, <2>2, <2>3, <2>4, <2>5, <2>6, <2>7, <2>8, <2>9, <2>10 DEF Run
<1>5. ASSUME NEW i \in Items, Panic(i) PROVE ModeInv'
  BY <1>5 DEF Panic, Finish
<1>6. ASSUME NEW k \in Keys, Age(k) PROVE ModeInv'
  BY <1>6 DEF Age
<1>7. CASE UNCHANGED vars
  BY <1>7 DEF vars
<1>8. ASSUME NEW k \in Keys, OutsideLeads(k) PROVE ModeInv'
  BY <1>8 DEF OutsideLeads
<1>9. ASSUME NEW k \in Keys, OutsideLands(k) PROVE ModeInv'
  BY <1>9 DEF OutsideLands
<1> QED
  BY <1>1, <1>2, <1>3, <1>4, <1>5, <1>6, <1>7, <1>8, <1>9 DEF Next, Done

\* Every step keeps leaders and flights together.
LEMMA LeadStep ==
    ASSUME Types, ModeInv, LeadInv, [Next]_vars
    PROVE  LeadInv'
<1> USE Basics, Config DEF Types, ModeInv, LeadInv, LeaderAtWork, Key, Handlers, Places, Running, Items, hvars, Parallel
<1>1. CASE Handle
  <2>1. CASE Spawn
    <3>1. \A m \in Items : pc[m] = "none" /\ res[m] = "none"
      BY <2>1 DEF Spawn
    <3>2. \A k \in Keys : flight[k] \notin Items
      BY <3>1, SMTT(30)
    <3>3. pc' = [m \in Items |-> "new"] /\ flight' = flight
      BY <2>1 DEF Spawn
    <3> QED
      BY <3>2, <3>3, SMTT(30)
  <2>2. CASE StartSequential
    BY <2>2 DEF StartSequential
  <2>3. CASE JoinResult
    BY <2>3 DEF JoinResult, Counted
  <2>4. CASE JoinPanic
    BY <2>4 DEF JoinPanic
  <2>5. CASE JoinTimeout
    BY <2>5 DEF JoinTimeout
  <2>6. CASE Return
    BY <2>6 DEF Return
  <2>7. CASE SeqTimeout
    BY <2>7 DEF SeqTimeout
  <2>8. CASE SeqRun
    BY <2>8 DEF SeqRun
  <2>9. CASE SeqResult
    BY <2>9 DEF SeqResult, Counted
  <2> QED
    BY <1>1, <2>1, <2>2, <2>3, <2>4, <2>5, <2>6, <2>7, <2>8, <2>9 DEF Handle
<1>2. CASE DeadlinePasses
  BY <1>2 DEF DeadlinePasses
<1>3. CASE Drop
  BY <1>3 DEF Drop
<1>4. ASSUME NEW i \in Items, Run(i) PROVE LeadInv'
  <2>1. CASE SkipFailed(i)
    <3>1. PICK r \in {"ok", "err"} : Finish(i, r)
      BY <2>1 DEF SkipFailed, Frozen
    <3>2. pc' = [pc EXCEPT ![i] = "done"] /\ res' = [res EXCEPT ![i] = r]
      BY <3>1 DEF Finish
    <3>3. pc[i] \notin {"fetch", "gone"} /\ res[i] # "panic" /\ UNCHANGED <<config, flight>>
      BY <2>1 DEF SkipFailed
    <3> QED
      BY <3>2, <3>3, Bystander
  <2>2. CASE PassFlag(i)
    <3>1. pc' = [pc EXCEPT ![i] = "acquire"] /\ res' = res /\ UNCHANGED <<config, flight>>
      BY <2>2 DEF PassFlag
    <3>2. pc[i] \notin {"fetch", "gone"} /\ res[i] # "panic"
      BY <2>2 DEF PassFlag
    <3> QED
      BY <3>1, <3>2, Bystander
  <2>3. CASE Acquire(i)
    <3>1. pc' = [pc EXCEPT ![i] = "run"] /\ res' = res /\ UNCHANGED <<config, flight>>
      BY <2>3 DEF Acquire
    <3>2. pc[i] \notin {"fetch", "gone"} /\ res[i] # "panic"
      BY <2>3 DEF Acquire
    <3> QED
      BY <3>1, <3>2, Bystander
  <2>4. CASE CacheHit(i)
    <3>1. PICK r \in {"ok", "err"} : Finish(i, r)
      BY <2>4 DEF CacheHit, Frozen
    <3>2. pc' = [pc EXCEPT ![i] = "done"] /\ res' = [res EXCEPT ![i] = r]
      BY <3>1 DEF Finish
    <3>3. pc[i] \notin {"fetch", "gone"} /\ res[i] # "panic" /\ UNCHANGED <<config, flight>>
      BY <2>4 DEF CacheHit
    <3> QED
      BY <3>2, <3>3, Bystander
  <2>5. CASE CacheMiss(i)
    <3>1. pc' = [pc EXCEPT ![i] = "miss"] /\ res' = res /\ UNCHANGED <<config, flight>>
      BY <2>5 DEF CacheMiss
    <3>2. pc[i] \notin {"fetch", "gone"} /\ res[i] # "panic"
      BY <2>5 DEF CacheMiss
    <3> QED
      BY <3>1, <3>2, Bystander
  <2>6. CASE CacheOnly(i)
    <3>1. PICK r \in {"ok", "err"} : Finish(i, r)
      BY <2>6 DEF CacheOnly, Frozen
    <3>2. pc' = [pc EXCEPT ![i] = "done"] /\ res' = [res EXCEPT ![i] = r]
      BY <3>1 DEF Finish
    <3>3. pc[i] \notin {"fetch", "gone"} /\ res[i] # "panic" /\ UNCHANGED <<config, flight>>
      BY <2>6 DEF CacheOnly
    <3> QED
      BY <3>2, <3>3, Bystander
  <2>7. CASE Coalesce(i)
    <3>1. CASE flight[Key(i)] # 0
      BY <1>4, <2>7, <3>1, Bystander DEF Coalesce
    <3>2. CASE flight[Key(i)] = 0
      <4>1. PICK q \in Keys : q = config.key[i]
        OBVIOUS
      <4>2. flight' = [flight EXCEPT ![q] = i] /\ pc' = [pc EXCEPT ![i] = "fetch"] /\ flight[q] = 0
            /\ UNCHANGED <<config, res>> /\ pc[i] = "miss"
        BY <2>7, <3>2, <4>1 DEF Coalesce
      <4>3. LeaderAtWork'
        BY <4>1, <4>2
      <4>4. ASSUME NEW m \in Items, pc'[m] = "fetch" PROVE flight'[config'.key[m]] = m
        BY <4>1, <4>2, <4>4
      <4> QED
        BY <4>3, <4>4
    <3> QED
      BY <3>1, <3>2
  <2>8. CASE FetchOk(i)
    BY <1>4, <2>8 DEF FetchOk, Finish, Complete
  <2>9. CASE FetchFails(i)
    BY <1>4, <2>9 DEF FetchFails, Finish, Complete, Frozen
  <2>10. CASE Wake(i)
    <3>1. PICK r \in {"ok", "err"} : Finish(i, r)
      BY <2>10 DEF Wake, Frozen
    <3>2. pc' = [pc EXCEPT ![i] = "done"] /\ res' = [res EXCEPT ![i] = r]
      BY <3>1 DEF Finish
    <3>3. pc[i] \notin {"fetch", "gone"} /\ res[i] # "panic" /\ UNCHANGED <<config, flight>>
      BY <2>10 DEF Wake
    <3> QED
      BY <3>2, <3>3, Bystander
  <2> QED
    BY <1>4, <2>1, <2>2, <2>3, <2>4, <2>5, <2>6, <2>7, <2>8, <2>9, <2>10 DEF Run
<1>5. ASSUME NEW i \in Items, Panic(i) PROVE LeadInv'
  BY <1>5 DEF Panic, Finish
<1>6. ASSUME NEW k \in Keys, Age(k) PROVE LeadInv'
  BY <1>6 DEF Age
<1>7. CASE UNCHANGED vars
  BY <1>7 DEF vars
<1>8. ASSUME NEW k \in Keys, OutsideLeads(k) PROVE LeadInv'
  BY <1>8 DEF OutsideLeads
<1>9. ASSUME NEW k \in Keys, OutsideLands(k) PROVE LeadInv'
  <2>1. flight' = [flight EXCEPT ![k] = 0] /\ flight[k] = Outside /\ UNCHANGED <<config, pc, res>>
    BY <1>9 DEF OutsideLands, Complete
  <2> QED
    BY <2>1
<1> QED
  BY <1>1, <1>2, <1>3, <1>4, <1>5, <1>6, <1>7, <1>8, <1>9 DEF Next, Done

\* The bound when one query moves and gives or takes the permit its move calls for.
LEMMA BoundKeeps ==
    ASSUME Types, ParallelBound, NEW i \in Items, NEW p \in Places, pc' = [pc EXCEPT ![i] = p],
           config' = config,
           Parallel => permits' = IF pc[i] \in Running
                                  THEN IF p \in Running THEN permits ELSE permits + 1
                                  ELSE IF p \in Running THEN permits - 1 ELSE permits
    PROVE  ParallelBound'
<1>1. SUFFICES ASSUME Parallel
               PROVE  permits' + Cardinality({m \in Items : pc'[m] \in Running}) = config.maxParallel
  BY DEF ParallelBound, Parallel
<1> DEFINE R == Cardinality({m \in Items : pc[m] \in Running})
           S == Cardinality({m \in Items : pc'[m] \in Running})
<1>2. /\ R \in Nat /\ S \in Nat
      /\ (pc[i] \in Running <=> p \in Running) => S = R
      /\ pc[i] \in Running /\ p \notin Running => S = R - 1
      /\ pc[i] \notin Running /\ p \in Running => S = R + 1
  BY OneRunner DEF Types
<1>3. permits + R = config.maxParallel /\ permits \in Nat
  BY <1>1 DEF ParallelBound, Types
<1> HIDE DEF R, S
<1>4. permits' + S = config.maxParallel
  BY <1>1, <1>2, <1>3
<1> QED
  BY <1>4 DEF S

\* The bound when nothing it speaks of changes.
LEMMA BoundSame ==
    ASSUME ParallelBound, UNCHANGED <<config, pc, permits>>
    PROVE  ParallelBound'
  BY DEF ParallelBound, Parallel

\* The bound when a query ends.
LEMMA BoundFinish ==
    ASSUME Types, ParallelBound, NEW i \in Items, NEW r, Finish(i, r), config' = config
    PROVE  ParallelBound'
<1>1. "done" \in Places /\ "done" \notin Running
  BY DEF Places, Running
<1>2. pc' = [pc EXCEPT ![i] = "done"]
      /\ permits' = IF Parallel /\ pc[i] \in Running THEN permits + 1 ELSE permits
  BY DEF Finish
<1> QED
  BY <1>1, <1>2, BoundKeeps

\* Every step keeps the bound on the queries that run.
LEMMA BoundStep ==
    ASSUME Types, ModeInv, ParallelBound, [Next]_vars
    PROVE  ParallelBound'
<1>1. CASE Handle
  <2>1. CASE Spawn
    <3>1. {m \in Items : pc'[m] \in Running} = {m \in Items : pc[m] \in Running}
      BY <2>1 DEF Spawn, ModeInv, Running
    <3> QED
      BY <2>1, <3>1 DEF Spawn, ParallelBound, Parallel
  <2>2. CASE StartSequential
    BY <2>2, BoundSame DEF StartSequential, hvars
  <2>3. CASE JoinResult
    BY <2>3, BoundSame DEF JoinResult, hvars
  <2>4. CASE JoinPanic
    BY <2>4, BoundSame DEF JoinPanic, hvars
  <2>5. CASE JoinTimeout
    BY <2>5, BoundSame DEF JoinTimeout, hvars
  <2>6. CASE Return
    BY <2>6, BoundSame DEF Return, hvars
  <2>7. CASE SeqTimeout
    BY <2>7, BoundSame DEF SeqTimeout, hvars
  <2>8. CASE SeqRun
    BY <2>8 DEF SeqRun, ModeInv, ParallelBound, Parallel
  <2>9. CASE SeqResult
    BY <2>9, BoundSame DEF SeqResult, hvars
  <2> QED
    BY <1>1, <2>1, <2>2, <2>3, <2>4, <2>5, <2>6, <2>7, <2>8, <2>9 DEF Handle
<1>2. CASE DeadlinePasses
  BY <1>2, BoundSame DEF DeadlinePasses
<1>3. CASE Drop
  <2>1. CASE handler = "await"
    BY <1>3, <2>1 DEF Drop, ModeInv, ParallelBound, Parallel
  <2>2. CASE handler # "await"
    BY <1>3, <2>2, BoundSame DEF Drop
  <2> QED
    BY <2>1, <2>2
<1>4. ASSUME NEW i \in Items, Run(i) PROVE ParallelBound'
  <2>1. CASE SkipFailed(i)
    BY <1>4, <2>1, BoundFinish DEF SkipFailed, hvars
  <2>2. CASE PassFlag(i)
    <3>1. pc' = [pc EXCEPT ![i] = "acquire"] /\ pc[i] = "new" /\ UNCHANGED <<config, permits>>
      BY <2>2 DEF PassFlag, hvars
    <3>2. "acquire" \in Places /\ {"new", "acquire"} \cap Running = {}
      BY DEF Places, Running
    <3> QED
      BY <3>1, <3>2, BoundKeeps
  <2>3. CASE Acquire(i)
    <3>1. /\ pc' = [pc EXCEPT ![i] = "run"] /\ pc[i] = "acquire" /\ permits' = permits - 1
          /\ UNCHANGED config
      BY <2>3 DEF Acquire, hvars
    <3>2. "run" \in Places /\ "run" \in Running /\ "acquire" \notin Running
      BY DEF Places, Running
    <3> QED
      BY <3>1, <3>2, BoundKeeps
  <2>4. CASE CacheHit(i)
    BY <1>4, <2>4, BoundFinish DEF CacheHit, hvars
  <2>5. CASE CacheMiss(i)
    <3>1. pc' = [pc EXCEPT ![i] = "miss"] /\ pc[i] = "run" /\ UNCHANGED <<config, permits>>
      BY <2>5 DEF CacheMiss, hvars
    <3>2. "miss" \in Places /\ {"run", "miss"} \subseteq Running
      BY DEF Places, Running
    <3> QED
      BY <3>1, <3>2, BoundKeeps
  <2>6. CASE CacheOnly(i)
    BY <1>4, <2>6, BoundFinish DEF CacheOnly, hvars
  <2>7. CASE Coalesce(i)
    <3>1. /\ \E p \in {"fetch", "wait"} : pc' = [pc EXCEPT ![i] = p]
          /\ pc[i] = "miss" /\ UNCHANGED <<config, permits>>
      BY <2>7 DEF Coalesce, hvars
    <3>2. {"fetch", "wait"} \subseteq Places /\ {"miss", "fetch", "wait"} \subseteq Running
      BY DEF Places, Running
    <3> QED
      BY <3>1, <3>2, BoundKeeps
  <2>8. CASE FetchOk(i)
    BY <1>4, <2>8, BoundFinish DEF FetchOk, hvars
  <2>9. CASE FetchFails(i)
    BY <1>4, <2>9, BoundFinish DEF FetchFails, hvars
  <2>10. CASE Wake(i)
    BY <1>4, <2>10, BoundFinish DEF Wake, hvars
  <2> QED
    BY <1>4, <2>1, <2>2, <2>3, <2>4, <2>5, <2>6, <2>7, <2>8, <2>9, <2>10 DEF Run
<1>5. ASSUME NEW i \in Items, Panic(i) PROVE ParallelBound'
  BY <1>5, BoundFinish DEF Panic, hvars
<1>6. ASSUME NEW k \in Keys, Age(k) PROVE ParallelBound'
  BY <1>6, BoundSame DEF Age, hvars
<1>7. CASE UNCHANGED vars
  BY <1>7, BoundSame DEF vars
<1>8. ASSUME NEW k \in Keys, OutsideLeads(k) PROVE ParallelBound'
  BY <1>8, BoundSame DEF OutsideLeads, hvars
<1>9. ASSUME NEW k \in Keys, OutsideLands(k) PROVE ParallelBound'
  BY <1>9, BoundSame DEF OutsideLands, hvars
<1> QED
  BY <1>1, <1>2, <1>3, <1>4, <1>5, <1>6, <1>7, <1>8, <1>9 DEF Next, Done


-----------------------------------------------------------------------------
(* What the answer counts                                                  *)

\* The answer once the query the handler waits for is counted.
LEMMA OneMore ==
    ASSUME Types, CountInv, handler # "returned", j \in Items, res[j] # "none", res' = res,
           answer'.results = answer.results \cup {j},
           answer'.ok = (IF res[j] = "ok" THEN answer.ok + 1 ELSE answer.ok),
           answer'.err = (IF res[j] = "ok" THEN answer.err ELSE answer.err + 1)
    PROVE  /\ answer'.ok + answer'.err = j
           /\ answer'.results \subseteq 1 .. j
           /\ \A i \in answer'.results : res'[i] # "none"
           /\ answer'.ok = Cardinality({i \in answer'.results : res'[i] = "ok"})
           /\ answer.complete => answer'.results = 1 .. j
<1> DEFINE G == {i \in answer.results : res[i] = "ok"}
           H == {i \in answer'.results : res'[i] = "ok"}
<1>1. /\ answer.ok \in Nat /\ answer.err \in Nat /\ answer.results \in SUBSET Items
      /\ answer.ok + answer.err = j - 1 /\ j \in Nat /\ N \in Nat
  BY Basics DEF Types, CountInv, Items
<1>2. answer.results \subseteq 1 .. j - 1 /\ (answer.complete => answer.results = 1 .. j - 1)
  BY <1>1 DEF CountInv
<1>3. answer'.ok + answer'.err = j
  BY <1>1
<1>4. answer'.results \subseteq 1 .. j /\ (answer.complete => answer'.results = 1 .. j)
  BY <1>1, <1>2 DEF Items
<1>5. \A i \in answer'.results : res'[i] # "none"
  BY DEF CountInv
<1>6. j \notin G /\ IsFiniteSet(G) /\ answer.ok = Cardinality(G)
  <2>1. j \notin answer.results
    BY <1>1, <1>2
  <2>2. G \in SUBSET Items
    BY <1>1
  <2> QED
    BY <2>1, <2>2, Basics DEF CountInv
<1>7. H = IF res[j] = "ok" THEN G \cup {j} ELSE G
  OBVIOUS
<1>8. Cardinality(G \cup {j}) = Cardinality(G) + 1
  BY <1>6, FS_AddElement
<1> HIDE DEF G, H
<1>9. answer'.ok = Cardinality(H)
  BY <1>6, <1>7, <1>8
<1> QED
  BY <1>3, <1>4, <1>5, <1>9 DEF H

\* The counts when nothing they speak of changes.
LEMMA CountSame ==
    ASSUME CountInv, UNCHANGED <<handler, j, answer, res>>
    PROVE  CountInv'
  BY DEF CountInv

\* The counts when a query that is not over gets its result.
LEMMA CountFinish ==
    ASSUME Types, ModeInv, CountInv, NEW i \in Items, NEW r, r # "none", Finish(i, r),
           pc[i] \notin {"done", "gone"}, UNCHANGED <<handler, j, answer>>
    PROVE  CountInv'
<1>1. res' = [res EXCEPT ![i] = r] /\ res[i] = "none"
  BY DEF Finish, ModeInv
<1>2. answer.results \subseteq Items /\ i \notin answer.results
  BY <1>1 DEF CountInv, Types
<1>3. \A m \in answer.results : res'[m] = res[m]
  BY <1>1, <1>2 DEF Types
<1>4. {m \in answer.results : res'[m] = "ok"} = {m \in answer.results : res[m] = "ok"}
  BY <1>3
<1>5. /\ \A m \in answer'.results : res'[m] # "none"
      /\ answer'.ok = Cardinality({m \in answer'.results : res'[m] = "ok"})
  BY <1>3, <1>4 DEF CountInv
<1> QED
  BY <1>5 DEF CountInv

\* Every step keeps the counts.
LEMMA CountStep ==
    ASSUME Types, ModeInv, CountInv, [Next]_vars
    PROVE  CountInv'
<1>1. CASE Handle
  <2>1. CASE Spawn
    BY <2>1 DEF Spawn, CountInv
  <2>2. CASE StartSequential
    BY <2>2 DEF StartSequential, CountInv
  <2>3. CASE JoinResult
    <3>1. /\ handler = "join" /\ handler' = handler /\ res' = res /\ j' = j + 1 /\ answer' = Counted
          /\ j \in Items /\ res[j] # "none"
      BY <2>3, Basics DEF JoinResult, Types, ModeInv, Items
    <3>2. /\ answer'.results = answer.results \cup {j} /\ answer'.complete = answer.complete
          /\ answer'.ok = (IF res[j] = "ok" THEN answer.ok + 1 ELSE answer.ok)
          /\ answer'.err = (IF res[j] = "ok" THEN answer.err ELSE answer.err + 1)
      BY <3>1, CountedIs DEF Types, AnswerType
    <3>3. /\ answer'.ok + answer'.err = j /\ answer'.results \subseteq 1 .. j
          /\ \A i \in answer'.results : res'[i] # "none"
          /\ answer'.ok = Cardinality({i \in answer'.results : res'[i] = "ok"})
          /\ answer.complete => answer'.results = 1 .. j
      BY <3>1, <3>2, OneMore
    <3>4. j \in Nat /\ j <= N /\ j' - 1 = j
      BY <3>1, Basics DEF Items
    <3>5. /\ answer'.ok + answer'.err = j' - 1 /\ answer'.ok + answer'.err <= N
          /\ answer'.results \subseteq 1 .. answer'.ok + answer'.err
      BY <3>3, <3>4
    <3>6. answer'.complete => answer'.results = 1 .. j' - 1
      BY <3>2, <3>3, <3>4
    <3> QED
      BY <3>1, <3>3, <3>5, <3>6 DEF CountInv
  <2>4. CASE JoinPanic
    <3>1. /\ handler = "join" /\ handler' = handler /\ res' = res /\ j' = j + 1 /\ j \in Items
      BY <2>4, Basics DEF JoinPanic, Types, Items
    <3>2. /\ answer'.results = answer.results /\ answer'.ok = answer.ok
          /\ answer'.err = answer.err + 1 /\ answer'.complete = FALSE
          /\ answer.ok \in Nat /\ answer.err \in Nat
      BY <2>4, PanicIs DEF Types, AnswerType
    <3>3. PICK n \in Nat : n = answer.ok + answer.err /\ n + 1 = answer'.ok + answer'.err
      BY <3>2
    <3>4. answer.results \subseteq 1 .. n /\ n = j - 1 /\ j <= N /\ j \in Nat
      BY <3>1, <3>3, Basics DEF CountInv, Items
    <3>5. answer.results \subseteq 1 .. n + 1 /\ n + 1 = j' - 1 /\ n + 1 <= N
      BY <3>1, <3>4, Basics
    <3>6. /\ answer'.ok + answer'.err = j' - 1 /\ answer'.ok + answer'.err <= N
          /\ answer'.results \subseteq 1 .. answer'.ok + answer'.err
      BY <3>2, <3>3, <3>5
    <3> QED
      BY <3>1, <3>2, <3>6 DEF CountInv
  <2>5. CASE JoinTimeout
    <3>1. /\ answer'.results = answer.results /\ answer'.ok = answer.ok
          /\ answer'.err = answer.err /\ answer'.complete = FALSE
      BY <2>5, TimeoutIs DEF Types, AnswerType
    <3> QED
      BY <2>5, <3>1 DEF JoinTimeout, CountInv
  <2>6. CASE Return
    <3>1. /\ handler # "returned" /\ j = N + 1 /\ handler' = "returned"
          /\ UNCHANGED <<answer, res>>
      BY <2>6, Basics DEF Return, Types
    <3>2. answer.ok + answer.err = N /\ (answer.complete => answer.results = Items)
      BY <3>1, Basics DEF CountInv, Items
    <3> QED
      BY <3>1, <3>2 DEF CountInv
  <2>7. CASE SeqTimeout
    <3>1. /\ answer'.results = answer.results /\ answer'.ok = answer.ok
          /\ answer'.err = answer.err /\ answer'.complete = FALSE
      BY <2>7, TimeoutIs DEF Types, AnswerType
    <3> QED
      BY <2>7, <3>1 DEF SeqTimeout, CountInv
  <2>8. CASE SeqRun
    BY <2>8 DEF SeqRun, CountInv
  <2>9. CASE SeqResult
    <3>1. /\ handler = "await" /\ res' = res /\ j \in Items /\ res[j] # "none"
          /\ \/ handler' = "seq" /\ j' = j + 1
             \/ handler' = "returned" /\ res[j] = "err" /\ config.failFast
      BY <2>9 DEF SeqResult, ModeInv
    <3>2. /\ answer'.results = answer.results \cup {j}
          /\ answer'.ok = (IF res[j] = "ok" THEN answer.ok + 1 ELSE answer.ok)
          /\ answer'.err = (IF res[j] = "ok" THEN answer.err ELSE answer.err + 1)
          /\ answer'.complete = (answer.complete /\ ~(res[j] = "err" /\ config.failFast))
      BY <2>9, <3>1, SeqIs DEF Types, AnswerType
    <3>3. /\ answer'.ok + answer'.err = j /\ answer'.results \subseteq 1 .. j
          /\ \A i \in answer'.results : res'[i] # "none"
          /\ answer'.ok = Cardinality({i \in answer'.results : res'[i] = "ok"})
          /\ answer.complete => answer'.results = 1 .. j
      BY <3>1, <3>2, OneMore
    <3>4. answer'.complete => answer.complete /\ handler' = "seq"
      BY <3>1, <3>2
    <3>5. j \in Nat /\ j <= N /\ (handler' = "seq" => j' - 1 = j)
      BY <3>1, Basics DEF Items
    <3>6. /\ handler' # "returned" => answer'.ok + answer'.err = j' - 1
          /\ answer'.ok + answer'.err <= N
          /\ answer'.results \subseteq 1 .. answer'.ok + answer'.err
      BY <3>1, <3>3, <3>5
    <3>7. answer'.complete => answer'.results = 1 .. j' - 1 /\ handler' # "returned"
      BY <3>3, <3>4, <3>5
    <3> QED
      BY <3>3, <3>6, <3>7 DEF CountInv
  <2> QED
    BY <1>1, <2>1, <2>2, <2>3, <2>4, <2>5, <2>6, <2>7, <2>8, <2>9 DEF Handle
<1>2. CASE DeadlinePasses
  BY <1>2, CountSame DEF DeadlinePasses
<1>3. CASE Drop
  BY <1>3 DEF Drop, CountInv
<1>4. ASSUME NEW i \in Items, Run(i) PROVE CountInv'
  <2>1. CASE SkipFailed(i)
    BY <1>4, <2>1, CountFinish DEF SkipFailed, hvars
  <2>2. CASE PassFlag(i)
    BY <2>2, CountSame DEF PassFlag, hvars
  <2>3. CASE Acquire(i)
    BY <2>3, CountSame DEF Acquire, hvars
  <2>4. CASE CacheHit(i)
    BY <1>4, <2>4, CountFinish DEF CacheHit, hvars
  <2>5. CASE CacheMiss(i)
    BY <2>5, CountSame DEF CacheMiss, hvars
  <2>6. CASE CacheOnly(i)
    BY <1>4, <2>6, CountFinish DEF CacheOnly, hvars, Frozen
  <2>7. CASE Coalesce(i)
    BY <2>7, CountSame DEF Coalesce, hvars
  <2>8. CASE FetchOk(i)
    BY <1>4, <2>8, CountFinish DEF FetchOk, hvars
  <2>9. CASE FetchFails(i)
    BY <1>4, <2>9, CountFinish DEF FetchFails, hvars, Frozen
  <2>10. CASE Wake(i)
    BY <1>4, <2>10, CountFinish DEF Wake, hvars, Frozen
  <2> QED
    BY <1>4, <2>1, <2>2, <2>3, <2>4, <2>5, <2>6, <2>7, <2>8, <2>9, <2>10 DEF Run
<1>5. ASSUME NEW i \in Items, Panic(i) PROVE CountInv'
  BY <1>5, CountFinish DEF Panic, hvars
<1>6. ASSUME NEW k \in Keys, Age(k) PROVE CountInv'
  BY <1>6, CountSame DEF Age, hvars
<1>7. CASE UNCHANGED vars
  BY <1>7, CountSame DEF vars
<1>8. ASSUME NEW k \in Keys, OutsideLeads(k) PROVE CountInv'
  BY <1>8, CountSame DEF OutsideLeads, hvars
<1>9. ASSUME NEW k \in Keys, OutsideLands(k) PROVE CountInv'
  BY <1>9, CountSame DEF OutsideLands, hvars
<1> QED
  BY <1>1, <1>2, <1>3, <1>4, <1>5, <1>6, <1>7, <1>8, <1>9 DEF Next, Done

-----------------------------------------------------------------------------
(* The theorems                                                            *)

\* The invariant holds initially.
LEMMA BatchInit ==
    ASSUME Init
    PROVE  BatchInv
<1>1. config \in Configs /\ config.maxParallel \in Nat
  BY Config DEF Init
<1>2. Types
  <2>1. cached \in [Keys -> {"none", "usable", "expired"}]
    BY DEF Init
  <2>2. answer \in [results : SUBSET Items, ok : Nat, err : Nat, complete : BOOLEAN]
    BY DEF Init
  <2>3. j \in 1 .. N + 1 /\ flight \in [Keys -> Items \cup {0, Outside}]
    BY Basics DEF Init
  <2>4. /\ pc \in [Items -> Places] /\ res \in [Items -> {"none", "ok", "err", "panic"}]
        /\ msg \in [Items -> {"none", "ok", "err"}]
    BY DEF Init, Places
  <2> QED
    BY <1>1, <2>1, <2>2, <2>3, <2>4 DEF Init, Types, Handlers
<1>3. ModeInv
  BY DEF Init, ModeInv, Items
<1>4. LeadInv
  BY Basics DEF Init, LeadInv, LeaderAtWork
<1>5. ParallelBound
  <2>1. {i \in Items : pc[i] \in Running} = {}
    BY DEF Init, Running
  <2>2. Cardinality({i \in Items : pc[i] \in Running}) = 0
    BY <2>1, FS_EmptySet
  <2>3. permits + 0 = config.maxParallel
    BY <1>1 DEF Init
  <2> QED
    BY <2>2, <2>3 DEF ParallelBound
<1>6. CountInv
  <2>1. {i \in answer.results : res[i] = "ok"} = {}
    BY DEF Init
  <2>2. answer.ok = 0 /\ answer.err = 0 /\ answer.results = {} /\ j = 1 /\ handler = "start"
    BY DEF Init
  <2> QED
    BY <2>1, <2>2, FS_EmptySet, Basics DEF CountInv
<1> QED
  BY <1>2, <1>3, <1>4, <1>5, <1>6 DEF BatchInv

\* The invariant holds in every reachable state.
LEMMA BatchInvariant == Spec => []BatchInv
<1>1. Init => BatchInv
  BY BatchInit
<1>2. BatchInv /\ [Next]_vars => BatchInv'
  BY TypesStep, ModeStep, LeadStep, BoundStep, CountStep DEF BatchInv
<1> QED
  BY <1>1, <1>2, PTL DEF Spec

\* No more than max_parallel queries of a batch run at a time and no permit of its
\* semaphore is lost, whether a query ends, is skipped, panics or outlives its handler.
THEOREM PermitsHold == Spec => []ParallelBound
<1>1. BatchInv => ParallelBound
  BY DEF BatchInv
<1> QED
  BY <1>1, BatchInvariant, PTL

\* An item of the batch leads a key only while it fetches it, or because it panicked or
\* went with its handler, whatever flights of other requests it meets.
THEOREM LeadersWork == Spec => []LeaderAtWork
<1>1. BatchInv => LeaderAtWork
  BY DEF BatchInv, LeadInv
<1> QED
  BY <1>1, BatchInvariant, PTL

\* The response counts every query once, and one that says complete has a result for
\* each of them.
THEOREM AnswersAddUp == Spec => []AnswerAddsUp
<1>1. ASSUME BatchInv PROVE AnswerAddsUp
  <2>1. /\ answer.ok \in Nat /\ answer.err \in Nat /\ answer.results \in SUBSET Items
        /\ answer.results \subseteq 1 .. answer.ok + answer.err
        /\ answer.ok = Cardinality({i \in answer.results : res[i] = "ok"})
    BY <1>1 DEF BatchInv, Types, CountInv
  <2>2. PICK n \in Nat : n = answer.ok + answer.err
    <3>1. answer.ok \in Nat /\ answer.err \in Nat
      BY <2>1
    <3>2. answer.ok + answer.err \in Nat
      BY <3>1
    <3> QED
      BY <3>2, Zenon
  <2>3. IsFiniteSet(1 .. n) /\ Cardinality(1 .. n) = n
    BY <2>2, FS_Interval
  <2>4. Cardinality(answer.results) <= n
    <3>1. answer.results \in SUBSET (1 .. n)
      BY <2>1, <2>2
    <3> QED
      BY <3>1, <2>3, FS_Subset
  <2>5. Cardinality(answer.results) \in Nat
    BY <2>1, Basics
  <2>6. handler = "returned" /\ answer.complete =>
          answer.results = Items /\ answer.ok + answer.err = N
    BY <1>1 DEF BatchInv, CountInv
  <2> QED
    BY <2>1, <2>2, <2>4, <2>5, <2>6 DEF AnswerAddsUp
<1> QED
  BY <1>1, BatchInvariant, PTL

\* Every variable has its type: in particular the counts of the response never exceed
\* the number of queries, nor the permits their configured number.
THEOREM BatchTypes == Spec => []TypeOK
<1>1. ASSUME BatchInv PROVE TypeOK
  <2>1. permits \in 0 .. config.maxParallel
    <3>1. permits \in Nat /\ config.maxParallel \in Nat
      BY <1>1, Config DEF BatchInv, Types
    <3>2. CASE Parallel
      <4>1. {i \in Items : pc[i] \in Running} \in SUBSET Items
        OBVIOUS
      <4>2. Cardinality({i \in Items : pc[i] \in Running}) \in Nat
        BY <4>1, Basics
      <4> QED
        BY <1>1, <3>1, <3>2, <4>2 DEF BatchInv, ParallelBound
    <3>3. CASE ~Parallel
      BY <1>1, <3>1, <3>3 DEF BatchInv, ModeInv
    <3> QED
      BY <3>2, <3>3
  <2>2. answer \in [results : SUBSET Items, ok : 0 .. N, err : 0 .. N, complete : BOOLEAN]
    <3>1. answer.ok \in 0 .. N /\ answer.err \in 0 .. N
      BY <1>1, Basics DEF BatchInv, Types, CountInv
    <3> QED
      BY <1>1, <3>1 DEF BatchInv, Types
  <2> QED
    BY <1>1, <2>1, <2>2 DEF BatchInv, Types, TypeOK, Handlers, Places
<1> QED
  BY <1>1, BatchInvariant, PTL

-----------------------------------------------------------------------------
(* Refinement of Flights                                                   *)

Waits(i, k) == pc[i] = "wait" /\ Key(i) = k /\ msg[i] = "none"
Aboard == [k \in Keys |-> {i \in Items : Waits(i, k)}]

\* A step that leaves the map alone and makes nobody wait or stop waiting is a stutter.
LEMMA SameFlights ==
    ASSUME UNCHANGED flight, \A i \in Items, k \in Keys : Waits(i, k)' <=> Waits(i, k)
    PROVE  UNCHANGED <<flight, Aboard>>
  BY DEF Aboard

\* Who is aboard, item by item.
LEMMA AboardAt ==
    /\ Aboard \in [Keys -> SUBSET Items] /\ Aboard' \in [Keys -> SUBSET Items]
    /\ \A k \in Keys, i \in Items : i \in Aboard[k] <=> Waits(i, k)
    /\ \A k \in Keys, i \in Items :
          i \in Aboard'[k] <=> pc'[i] = "wait" /\ config'.key[i] = k /\ msg'[i] = "none"
  BY DEF Aboard, Waits, Key

\* If who waits changes for one key only, the flights change at that key only.
LEMMA OneFlight ==
    ASSUME NEW q \in Keys, NEW S \in SUBSET Items,
           \A i \in Items : Waits(i, q)' <=> i \in S,
           \A i \in Items, k \in Keys \ {q} : Waits(i, k)' <=> Waits(i, k)
    PROVE  Aboard' = [Aboard EXCEPT ![q] = S]
<1>1. Aboard'[q] = S
  <2>1. \A i \in Items : i \in Aboard'[q] <=> i \in S
    BY AboardAt DEF Waits, Key
  <2>2. Aboard'[q] \in SUBSET Items
    BY AboardAt
  <2> QED
    BY <2>1, <2>2
<1>2. ASSUME NEW k \in Keys \ {q} PROVE Aboard'[k] = Aboard[k]
  <2>1. \A i \in Items : i \in Aboard'[k] <=> i \in Aboard[k]
    BY <1>2, AboardAt DEF Waits, Key
  <2>2. Aboard'[k] \in SUBSET Items /\ Aboard[k] \in SUBSET Items
    BY <1>2, AboardAt
  <2> QED
    BY <2>1, <2>2
<1> QED
  BY <1>1, <1>2, AboardAt

\* A query that ends without having waited for its flight leaves the flights alone.
LEMMA FinishStutters ==
    ASSUME Types, NEW i \in Items, NEW r, Finish(i, r), pc[i] # "wait" \/ msg[i] # "none",
           UNCHANGED <<config, msg, flight>>
    PROVE  UNCHANGED <<flight, Aboard>>
<1>1. pc' = [pc EXCEPT ![i] = "done"]
  BY DEF Finish
<1>2. \A m \in Items, k \in Keys : Waits(m, k)' <=> Waits(m, k)
  BY <1>1 DEF Waits, Key, Types
<1> QED
  BY <1>2, SameFlights

\* complete() lands the flight: it empties the map's entry, and everyone who was waiting
\* for this key, and nobody else, stops waiting.
LEMMA LandStep ==
    ASSUME Types, NEW q \in Keys, flight[q] # 0, NEW r \in {"ok", "err"}, Complete(q, r),
           UNCHANGED config,
           pc' = pc \/ \E i \in Items : pc[i] # "wait" /\ pc' = [pc EXCEPT ![i] = "done"]
    PROVE  Flight!Land(q)
<1>1. /\ flight' = [flight EXCEPT ![q] = 0]
      /\ msg' = [m \in Items |-> IF pc[m] = "wait" /\ config.key[m] = q /\ msg[m] = "none"
                                 THEN r ELSE msg[m]]
  BY DEF Complete, Key
<1>2. \A m \in Items : pc'[m] = "wait" <=> pc[m] = "wait"
  BY DEF Types
<1>3. \A m \in Items : ~Waits(m, q)'
  BY <1>1, <1>2 DEF Waits, Key
<1>4. \A m \in Items, k \in Keys \ {q} : Waits(m, k)' <=> Waits(m, k)
  BY <1>1, <1>2 DEF Waits, Key
<1>5. Aboard' = [Aboard EXCEPT ![q] = {}]
  BY <1>3, <1>4, OneFlight
<1> QED
  BY <1>1, <1>5 DEF Flight!Land, Aboard, Waits

\* Every step of a batch is a step of Flights or leaves the flights alone.
LEMMA FlightStep ==
    ASSUME Types, ModeInv, LeadInv, [Next]_vars
    PROVE  [Flight!Next]_<<flight, Aboard>>
<1>1. CASE Handle
  <2>1. UNCHANGED <<flight, msg, config>>
    BY <1>1 DEF Handle, Spawn, StartSequential, JoinResult, JoinPanic, JoinTimeout, Return,
       SeqTimeout, SeqRun, SeqResult
  <2>2. \A i \in Items : pc'[i] = "wait" <=> pc[i] = "wait"
    <3>1. CASE Spawn
      BY <3>1 DEF Spawn, ModeInv
    <3>2. CASE SeqRun
      <4>1. j \in Items /\ pc[j] = "none"
        BY <3>2, Basics DEF SeqRun, ModeInv, Types, Items
      <4> QED
        BY <3>2, <4>1 DEF SeqRun, Types
    <3>3. CASE ~Spawn /\ ~SeqRun
      BY <1>1, <3>3 DEF Handle, StartSequential, JoinResult, JoinPanic, JoinTimeout, Return,
         SeqTimeout, SeqResult
    <3> QED
      BY <3>1, <3>2, <3>3
  <2> QED
    BY <2>1, <2>2, SameFlights DEF Waits, Key
<1>2. CASE DeadlinePasses
  BY <1>2, SameFlights DEF DeadlinePasses, Waits, Key
<1>3. CASE Drop
  <2>1. CASE handler = "await" /\ \E q \in Keys : Waits(j, q)
    <3>1. PICK q \in Keys, m \in Items : m = j /\ Waits(m, q)
      BY <2>1 DEF ModeInv
    <3>2. m \in Items /\ pc' = [pc EXCEPT ![m] = "gone"] /\ UNCHANGED <<flight, msg, config>>
      BY <1>3, <2>1, <3>1 DEF Drop
    <3>3. \A i \in Items, k \in Keys : i # m \/ k # q => (Waits(i, k)' <=> Waits(i, k))
      BY <3>1, <3>2 DEF Waits, Key, Types
    <3>4. pc'[m] = "gone"
      BY <3>2 DEF Types
    <3>5. \A i \in Items : Waits(i, q)' <=> i \in Aboard[q] \ {m}
      BY <3>2, <3>3, <3>4, AboardAt DEF Waits
    <3>6. Aboard[q] \ {m} \in SUBSET Items /\ m \in Aboard[q]
      BY <3>1, <3>2, AboardAt
    <3>7. Aboard' = [Aboard EXCEPT ![q] = Aboard[q] \ {m}]
      BY <3>3, <3>5, <3>6, OneFlight
    <3>8. Flight!Leave(q, m)
      BY <3>2, <3>6, <3>7 DEF Flight!Leave, Aboard, Waits
    <3> QED
      BY <3>2, <3>8 DEF Flight!Next
  <2>2. CASE handler = "await" /\ ~\E q \in Keys : Waits(j, q)
    <3>1. j \in Items /\ pc' = [pc EXCEPT ![j] = "gone"] /\ UNCHANGED <<flight, msg, config>>
      BY <1>3, <2>2 DEF Drop, ModeInv
    <3>2. \A i \in Items, k \in Keys : Waits(i, k)' <=> Waits(i, k)
      BY <2>2, <3>1 DEF Waits, Key, Types
    <3> QED
      BY <3>1, <3>2, SameFlights
  <2>3. CASE handler # "await"
    BY <1>3, <2>3, SameFlights DEF Drop, Waits, Key
  <2> QED
    BY <2>1, <2>2, <2>3
<1>4. ASSUME NEW i \in Items, Run(i) PROVE [Flight!Next]_<<flight, Aboard>>
  <2>1. CASE SkipFailed(i) \/ CacheHit(i) \/ CacheOnly(i) \/ Wake(i)
    BY <2>1, FinishStutters DEF SkipFailed, CacheHit, CacheOnly, Wake, hvars
  <2>2. CASE PassFlag(i) \/ Acquire(i) \/ CacheMiss(i)
    <3>1. UNCHANGED <<flight, msg, config>> /\ pc[i] # "wait"
          /\ \E p \in Places \ {"wait"} : pc' = [pc EXCEPT ![i] = p]
      BY <2>2 DEF PassFlag, Acquire, CacheMiss, hvars, Places, Running
    <3>2. \A m \in Items, k \in Keys : Waits(m, k)' <=> Waits(m, k)
      BY <3>1 DEF Waits, Key, Types
    <3> QED
      BY <3>1, <3>2, SameFlights
  <2>3. CASE Coalesce(i)
    <3>1. PICK q \in Keys : q = config.key[i]
      BY Config DEF Types, Key
    <3>2. pc[i] = "miss" /\ UNCHANGED <<msg, config>>
      BY <2>3 DEF Coalesce, hvars
    <3>3. CASE flight[q] = 0
      <4>1. flight' = [flight EXCEPT ![q] = i] /\ pc' = [pc EXCEPT ![i] = "fetch"]
        BY <2>3, <3>1, <3>3 DEF Coalesce, Key
      <4>2. \A m \in Items, k \in Keys : Waits(m, k)' <=> Waits(m, k)
        BY <3>2, <4>1 DEF Waits, Key, Types
      <4>3. Aboard' = Aboard
        BY <4>2 DEF Aboard
      <4>4. Flight!TakeOff(q, i)
        BY <3>3, <4>1, <4>3 DEF Flight!TakeOff, Aboard, Waits
      <4> QED
        BY <4>4 DEF Flight!Next
    <3>4. CASE flight[q] # 0 /\ msg[i] = "none"
      <4>1. flight' = flight /\ pc' = [pc EXCEPT ![i] = "wait"]
        BY <2>3, <3>1, <3>4 DEF Coalesce, Key
      <4>2. \A m \in Items, k \in Keys : m # i \/ k # q => (Waits(m, k)' <=> Waits(m, k))
        BY <3>1, <3>2, <4>1 DEF Waits, Key, Types
      <4>3. Waits(i, q)' /\ ~Waits(i, q)
        BY <3>1, <3>2, <3>4, <4>1 DEF Waits, Key, Types
      <4>4. \A m \in Items : Waits(m, q)' <=> m \in Aboard[q] \cup {i}
        BY <4>2, <4>3, AboardAt
      <4>5. Aboard[q] \cup {i} \in SUBSET Items /\ i \notin Aboard[q]
        BY <4>3, AboardAt
      <4>6. Aboard' = [Aboard EXCEPT ![q] = Aboard[q] \cup {i}]
        BY <4>2, <4>4, <4>5, OneFlight
      <4>7. Flight!Board(q, i)
        BY <3>4, <4>1, <4>5, <4>6 DEF Flight!Board, Aboard, Waits
      <4> QED
        BY <4>7 DEF Flight!Next
    <3>5. CASE flight[q] # 0 /\ msg[i] # "none"
      <4>1. flight' = flight /\ pc' = [pc EXCEPT ![i] = "wait"]
        BY <2>3, <3>1, <3>5 DEF Coalesce, Key
      <4>2. \A m \in Items, k \in Keys : Waits(m, k)' <=> Waits(m, k)
        BY <3>2, <3>5, <4>1 DEF Waits, Key, Types
      <4> QED
        BY <4>1, <4>2, SameFlights
    <3> QED
      BY <3>3, <3>4, <3>5
  <2>4. CASE FetchOk(i) \/ FetchFails(i)
    <3>1. PICK q \in Keys : q = Key(i)
      BY Config DEF Types
    <3>2. PICK r \in {"ok", "err"} : Complete(q, r) /\ pc' = [pc EXCEPT ![i] = "done"]
      BY <2>4, <3>1 DEF FetchOk, FetchFails, Frozen, Finish
    <3>3. pc[i] = "fetch" /\ UNCHANGED config
      BY <2>4 DEF FetchOk, FetchFails, hvars
    <3>4. flight[q] # 0
      BY <3>1, <3>3, Basics DEF LeadInv
    <3>5. Flight!Land(q)
      BY <3>2, <3>3, <3>4, LandStep
    <3> QED
      BY <3>5 DEF Flight!Next
  <2> QED
    BY <1>4, <2>1, <2>2, <2>3, <2>4 DEF Run
<1>5. ASSUME NEW i \in Items, Panic(i) PROVE [Flight!Next]_<<flight, Aboard>>
  BY <1>5, FinishStutters DEF Panic, hvars
<1>6. ASSUME NEW k \in Keys, Age(k) PROVE [Flight!Next]_<<flight, Aboard>>
  BY <1>6, SameFlights DEF Age, hvars, Waits, Key
<1>7. CASE UNCHANGED vars
  BY <1>7, SameFlights DEF vars, Waits, Key
<1>8. ASSUME NEW k \in Keys, OutsideLeads(k) PROVE [Flight!Next]_<<flight, Aboard>>
  <2>1. flight[k] = 0 /\ flight' = [flight EXCEPT ![k] = Outside] /\ UNCHANGED <<config, pc, msg>>
    BY <1>8 DEF OutsideLeads, hvars
  <2>2. Aboard' = Aboard
    BY <2>1 DEF Aboard, Waits, Key
  <2>3. Flight!TakeOff(k, Outside)
    BY <2>1, <2>2 DEF Flight!TakeOff, Aboard, Waits
  <2> QED
    BY <2>3 DEF Flight!Next
<1>9. ASSUME NEW k \in Keys, OutsideLands(k) PROVE [Flight!Next]_<<flight, Aboard>>
  <2>1. PICK r \in {"ok", "err"} : Complete(k, r)
    BY <1>9 DEF OutsideLands
  <2>2. flight[k] # 0 /\ pc' = pc /\ UNCHANGED config
    BY <1>9, Basics DEF OutsideLands, hvars
  <2> QED
    BY <2>1, <2>2, LandStep DEF Flight!Next
<1> QED
  BY <1>1, <1>2, <1>3, <1>4, <1>5, <1>6, <1>7, <1>8, <1>9 DEF Next, Done

\* The duplicates of a batch share one flight per key, whatever their number and
\* however the batch ends: a batch implements Flights.
THEOREM BatchImplementsFlights == Spec => Coalesces
<1>1. Init => Flight!Init
  BY DEF Init, Flight!Init
<1>2. BatchInv /\ [Next]_vars
        => [Flight!Next]_<<flight, [k \in Keys |->
              {i \in Items : pc[i] = "wait" /\ Key(i) = k /\ msg[i] = "none"}]>>
  BY FlightStep DEF BatchInv, Aboard, Waits
<1> QED
  BY <1>1, <1>2, BatchInvariant, PTL DEF Spec, Coalesces, Flight!Spec
=============================================================================
