---------------------------- MODULE EngineProofs ----------------------------
(***************************************************************************)
(* Proofs about Engine, for any keys, writers, tasks and answers: its      *)
(* types, write-through and the lasting effect of clear().                 *)
(***************************************************************************)
EXTENDS Engine, TLAPS

USE EngineAssumption DEF Jobs, Answers

\* Only a living engine has jobs, entries in memory or a clear() under way.
DownIsQuiet ==
    life = "down" => /\ \A j \in Jobs : pc[j] = "idle"
                     /\ \A k \in Keys : memory[k] = 0
                     /\ ~clearing /\ ~looping /\ scan = {}

\* The answers of a clear() are of the past: no job holds one, none is cached, and
\* once the clear() has succeeded none is on disk.
WipedInv ==
    /\ \A a \in doomed \cup wiped : a \in 1 .. answered
    /\ ~clearing => doomed = {}
    /\ \A j \in Jobs : got[j] <= answered /\ got[j] \notin doomed \cup wiped
    /\ \A k \in Keys : memory[k] \notin doomed \cup wiped /\ disk[k] \notin wiped

\* An undisputed key has at most one insert between disk and memory, with the answer
\* that is on disk, and none at all while clear() is between memory and disk.
UndisputedInv ==
    \A k \in Keys \ disputed :
        /\ \A j \in Jobs : pc[j] = "store" /\ key[j] = k =>
               /\ disk[k] = got[j] /\ ~clearing
               /\ \A i \in Jobs : pc[i] = "store" /\ key[i] = k => i = j
        /\ clearing => memory[k] = 0
        /\ memory[k] = 0 \/ disk[k] = memory[k]
               \/ \E j \in Jobs : pc[j] = "store" /\ key[j] = k

\* TypeOK in two parts.
Shapes ==
    /\ life \in {"down", "open", "closed", "dropped"}
    /\ memory \in [Keys -> 0 .. MaxAnswers]
    /\ age \in [Keys -> {"fresh", "stale", "expired"}]
    /\ disk \in [Keys -> 0 .. MaxAnswers]
    /\ answered \in 0 .. MaxAnswers
    /\ tracked \subseteq Keys /\ pending \subseteq Keys /\ scan \subseteq Keys
    /\ looping \in BOOLEAN /\ clearing \in BOOLEAN
    /\ serving \in {"on", "draining", "off"}
    /\ doomed \subseteq Answers /\ wiped \subseteq Answers
    /\ disputed \subseteq Keys

JobShapes ==
    /\ pc \in [Jobs -> {"idle", "fetch", "persist", "store"}]
    /\ key \in [Jobs -> Keys \cup {0}]
    /\ got \in [Jobs -> 0 .. MaxAnswers]
    /\ \A j \in Jobs : /\ key[j] = 0 <=> pc[j] = "idle"
                       /\ got[j] = 0 <=> pc[j] \in {"idle", "fetch"}

LEMMA TypeParts == TypeOK <=> Shapes /\ JobShapes
BY DEF TypeOK, Shapes, JobShapes

-----------------------------------------------------------------------------
(* Types                                                                   *)

LEMMA KeyOfJob ==
    ASSUME JobShapes, NEW j \in Jobs, pc[j] # "idle"
    PROVE  key[j] \in Keys
<1>1. key[j] \in Keys \cup {0}
    BY DEF JobShapes
<1>2. key[j] # 0
    BY DEF JobShapes
<1> QED
    BY <1>1, <1>2

LEMMA TypesInit == Init => TypeOK
<1> SUFFICES ASSUME Init PROVE Shapes /\ JobShapes
    BY TypeParts
<1>1. JobShapes
    BY DEF Init, JobShapes
<1>2. /\ memory \in [Keys -> 0 .. MaxAnswers] /\ disk \in [Keys -> 0 .. MaxAnswers]
      /\ age \in [Keys -> {"fresh", "stale", "expired"}] /\ answered \in 0 .. MaxAnswers
    BY DEF Init
<1> QED
    BY <1>1, <1>2 DEF Init, Shapes

LEMMA ShapesNext == TypeOK /\ [Next]_vars => Shapes'
<1> SUFFICES ASSUME TypeOK, [Next]_vars PROVE Shapes'
    OBVIOUS
<1>0. Shapes /\ JobShapes
    BY TypeParts
<1> USE <1>0 DEF Shapes, JobShapes
<1>1. CASE Build
    BY <1>1 DEF Build, Restore, jobs, clears
<1>2. CASE Close \/ Drop
    BY <1>2 DEF Close, Drop, store, jobs, worker, clears
<1>3. CASE Release \/ Crash
    <2>1. (life \in {"down", "open", "closed", "dropped"})'
        BY <1>3 DEF Release, Crash, Forget
    <2>2. (memory \in [Keys -> 0 .. MaxAnswers])'
        BY <1>3 DEF Release, Crash, Forget
    <2>3. (age \in [Keys -> {"fresh", "stale", "expired"}])'
        BY <1>3 DEF Release, Crash, Forget
    <2>4. (disk \in [Keys -> 0 .. MaxAnswers])'
        BY <1>3 DEF Release, Crash, Forget
    <2>5. (answered \in 0 .. MaxAnswers)'
        BY <1>3 DEF Release, Crash, Forget
    <2>6. (tracked \subseteq Keys /\ pending \subseteq Keys /\ scan \subseteq Keys)'
        BY <1>3 DEF Release, Crash, Forget
    <2>7. (looping \in BOOLEAN /\ clearing \in BOOLEAN /\ serving \in {"on", "draining", "off"})'
        BY <1>3 DEF Release, Crash, Forget
    <2>8. (doomed \subseteq Answers /\ wiped \subseteq Answers)'
        BY <1>3 DEF Release, Crash, Forget
    <2>9. (disputed \subseteq Keys)'
        BY <1>3 DEF Release, Crash, Forget
    <2> QED
        BY <2>1, <2>2, <2>3, <2>4, <2>5, <2>6, <2>7, <2>8, <2>9
<1>4. ASSUME NEW j \in Writers, NEW k \in Keys, Ask(j, k) PROVE Shapes'
    BY <1>4 DEF Ask, Goes, store, worker, clears
<1>5. ASSUME NEW j \in Jobs, JobStep(j) PROVE Shapes'
    <2>1. CASE Answer(j)
        BY <2>1 DEF Answer, Goes, store, worker, clears
    <2>2. CASE Fail(j)
        BY <2>2 DEF Fail, End, Goes, store, worker, clears
    <2>3. CASE Persist(j)
        <3>1. key[j] \in Keys
            BY <2>3, KeyOfJob DEF Persist
        <3>2. (disputed \subseteq Keys)'
            BY <3>1, <2>3 DEF Persist
        <3>3. (disk \in [Keys -> 0 .. MaxAnswers])'
            BY <3>1, <2>3 DEF Persist, store
        <3> QED
            BY <3>2, <3>3, <2>3 DEF Persist, Goes, worker, clears
    <2>4. CASE PersistFails(j)
        <3>1. key[j] \in Keys
            BY <2>4, KeyOfJob DEF PersistFails
        <3>2. (disputed \subseteq Keys)'
            BY <3>1, <2>4 DEF PersistFails
        <3>3. (disk \in [Keys -> 0 .. MaxAnswers])'
            BY <3>1, <2>4 DEF PersistFails, store
        <3> QED
            BY <3>2, <3>3, <2>4 DEF PersistFails, Goes, store, worker, clears
    <2>5. CASE Store(j)
        <3>1. (life \in {"down", "open", "closed", "dropped"})'
            BY <2>5 DEF Store, Keep, End, Goes, clears
        <3>2. (memory \in [Keys -> 0 .. MaxAnswers])'
            BY <2>5 DEF Store, Keep, End, Goes, clears
        <3>3. (age \in [Keys -> {"fresh", "stale", "expired"}])'
            BY <2>5 DEF Store, Keep, End, Goes, clears
        <3>4. (disk \in [Keys -> 0 .. MaxAnswers])'
            BY <2>5 DEF Store, Keep, End, Goes, clears
        <3>5. (answered \in 0 .. MaxAnswers)'
            BY <2>5 DEF Store, Keep, End, Goes, clears
        <3>6. (tracked \subseteq Keys /\ pending \subseteq Keys /\ scan \subseteq Keys)'
            <4>1. key[j] \in Keys
                BY <2>5, KeyOfJob DEF Store
            <4>2. tracked' \subseteq tracked \cup {key[j]}
                BY <2>5 DEF Store
            <4> QED
                BY <2>5, <4>1, <4>2, ZenonT(60) DEF Store
        <3>7. (looping \in BOOLEAN /\ clearing \in BOOLEAN /\ serving \in {"on", "draining", "off"})'
            BY <2>5 DEF Store, Keep, End, Goes, clears
        <3>8. (doomed \subseteq Answers /\ wiped \subseteq Answers)'
            BY <2>5 DEF Store, Keep, End, Goes, clears
        <3>9. (disputed \subseteq Keys)'
            BY <2>5 DEF Store, Keep, End, Goes, clears
        <3> QED
            BY <3>1, <3>2, <3>3, <3>4, <3>5, <3>6, <3>7, <3>8, <3>9
    <2> QED
        BY <1>5, <2>1, <2>2, <2>3, <2>4, <2>5 DEF JobStep
<1>6. ASSUME NEW k \in Keys, Grow(k) PROVE Shapes'
    BY <1>6 DEF Grow, jobs, worker, clears
<1>7. ASSUME NEW k \in Keys, Skip(k) PROVE Shapes'
    BY <1>7 DEF Skip, store, jobs, clears
<1>8. ASSUME NEW j \in Tasks, NEW k \in Keys, Spawn(j, k) PROVE Shapes'
    BY <1>8 DEF Spawn, Goes, store, clears
<1>9. CASE MemoryTick
    BY <1>9 DEF MemoryTick, Keep, jobs, worker, clears
<1>10. CASE ClearMemory
    <2>1. (life \in {"down", "open", "closed", "dropped"})'
        BY <1>10 DEF ClearMemory, Keep, Ended, At, jobs, worker
    <2>2. (memory \in [Keys -> 0 .. MaxAnswers])'
        BY <1>10 DEF ClearMemory, Keep, Ended, At, jobs, worker
    <2>3. (age \in [Keys -> {"fresh", "stale", "expired"}])'
        BY <1>10 DEF ClearMemory, Keep, Ended, At, jobs, worker
    <2>4. (disk \in [Keys -> 0 .. MaxAnswers])'
        BY <1>10 DEF ClearMemory, Keep, Ended, At, jobs, worker
    <2>5. (answered \in 0 .. MaxAnswers)'
        BY <1>10 DEF ClearMemory, Keep, Ended, At, jobs, worker
    <2>6. (tracked \subseteq Keys /\ pending \subseteq Keys /\ scan \subseteq Keys)'
        BY <1>10 DEF ClearMemory, Keep, Ended, At, jobs, worker
    <2>7. (looping \in BOOLEAN /\ clearing \in BOOLEAN /\ serving \in {"on", "draining", "off"})'
        BY <1>10 DEF ClearMemory, Keep, Ended, At, jobs, worker
    <2>8. (doomed \subseteq Answers /\ wiped \subseteq Answers)'
        BY <1>10 DEF ClearMemory, Keep, Ended, At, jobs, worker
    <2>9. (disputed \subseteq Keys)'
        BY <1>10 DEF ClearMemory, Keep, Ended, At, jobs, worker
    <2> QED
        BY <2>1, <2>2, <2>3, <2>4, <2>5, <2>6, <2>7, <2>8, <2>9
<1>11. CASE ClearDisk \/ ClearDiskFails
    <2>1. (life \in {"down", "open", "closed", "dropped"})'
        BY <1>11 DEF ClearDisk, ClearDiskFails, store, jobs, worker
    <2>2. (memory \in [Keys -> 0 .. MaxAnswers])'
        BY <1>11 DEF ClearDisk, ClearDiskFails, store, jobs, worker
    <2>3. (age \in [Keys -> {"fresh", "stale", "expired"}])'
        BY <1>11 DEF ClearDisk, ClearDiskFails, store, jobs, worker
    <2>4. (disk \in [Keys -> 0 .. MaxAnswers])'
        BY <1>11 DEF ClearDisk, ClearDiskFails, store, jobs, worker
    <2>5. (answered \in 0 .. MaxAnswers)'
        BY <1>11 DEF ClearDisk, ClearDiskFails, store, jobs, worker
    <2>6. (tracked \subseteq Keys /\ pending \subseteq Keys /\ scan \subseteq Keys)'
        BY <1>11 DEF ClearDisk, ClearDiskFails, store, jobs, worker
    <2>7. (looping \in BOOLEAN /\ clearing \in BOOLEAN /\ serving \in {"on", "draining", "off"})'
        BY <1>11 DEF ClearDisk, ClearDiskFails, store, jobs, worker
    <2>8. (doomed \subseteq Answers /\ wiped \subseteq Answers)'
        BY <1>11 DEF ClearDisk, ClearDiskFails, store, jobs, worker
    <2>9. (disputed \subseteq Keys)'
        BY <1>11 DEF ClearDisk, ClearDiskFails, store, jobs, worker
    <2> QED
        BY <2>1, <2>2, <2>3, <2>4, <2>5, <2>6, <2>7, <2>8, <2>9
<1>12. CASE Tick \/ Stop
    BY <1>12 DEF Tick, Stop, store, jobs, clears
<1>13. CASE UNCHANGED vars
    BY <1>13 DEF vars, store, jobs, worker, clears
<1>14. CASE StopServing \/ Drained
    BY <1>14 DEF StopServing, Drained, store, jobs, worker, clears
<1> QED
    BY <1>1, <1>2, <1>3, <1>4, <1>5, <1>6, <1>7, <1>8, <1>9, <1>10, <1>11, <1>12, <1>13,
       <1>14
       DEF Next, SpawnSome, ClearStep

LEMMA JobShapesNext == TypeOK /\ [Next]_vars => JobShapes'
<1> SUFFICES ASSUME TypeOK, [Next]_vars PROVE JobShapes'
    OBVIOUS
<1>0. Shapes /\ JobShapes
    BY TypeParts
<1> USE <1>0 DEF Shapes, JobShapes
<1>1. CASE Build
    BY <1>1 DEF Build, Restore, jobs, clears
<1>2. CASE Close \/ Drop
    BY <1>2 DEF Close, Drop, store, jobs, worker, clears
<1>3. CASE Release \/ Crash
    BY <1>3 DEF Release, Crash, Forget
<1>4. ASSUME NEW j \in Writers, NEW k \in Keys, Ask(j, k) PROVE JobShapes'
    BY <1>4 DEF Ask, Goes, store, worker, clears
<1>5. ASSUME NEW j \in Jobs, JobStep(j) PROVE JobShapes'
    <2>1. CASE Answer(j)
        BY <2>1 DEF Answer, Goes, store, worker, clears
    <2>2. CASE Fail(j)
        BY <2>2 DEF Fail, End, Goes, store, worker, clears
    <2>3. CASE Persist(j)
        BY <2>3 DEF Persist, Goes, worker, clears
    <2>4. CASE PersistFails(j)
        BY <2>4 DEF PersistFails, Goes, store, worker, clears
    <2>5. CASE Store(j)
        BY <2>5 DEF Store, Keep, End, Goes, clears
    <2> QED
        BY <1>5, <2>1, <2>2, <2>3, <2>4, <2>5 DEF JobStep
<1>6. ASSUME NEW k \in Keys, Grow(k) PROVE JobShapes'
    BY <1>6 DEF Grow, jobs, worker, clears
<1>7. ASSUME NEW k \in Keys, Skip(k) PROVE JobShapes'
    BY <1>7 DEF Skip, store, jobs, clears
<1>8. ASSUME NEW j \in Tasks, NEW k \in Keys, Spawn(j, k) PROVE JobShapes'
    BY <1>8 DEF Spawn, Goes, store, clears
<1>9. CASE MemoryTick
    BY <1>9 DEF MemoryTick, Keep, jobs, worker, clears
<1>10. CASE ClearMemory
    BY <1>10 DEF ClearMemory, Keep, Ended, At, jobs, worker
<1>11. CASE ClearDisk \/ ClearDiskFails
    BY <1>11 DEF ClearDisk, ClearDiskFails, store, jobs, worker
<1>12. CASE Tick \/ Stop
    BY <1>12 DEF Tick, Stop, store, jobs, clears
<1>13. CASE UNCHANGED vars
    BY <1>13 DEF vars, store, jobs, worker, clears
<1>14. CASE StopServing \/ Drained
    BY <1>14 DEF StopServing, Drained, store, jobs, worker, clears
<1> QED
    BY <1>1, <1>2, <1>3, <1>4, <1>5, <1>6, <1>7, <1>8, <1>9, <1>10, <1>11, <1>12, <1>13,
       <1>14
       DEF Next, SpawnSome, ClearStep

\* The engine's variables keep their types, and a job that inserts has an answer.
THEOREM EngineTypes == Spec => []TypeOK
<1>1. TypeOK /\ [Next]_vars => TypeOK'
    <2> SUFFICES ASSUME TypeOK, [Next]_vars PROVE Shapes' /\ JobShapes'
        BY DEF TypeOK, Shapes, JobShapes
    <2> QED
        BY ShapesNext, JobShapesNext
<1> QED
    BY <1>1, TypesInit, PTL DEF Spec
-----------------------------------------------------------------------------
(* What clear() wipes                                                      *)

LEMMA DownNext == TypeOK /\ DownIsQuiet /\ [Next]_vars => DownIsQuiet'
<1> SUFFICES ASSUME TypeOK, DownIsQuiet, [Next]_vars PROVE DownIsQuiet'
    OBVIOUS
<1> USE DEF TypeOK, DownIsQuiet
<1>1. CASE Build
    BY <1>1 DEF Build, Restore, jobs, clears
<1>2. CASE Close \/ Drop
    BY <1>2 DEF Close, Drop, store, jobs, worker, clears
<1>3. CASE Release \/ Crash
    BY <1>3 DEF Release, Crash, Forget
<1>4. ASSUME NEW j \in Writers, NEW k \in Keys, Ask(j, k) PROVE DownIsQuiet'
    BY <1>4 DEF Ask, Goes, store, worker, clears
<1>5. ASSUME NEW j \in Jobs, JobStep(j) PROVE DownIsQuiet'
    <2>1. CASE Answer(j)
        BY <2>1 DEF Answer, Goes, store, worker, clears
    <2>2. CASE Fail(j)
        BY <2>2 DEF Fail, End, Goes, store, worker, clears
    <2>3. CASE Persist(j)
        BY <2>3 DEF Persist, At, Goes, worker, clears
    <2>4. CASE PersistFails(j)
        BY <2>4 DEF PersistFails, Goes, store, worker, clears
    <2>5. CASE Store(j)
        BY <2>5 DEF Store, Keep, Cached, End, Goes, clears
    <2> QED
        BY <1>5, <2>1, <2>2, <2>3, <2>4, <2>5 DEF JobStep
<1>6. ASSUME NEW k \in Keys, Grow(k) PROVE DownIsQuiet'
    BY <1>6 DEF Grow, jobs, worker, clears
<1>7. ASSUME NEW k \in Keys, Skip(k) PROVE DownIsQuiet'
    BY <1>7 DEF Skip, store, jobs, clears
<1>8. ASSUME NEW j \in Tasks, NEW k \in Keys, Spawn(j, k) PROVE DownIsQuiet'
    BY <1>8 DEF Spawn, Goes, store, clears
<1>9. CASE MemoryTick
    BY <1>9 DEF MemoryTick, Keep, Cached, jobs, worker, clears
<1>10. CASE ClearMemory
    BY <1>10 DEF ClearMemory, Keep, Ended, At, jobs, worker
<1>11. CASE ClearDisk \/ ClearDiskFails
    BY <1>11 DEF ClearDisk, ClearDiskFails, store, jobs, worker
<1>12. CASE Tick \/ Stop
    BY <1>12 DEF Tick, Stop, store, jobs, clears
<1>13. CASE UNCHANGED vars
    BY <1>13 DEF vars, store, jobs, worker, clears
<1>14. CASE StopServing \/ Drained
    BY <1>14 DEF StopServing, Drained, store, jobs, worker, clears
<1> QED
    BY <1>1, <1>2, <1>3, <1>4, <1>5, <1>6, <1>7, <1>8, <1>9, <1>10, <1>11, <1>12, <1>13,
       <1>14
       DEF Next, SpawnSome, ClearStep

LEMMA WipedNext == TypeOK /\ DownIsQuiet /\ WipedInv /\ [Next]_vars => WipedInv'
<1> SUFFICES ASSUME TypeOK, DownIsQuiet, WipedInv, [Next]_vars PROVE WipedInv'
    OBVIOUS
<1> USE DEF TypeOK, DownIsQuiet, WipedInv
<1>1. CASE Build
    BY <1>1 DEF Build, Restore, jobs, clears
<1>2. CASE Close \/ Drop
    <2>1. UNCHANGED <<memory, disk, answered, got, clearing, doomed, wiped>>
        BY <1>2 DEF Close, Drop, store, jobs, clears
    <2> QED
        BY <2>1
<1>3. CASE Release \/ Crash
    <2>1. 0 \notin doomed \cup wiped
        OBVIOUS
    <2>2. doomed' = {} /\ wiped' = wiped /\ answered' = answered /\ disk' = disk
        BY <1>3 DEF Release, Crash, Forget
    <2>3. \A j \in Jobs : got'[j] = 0
        BY <1>3 DEF Release, Crash, Forget
    <2>4. \A k \in Keys : memory'[k] = 0
        BY <1>3 DEF Release, Crash, Forget
    <2>5. (\A a \in doomed \cup wiped : a \in 1 .. answered)' /\ (~clearing => doomed = {})'
        BY <2>2
    <2>6. (\A j \in Jobs : got[j] <= answered /\ got[j] \notin doomed \cup wiped)'
        BY <2>1, <2>2, <2>3
    <2>7. (\A k \in Keys : memory[k] \notin doomed \cup wiped /\ disk[k] \notin wiped)'
        BY <2>1, <2>2, <2>4
    <2> QED
        BY <2>5, <2>6, <2>7
<1>4. ASSUME NEW j \in Writers, NEW k \in Keys, Ask(j, k) PROVE WipedInv'
    BY <1>4 DEF Ask, Goes, store, worker, clears
<1>5. ASSUME NEW j \in Jobs, JobStep(j) PROVE WipedInv'
    <2>1. CASE Answer(j)
        BY <2>1 DEF Answer, Goes, store, worker, clears
    <2>2. CASE Fail(j)
        BY <2>2 DEF Fail, End, Goes, store, worker, clears
    <2>3. CASE Persist(j)
        BY <2>3 DEF Persist, At, Goes, worker, clears
    <2>4. CASE PersistFails(j)
        BY <2>4 DEF PersistFails, Goes, store, worker, clears
    <2>5. CASE Store(j)
        BY <2>5 DEF Store, Keep, Cached, End, Goes, clears
    <2> QED
        BY <1>5, <2>1, <2>2, <2>3, <2>4, <2>5 DEF JobStep
<1>6. ASSUME NEW k \in Keys, Grow(k) PROVE WipedInv'
    BY <1>6 DEF Grow, jobs, worker, clears
<1>7. ASSUME NEW k \in Keys, Skip(k) PROVE WipedInv'
    BY <1>7 DEF Skip, store, jobs, clears
<1>8. ASSUME NEW j \in Tasks, NEW k \in Keys, Spawn(j, k) PROVE WipedInv'
    BY <1>8 DEF Spawn, Goes, store, clears
<1>9. CASE MemoryTick
    BY <1>9 DEF MemoryTick, Keep, Cached, jobs, worker, clears
<1>10. CASE ClearMemory
    BY <1>10 DEF ClearMemory, Keep, Ended, At, jobs, worker
<1>11. CASE ClearDisk \/ ClearDiskFails
    <2>1. CASE ClearDisk
        <3>1. doomed' = {} /\ wiped' = wiped \cup doomed /\ UNCHANGED <<memory, answered, got>>
            BY <2>1 DEF ClearDisk, jobs
        <3>2. \A k \in Keys : disk'[k] = 0
            BY <2>1 DEF ClearDisk
        <3>3. 0 \notin doomed \cup wiped
            OBVIOUS
        <3> QED
            BY <3>1, <3>2, <3>3, ZenonT(60)
    <2>2. CASE ClearDiskFails
        BY <2>2 DEF ClearDiskFails, store, jobs
    <2> QED
        BY <1>11, <2>1, <2>2
<1>12. CASE Tick \/ Stop
    <2>1. UNCHANGED <<memory, disk, answered, got, clearing, doomed, wiped>>
        BY <1>12 DEF Tick, Stop, store, jobs, clears
    <2> QED
        BY <2>1
<1>13. CASE UNCHANGED vars
    BY <1>13 DEF vars, store, jobs, worker, clears
<1>14. CASE StopServing \/ Drained
    <2>1. UNCHANGED <<memory, disk, answered, got, clearing, doomed, wiped>>
        BY <1>14 DEF StopServing, Drained, store, jobs, worker, clears
    <2> QED
        BY <2>1
<1> QED
    BY <1>1, <1>2, <1>3, <1>4, <1>5, <1>6, <1>7, <1>8, <1>9, <1>10, <1>11, <1>12, <1>13,
       <1>14
       DEF Next, SpawnSome, ClearStep

-----------------------------------------------------------------------------
(* Write-through                                                           *)

LEMMA UndisputedNext == TypeOK /\ DownIsQuiet /\ UndisputedInv /\ [Next]_vars => UndisputedInv'
<1> SUFFICES ASSUME TypeOK, DownIsQuiet, UndisputedInv, [Next]_vars PROVE UndisputedInv'
    OBVIOUS
<1> USE DEF TypeOK, DownIsQuiet, UndisputedInv
<1>1. CASE Build
    BY <1>1 DEF Build, Restore, jobs, clears
<1>2. CASE Close \/ Drop
    BY <1>2 DEF Close, Drop, store, jobs, worker, clears
<1>3. CASE Release \/ Crash
    BY <1>3 DEF Release, Crash, Forget
<1>4. ASSUME NEW j \in Writers, NEW k \in Keys, Ask(j, k) PROVE UndisputedInv'
    BY <1>4 DEF Ask, Goes, store, worker, clears
<1>5. ASSUME NEW j \in Jobs, JobStep(j) PROVE UndisputedInv'
    <2>1. CASE Answer(j)
        BY <2>1 DEF Answer, Goes, store, worker, clears
    <2>2. CASE Fail(j)
        BY <2>2 DEF Fail, End, Goes, store, worker, clears
    <2>3. CASE Persist(j)
        BY <2>3 DEF Persist, At, Goes, worker, clears
    <2>4. CASE PersistFails(j)
        BY <2>4 DEF PersistFails, Goes, store, worker, clears
    <2>5. CASE Store(j)
        BY <2>5 DEF Store, Keep, Cached, End, Goes, clears
    <2> QED
        BY <1>5, <2>1, <2>2, <2>3, <2>4, <2>5 DEF JobStep
<1>6. ASSUME NEW k \in Keys, Grow(k) PROVE UndisputedInv'
    BY <1>6 DEF Grow, jobs, worker, clears
<1>7. ASSUME NEW k \in Keys, Skip(k) PROVE UndisputedInv'
    BY <1>7 DEF Skip, store, jobs, clears
<1>8. ASSUME NEW j \in Tasks, NEW k \in Keys, Spawn(j, k) PROVE UndisputedInv'
    BY <1>8 DEF Spawn, Goes, store, clears
<1>9. CASE MemoryTick
    BY <1>9 DEF MemoryTick, Keep, Cached, jobs, worker, clears
<1>10. CASE ClearMemory
    BY <1>10 DEF ClearMemory, Keep, Ended, At, jobs, worker
<1>11. CASE ClearDisk \/ ClearDiskFails
    BY <1>11 DEF ClearDisk, ClearDiskFails, store, jobs, worker
<1>12. CASE Tick \/ Stop
    BY <1>12 DEF Tick, Stop, store, jobs, clears
<1>13. CASE UNCHANGED vars
    BY <1>13 DEF vars, store, jobs, worker, clears
<1>14. CASE StopServing \/ Drained
    BY <1>14 DEF StopServing, Drained, store, jobs, worker, clears
<1> QED
    BY <1>1, <1>2, <1>3, <1>4, <1>5, <1>6, <1>7, <1>8, <1>9, <1>10, <1>11, <1>12, <1>13,
       <1>14
       DEF Next, SpawnSome, ClearStep

-----------------------------------------------------------------------------
(* The theorems                                                            *)

\* The engine's history of wiped answers and disputed keys, in one invariant.
IInv == TypeOK /\ DownIsQuiet /\ WipedInv /\ UndisputedInv

LEMMA Inductive == Spec => []IInv
<1>1. Init => IInv
    <2> SUFFICES ASSUME Init PROVE IInv
        OBVIOUS
    <2>1. TypeOK
        BY TypesInit
    <2>2. DownIsQuiet /\ WipedInv /\ UndisputedInv
        BY DEF Init, DownIsQuiet, WipedInv, UndisputedInv
    <2> QED
        BY <2>1, <2>2 DEF IInv
<1>2. IInv /\ [Next]_vars => IInv'
    <2> SUFFICES ASSUME IInv, [Next]_vars PROVE IInv'
        OBVIOUS
    <2>1. Shapes' /\ JobShapes'
        BY ShapesNext, JobShapesNext DEF IInv
    <2>2. TypeOK'
        BY <2>1 DEF TypeOK, Shapes, JobShapes
    <2>3. DownIsQuiet' /\ WipedInv' /\ UndisputedInv'
        BY DownNext, WipedNext, UndisputedNext DEF IInv
    <2> QED
        BY <2>2, <2>3 DEF IInv
<1> QED
    BY <1>1, <1>2, PTL DEF Spec

\* Write-through: whatever inserts, evictions, clears and crashes there are, an entry
\* whose last insert met no other change is on disk as it is in memory.
THEOREM MemoryIsOnDisk == Spec => []WriteThrough
<1>1. IInv => WriteThrough
    BY DEF IInv, UndisputedInv, WriteThrough, Cached, At
<1> QED
    BY <1>1, Inductive, PTL

\* What a clear() has wiped stays away, across any number of restarts.
THEOREM WipedForGood == Spec => []ClearIsDurable
<1>1. IInv => ClearIsDurable
    BY DEF IInv, WipedInv, ClearIsDurable
<1> QED
    BY <1>1, Inductive, PTL
=============================================================================
