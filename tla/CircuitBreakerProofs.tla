------------------------ MODULE CircuitBreakerProofs ------------------------
(***************************************************************************)
(* What CircuitBreaker satisfies for every number of callers and every     *)
(* configuration.                                                          *)
(***************************************************************************)
EXTENDS CircuitBreaker, TLAPS

LockType ==
    [Locks -> [readers : SUBSET Tasks, queued : SUBSET Tasks, writer : Tasks \cup {Nobody}]]

\* The type invariant is preserved by every step of a caller or a reloader.
LEMMA TypeStep == TypeOK /\ [Next]_vars => TypeOK'
<1> SUFFICES ASSUME TypeOK, [Next]_vars PROVE TypeOK'
  OBVIOUS
<1> USE CircuitAssumption DEF TypeOK, Tasks, Locks, Places, CircuitStates, cvars, At, Goto
<1>1. ASSUME NEW t \in Callers, BeginRequest(t) PROVE TypeOK'
  BY <1>1 DEF BeginRequest, Load
<1>2. ASSUME NEW t \in Callers, Step(t) PROVE TypeOK'
  <2>1. CASE MtLoad(t)
    BY <2>1 DEF MtLoad
  <2>2. CASE MtReadOpened(t)
    BY <2>2 DEF MtReadOpened, Reading
  <2>3. CASE MtReadConfig(t)
    BY <2>3 DEF MtReadConfig, NotReading
  <2>4. CASE HalfOpenCas(t)
    BY <2>4 DEF HalfOpenCas
  <2>5. CASE HalfOpenStore(t)
    BY <2>5 DEF HalfOpenStore
  <2>6. CASE AllowLoad(t)
    BY <2>6 DEF AllowLoad
  <2>7. CASE Outcome(t)
    BY <2>7 DEF Outcome
  <2>8. CASE SuccessLoad(t)
    BY <2>8 DEF SuccessLoad
  <2>9. CASE SuccessReset(t)
    BY <2>9 DEF SuccessReset
  <2>10. CASE SuccessCount(t)
    BY <2>10 DEF SuccessCount, Plus, Load
  <2>11. CASE SuccessConfig(t)
    BY <2>11 DEF SuccessConfig, Reading
  <2>12. CASE CloseState(t)
    BY <2>12 DEF CloseState
  <2>13. CASE CloseOpenedQueue(t)
    BY <2>13 DEF CloseOpenedQueue, QueueWrite, Queued
  <2>14. CASE CloseOpened(t)
    BY <2>14 DEF CloseOpened, Unqueued
  <2>15. CASE CloseFailures(t)
    BY <2>15 DEF CloseFailures
  <2>16. CASE CloseSuccesses(t)
    BY <2>16 DEF CloseSuccesses
  <2>17. CASE CloseWindowQueue(t)
    BY <2>17 DEF CloseWindowQueue, QueueWrite, Queued
  <2>18. CASE CloseWindow(t)
    <3>1. Unqueued(t, "window") \in LockType
      BY DEF Unqueued, LockType
    <3>2. lock' \in LockType
      BY <2>18, <3>1 DEF CloseWindow, LockType
    <3> QED
      BY <2>18, <3>2 DEF CloseWindow, LockType
  <2>19. CASE FailureLoad(t)
    BY <2>19 DEF FailureLoad
  <2>20. CASE WindowQueue(t)
    BY <2>20 DEF WindowQueue, QueueWrite, Queued
  <2>21. CASE WindowLock(t)
    BY <2>21, ZenonT(60) DEF WindowLock, Writing
  <2>22. CASE WindowConfig(t)
    <3>1. Reading(t, "config") \in LockType
      BY DEF Reading, LockType
    <3>2. lock' \in LockType
      BY <2>22, <3>1 DEF WindowConfig, LockType
    <3> QED
      BY <2>22, <3>2, ZenonT(60) DEF WindowConfig, LockType
  <2>23. CASE WindowStore(t)
    BY <2>23 DEF WindowStore, NotReading
  <2>24. CASE FailureCount(t)
    BY <2>24 DEF FailureCount, Plus, Load
  <2>25. CASE FailureConfig(t)
    BY <2>25 DEF FailureConfig, Reading
  <2>26. CASE OpenLoad(t)
    BY <2>26 DEF OpenLoad, NotReading
  <2>27. CASE OpenCas(t)
    BY <2>27 DEF OpenCas
  <2>28. CASE OpenCasFails(t)
    BY <2>28 DEF OpenCasFails, NotReading
  <2>29. CASE OpenOpenedQueue(t)
    BY <2>29 DEF OpenOpenedQueue, QueueWrite, Queued
  <2>30. CASE OpenOpened(t)
    BY <2>30 DEF OpenOpened, Unqueued
  <2>31. CASE OpenSuccesses(t)
    BY <2>31 DEF OpenSuccesses, NotReading
  <2> QED
    BY <1>2, <2>1, <2>2, <2>3, <2>4, <2>5, <2>6, <2>7, <2>8, <2>9, <2>10, <2>11, <2>12,
       <2>13, <2>14, <2>15, <2>16, <2>17, <2>18, <2>19, <2>20, <2>21, <2>22, <2>23, <2>24,
       <2>25, <2>26, <2>27, <2>28, <2>29, <2>30, <2>31 DEF Step
<1>3. ASSUME NEW t \in Reloaders, ReloadQueue(t) PROVE TypeOK'
  BY <1>3 DEF ReloadQueue, QueueWrite, Queued
<1>4. ASSUME NEW t \in Reloaders, SetConfig(t) PROVE TypeOK'
  BY <1>4 DEF SetConfig, Unqueued
<1>5. CASE OpenDurationElapses
  BY <1>5 DEF OpenDurationElapses
<1>6. CASE FailureWindowElapses
  BY <1>6 DEF FailureWindowElapses
<1>7. CASE UNCHANGED vars
  BY <1>7 DEF vars
<1> QED
  BY <1>1, <1>2, <1>3, <1>4, <1>5, <1>6, <1>7 DEF Next

\* The initial state of a new breaker has its type.
LEMMA InitType == Init => TypeOK
<1> SUFFICES ASSUME Init PROVE TypeOK
  OBVIOUS
<1>1. lock \in LockType
  BY DEF Init, LockType, Tasks
<1>2. pc \in [Tasks -> Places] /\ seen \in [Tasks -> 0..MaxCount]
  BY CircuitAssumption DEF Init, Places
<1>3. 0 \in 0..MaxCount
  BY CircuitAssumption
<1> QED
  BY <1>1, <1>2, <1>3 DEF Init, TypeOK, LockType, CircuitStates

\* Type correctness of the breaker: the shared state, the three locks and every
\* task's program counter keep their types, and no counter leaves its width.
THEOREM TypeCorrect == Spec => []TypeOK
<1> QED
  BY InitType, TypeStep, PTL DEF Spec

\* Every step, a reload's included, keeps a full failure count in somebody's hands.
LEMMA TripStep ==
    ASSUME TypeOK, TripInv, [Next]_vars
    PROVE TripInv'
<1> USE CircuitAssumption DEF TypeOK, Tasks, CircuitStates, cvars, At, Goto, TripInv, PendingTrip, Trips
<1>1. ASSUME NEW t \in Callers, BeginRequest(t) PROVE TripInv'
  BY <1>1 DEF BeginRequest, Load
<1>2. ASSUME NEW t \in Callers, Step(t) PROVE TripInv'
  <2>1. CASE MtLoad(t)
    BY <2>1 DEF MtLoad
  <2>2. CASE MtReadOpened(t)
    BY <2>2 DEF MtReadOpened
  <2>3. CASE MtReadConfig(t)
    BY <2>3 DEF MtReadConfig
  <2>4. CASE HalfOpenCas(t)
    BY <2>4 DEF HalfOpenCas
  <2>5. CASE HalfOpenStore(t)
    BY <2>5 DEF HalfOpenStore
  <2>6. CASE AllowLoad(t)
    BY <2>6 DEF AllowLoad
  <2>7. CASE Outcome(t)
    BY <2>7 DEF Outcome
  <2>8. CASE SuccessLoad(t)
    BY <2>8 DEF SuccessLoad
  <2>9. CASE SuccessReset(t)
    BY <2>9 DEF SuccessReset
  <2>10. CASE SuccessCount(t)
    BY <2>10 DEF SuccessCount, Plus, Load
  <2>11. CASE SuccessConfig(t)
    BY <2>11 DEF SuccessConfig
  <2>12. CASE CloseState(t)
    BY <2>12 DEF CloseState
  <2>13. CASE CloseOpenedQueue(t)
    BY <2>13 DEF CloseOpenedQueue, QueueWrite
  <2>14. CASE CloseOpened(t)
    BY <2>14 DEF CloseOpened
  <2>15. CASE CloseFailures(t)
    BY <2>15 DEF CloseFailures
  <2>16. CASE CloseSuccesses(t)
    BY <2>16 DEF CloseSuccesses
  <2>17. CASE CloseWindowQueue(t)
    BY <2>17 DEF CloseWindowQueue, QueueWrite
  <2>18. CASE CloseWindow(t)
    BY <2>18 DEF CloseWindow
  <2>19. CASE FailureLoad(t)
    BY <2>19 DEF FailureLoad
  <2>20. CASE WindowQueue(t)
    BY <2>20 DEF WindowQueue, QueueWrite
  <2>21. CASE WindowLock(t)
    BY <2>21 DEF WindowLock
  <2>22. CASE WindowConfig(t)
    BY <2>22 DEF WindowConfig
  <2>23. CASE WindowStore(t)
    BY <2>23 DEF WindowStore
  <2>24. CASE FailureCount(t)
    BY <2>24 DEF FailureCount, Plus, Load
  <2>25. CASE FailureConfig(t)
    BY <2>25 DEF FailureConfig
  <2>26. CASE OpenLoad(t)
    BY <2>26 DEF OpenLoad
  <2>27. CASE OpenCas(t)
    BY <2>27 DEF OpenCas
  <2>28. CASE OpenCasFails(t)
    BY <2>28 DEF OpenCasFails
  <2>29. CASE OpenOpenedQueue(t)
    BY <2>29 DEF OpenOpenedQueue, QueueWrite
  <2>30. CASE OpenOpened(t)
    BY <2>30 DEF OpenOpened
  <2>31. CASE OpenSuccesses(t)
    BY <2>31 DEF OpenSuccesses
  <2> QED
    BY <1>2, <2>1, <2>2, <2>3, <2>4, <2>5, <2>6, <2>7, <2>8, <2>9, <2>10, <2>11, <2>12,
       <2>13, <2>14, <2>15, <2>16, <2>17, <2>18, <2>19, <2>20, <2>21, <2>22, <2>23, <2>24,
       <2>25, <2>26, <2>27, <2>28, <2>29, <2>30, <2>31 DEF Step
<1>3. ASSUME NEW t \in Reloaders, ReloadQueue(t) PROVE TripInv'
  BY <1>3 DEF ReloadQueue, QueueWrite
<1>4. ASSUME NEW t \in Reloaders, SetConfig(t) PROVE TripInv'
  BY <1>4 DEF SetConfig
<1>5. CASE OpenDurationElapses
  BY <1>5 DEF OpenDurationElapses
<1>6. CASE FailureWindowElapses
  BY <1>6 DEF FailureWindowElapses
<1>7. CASE UNCHANGED vars
  BY <1>7 DEF vars
<1> QED
  BY <1>1, <1>2, <1>3, <1>4, <1>5, <1>6, <1>7 DEF Next

\* Every step, a reload's included, keeps a full success count in somebody's hands.
LEMMA CloseStep ==
    ASSUME TypeOK, CloseInv, [Next]_vars
    PROVE CloseInv'
<1> USE CircuitAssumption DEF TypeOK, Tasks, CircuitStates, cvars, At, Goto, CloseInv, PendingClose, Closes
<1>1. ASSUME NEW t \in Callers, BeginRequest(t) PROVE CloseInv'
  BY <1>1 DEF BeginRequest, Load
<1>2. ASSUME NEW t \in Callers, Step(t) PROVE CloseInv'
  <2>1. CASE MtLoad(t)
    BY <2>1 DEF MtLoad
  <2>2. CASE MtReadOpened(t)
    BY <2>2 DEF MtReadOpened
  <2>3. CASE MtReadConfig(t)
    BY <2>3 DEF MtReadConfig
  <2>4. CASE HalfOpenCas(t)
    BY <2>4 DEF HalfOpenCas
  <2>5. CASE HalfOpenStore(t)
    BY <2>5 DEF HalfOpenStore
  <2>6. CASE AllowLoad(t)
    BY <2>6 DEF AllowLoad
  <2>7. CASE Outcome(t)
    BY <2>7 DEF Outcome
  <2>8. CASE SuccessLoad(t)
    BY <2>8 DEF SuccessLoad
  <2>9. CASE SuccessReset(t)
    BY <2>9 DEF SuccessReset
  <2>10. CASE SuccessCount(t)
    BY <2>10 DEF SuccessCount, Plus, Load
  <2>11. CASE SuccessConfig(t)
    BY <2>11 DEF SuccessConfig
  <2>12. CASE CloseState(t)
    BY <2>12 DEF CloseState
  <2>13. CASE CloseOpenedQueue(t)
    BY <2>13 DEF CloseOpenedQueue, QueueWrite
  <2>14. CASE CloseOpened(t)
    BY <2>14 DEF CloseOpened
  <2>15. CASE CloseFailures(t)
    BY <2>15 DEF CloseFailures
  <2>16. CASE CloseSuccesses(t)
    BY <2>16 DEF CloseSuccesses
  <2>17. CASE CloseWindowQueue(t)
    BY <2>17 DEF CloseWindowQueue, QueueWrite
  <2>18. CASE CloseWindow(t)
    BY <2>18 DEF CloseWindow
  <2>19. CASE FailureLoad(t)
    BY <2>19 DEF FailureLoad
  <2>20. CASE WindowQueue(t)
    BY <2>20 DEF WindowQueue, QueueWrite
  <2>21. CASE WindowLock(t)
    BY <2>21 DEF WindowLock
  <2>22. CASE WindowConfig(t)
    BY <2>22 DEF WindowConfig
  <2>23. CASE WindowStore(t)
    BY <2>23 DEF WindowStore
  <2>24. CASE FailureCount(t)
    BY <2>24 DEF FailureCount, Plus, Load
  <2>25. CASE FailureConfig(t)
    BY <2>25 DEF FailureConfig
  <2>26. CASE OpenLoad(t)
    BY <2>26 DEF OpenLoad
  <2>27. CASE OpenCas(t)
    BY <2>27 DEF OpenCas
  <2>28. CASE OpenCasFails(t)
    BY <2>28 DEF OpenCasFails
  <2>29. CASE OpenOpenedQueue(t)
    BY <2>29 DEF OpenOpenedQueue, QueueWrite
  <2>30. CASE OpenOpened(t)
    BY <2>30 DEF OpenOpened
  <2>31. CASE OpenSuccesses(t)
    BY <2>31 DEF OpenSuccesses
  <2> QED
    BY <1>2, <2>1, <2>2, <2>3, <2>4, <2>5, <2>6, <2>7, <2>8, <2>9, <2>10, <2>11, <2>12,
       <2>13, <2>14, <2>15, <2>16, <2>17, <2>18, <2>19, <2>20, <2>21, <2>22, <2>23, <2>24,
       <2>25, <2>26, <2>27, <2>28, <2>29, <2>30, <2>31 DEF Step
<1>3. ASSUME NEW t \in Reloaders, ReloadQueue(t) PROVE CloseInv'
  BY <1>3 DEF ReloadQueue, QueueWrite
<1>4. ASSUME NEW t \in Reloaders, SetConfig(t) PROVE CloseInv'
  BY <1>4 DEF SetConfig
<1>5. CASE OpenDurationElapses
  BY <1>5 DEF OpenDurationElapses
<1>6. CASE FailureWindowElapses
  BY <1>6 DEF FailureWindowElapses
<1>7. CASE UNCHANGED vars
  BY <1>7 DEF vars
<1> QED
  BY <1>1, <1>2, <1>3, <1>4, <1>5, <1>6, <1>7 DEF Next

\* Whatever the number of callers and reloads and however their atomic steps
\* interleave, a closed circuit whose window has seen enough failures for every
\* configuration installed meanwhile has a caller about to open it, and when the calls
\* have returned there is no such circuit (record_failure, open, close, set_config).
THEOREM TripsAreNotLost == Spec => [](TripInv /\ NoLostTrip)
<1>1. Init => TypeOK /\ TripInv
  <2> SUFFICES ASSUME Init PROVE TripInv
    BY InitType
  <2> QED
    BY CircuitAssumption DEF Init, TripInv, Trips
<1>2. TypeOK /\ TripInv /\ [Next]_vars => (TypeOK /\ TripInv)'
  BY TypeStep, TripStep
<1>3. TypeOK /\ TripInv => NoLostTrip
  BY CircuitAssumption DEF TypeOK, TripInv, NoLostTrip, PendingTrip, AtRest, BetweenCalls
<1> QED
  BY <1>1, <1>2, <1>3, PTL DEF Spec

\* The same for closing: a half-open circuit that has seen enough successes has a
\* caller about to close it or to reset the count (record_success, half_open, open),
\* and none is left half-open once the calls have returned.
THEOREM ClosesAreNotLost == Spec => [](CloseInv /\ NoLostClose)
<1>1. Init => TypeOK /\ CloseInv
  <2> SUFFICES ASSUME Init PROVE CloseInv
    BY InitType
  <2> QED
    BY DEF Init, CloseInv
<1>2. TypeOK /\ CloseInv /\ [Next]_vars => (TypeOK /\ CloseInv)'
  BY TypeStep, CloseStep
<1>3. TypeOK /\ CloseInv => NoLostClose
  BY CircuitAssumption DEF TypeOK, CloseInv, NoLostClose, PendingClose, AtRest, BetweenCalls
<1> QED
  BY <1>1, <1>2, <1>3, PTL DEF Spec

\* While a full failure count stands in a closed circuit, some caller is about to act
\* on it, for any number of callers and any thresholds.
THEOREM TripIsPending == Spec => []TripInv
<1> QED
  BY TripsAreNotLost, PTL

\* While a full success count stands in a half-open circuit, some caller is about to
\* act on it.
THEOREM CloseIsPending == Spec => []CloseInv
<1> QED
  BY ClosesAreNotLost, PTL
=============================================================================
