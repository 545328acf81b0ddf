----------------------------- MODULE CacheStore -----------------------------
(***************************************************************************)
(* The cache store of cache.rs: a lock-free map of entries, a memory       *)
(* counter kept beside it, and the S3-FIFO queues behind one mutex that    *)
(* decide what is evicted.                                                 *)
(*                                                                         *)
(* The map, the counter and the queues are three pieces of state that no   *)
(* single lock covers, so every writer is split between them: insert()     *)
(* looks whether the key is new, stores, and only then takes the lock to   *)
(* admit it; an eviction pops a key under the lock and removes it from the *)
(* map afterwards; clear() empties the three one after the other.  A map   *)
(* operation and its own counter update are one step.  An entry is its     *)
(* size, and its freq counter is hot (> 0) or not: the only reader swaps   *)
(* it with 0 and compares with 0.  TTLs are QueryPath's; persistence, CDC  *)
(* and the exact-to-normalized map are left out, and so are warmup,        *)
(* extend_ttl and evict_smart, which nothing calls.                        *)
(***************************************************************************)
EXTENDS Integers, Sequences, FiniteSets, Functions

CONSTANTS
    Keys,        \* query hashes
    Writers,     \* tasks that change the store
    Sizes,       \* approximate sizes of an entry
    MaxEntries,  \* max_entries at construction
    MaxMemory,   \* max_memory_bytes, 0 for no limit
    Wrap,        \* the memory counter counts modulo Wrap (usize)
    MaxQueued,   \* bound of the model: no insert starts with more keys queued
    NoKey, Nobody

ASSUME StoreAssumption ==
    /\ Sizes \subseteq Nat \ {0}
    /\ MaxEntries \in Nat /\ MaxMemory \in Nat /\ MaxQueued \in Nat
    /\ Wrap \in Nat \ {0}
    /\ NoKey \notin Keys
    /\ Writers # {} /\ Nobody \notin Writers

\* The sizes of all entries together fit into the counter.
ASSUME MemoryFits ==
    /\ IsFiniteSet(Keys)
    /\ \A f \in [Keys -> Sizes \cup {0}] : FoldFunction(+, 0, f) < Wrap

VARIABLES
    size,      \* the map: the entry's size, 0 for no entry
    hot,       \* the entry's freq is not 0
    total,     \* total_memory_bytes
    small, main, ghost, ghostSet,  \* S3FifoState
    lock,      \* who holds the S3FifoState mutex
    pc,        \* where each writer is
    job,       \* the key, size and newness a writer works with
    loop,      \* the eviction loop it is in, counting entries or memory
    left,      \* attempts left of the scan of main
    overlap    \* history: the worst that has happened while a writer was at work

queues == <<small, main, ghost, ghostSet>>
vars == <<size, hot, total, queues, lock, pc, job, loop, left, overlap>>

SmallCapacity == IF MaxEntries \div 10 > 1 THEN MaxEntries \div 10 ELSE 1
MainCapacity == IF MaxEntries > SmallCapacity THEN MaxEntries - SmallCapacity ELSE 0
Capacity == SmallCapacity + MainCapacity
GhostCapacity == IF MaxEntries > 1 THEN MaxEntries ELSE 1

\* An eviction loop is at its test, scanning small or main, or has a victim.
Victim == {"small_victim", "main_victim"}
Evicting == {"test", "small", "main"} \cup Victim
Places == {"idle", "store", "admit", "zero", "clear"} \cup Evicting
At(w, p) == pc[w] = p
Idle(w) == At(w, "idle")
NoJob == [key |-> NoKey, size |-> 0, new |-> FALSE]
Jobs == [key : Keys \cup {NoKey}, size : Sizes \cup {0}, new : BOOLEAN]

Init ==
    /\ size = [k \in Keys |-> 0]
    /\ hot = [k \in Keys |-> FALSE]
    /\ total = 0
    /\ small = << >> /\ main = << >> /\ ghost = << >> /\ ghostSet = {}
    /\ lock = Nobody
    /\ pc = [w \in Writers |-> "idle"]
    /\ job = [w \in Writers |-> NoJob]
    /\ loop = [w \in Writers |-> "count"]
    /\ left = [w \in Writers |-> 0]
    /\ overlap = "none"

Cached(k) == size[k] > 0
Goto(w, p) == pc' = [pc EXCEPT ![w] = p]
Forget(w) == job' = [job EXCEPT ![w] = NoJob]
Take(w, k) == job' = [job EXCEPT ![w] = [key |-> k, size |-> 0, new |-> FALSE]]

\* The lock is taken and an eviction loop entered.
Lock(w, which) ==
    /\ lock = Nobody /\ lock' = w
    /\ Goto(w, "test")
    /\ loop' = [loop EXCEPT ![w] = which]

\* A write starts: the history notes whether another one is under way.
Begin(w) ==
    /\ Idle(w)
    /\ overlap' = IF \E v \in Writers \ {w} : ~Idle(v) THEN "writes" ELSE overlap

\* tracked_insert and tracked_remove: the map and its memory counter.
TrackedInsert(k, s, h) ==
    /\ size' = [size EXCEPT ![k] = s]
    /\ hot' = [hot EXCEPT ![k] = h]
    /\ total' = (total + s - size[k]) % Wrap

\* Mutation of TrackedRemove: the counter is not told.
TrackedRemoveUncounted(k) ==
    /\ size' = [size EXCEPT ![k] = 0]
    /\ hot' = [hot EXCEPT ![k] = FALSE]
    /\ UNCHANGED total

TrackedRemove(k) ==
    /\ size' = [size EXCEPT ![k] = 0]
    /\ hot' = [hot EXCEPT ![k] = FALSE]
    /\ total' = (total - size[k]) % Wrap

-----------------------------------------------------------------------------
(* Readers, and insert up to the queues                                    *)

\* A lookup bumps the frequency, with no lock.
Get(k) ==
    /\ Cached(k) /\ ~hot[k]
    /\ hot' = [hot EXCEPT ![k] = TRUE]
    /\ overlap' = IF overlap = "none" /\ \E w \in Writers : ~Idle(w) THEN "reads" ELSE overlap
    /\ UNCHANGED <<size, total, queues, lock, pc, job, loop, left>>

\* insert: is the key new?
CheckNew(w, k, s) ==
    /\ Begin(w) /\ Goto(w, "store")
    /\ Len(small) + Len(main) < MaxQueued
    /\ job' = [job EXCEPT ![w] = [key |-> k, size |-> s, new |-> ~Cached(k)]]
    /\ UNCHANGED <<size, hot, total, queues, lock, loop, left>>

\* A new key goes on to the queues, an update of a known one is done.
Store(w) ==
    /\ At(w, "store")
    /\ TrackedInsert(job[w].key, job[w].size, FALSE)
    /\ IF job[w].new THEN Goto(w, "admit") /\ Take(w, job[w].key)
                     ELSE Goto(w, "idle") /\ Forget(w)
    /\ UNCHANGED <<queues, lock, loop, left, overlap>>

\* s without the occurrences of k.
Without(s, k) ==
    LET kept[n \in 0 .. Len(s)] ==
          IF n = 0 THEN << >>
          ELSE IF s[n] = k THEN kept[n - 1] ELSE Append(kept[n - 1], s[n])
    IN  kept[Len(s)]

\* Mutation of Admit: a key the ghost queue remembers is taken for one main still has.
AdmitGhostDropped(w) ==
    LET k == job[w].key IN
    /\ At(w, "admit")
    /\ Lock(w, "count") /\ Forget(w)
    /\ ghostSet' = ghostSet \ {k}
    /\ ghost' = Without(ghost, k)
    /\ small' = IF k \in ghostSet THEN small ELSE Append(small, k)
    /\ UNCHANGED <<main, size, hot, total, left, overlap>>

\* s3fifo_admit: a key evicted not long ago goes to main, any other to small.
Admit(w) ==
    LET k == job[w].key IN
    /\ At(w, "admit")
    /\ Lock(w, "count") /\ Forget(w)
    /\ ghostSet' = ghostSet \ {k}
    /\ IF k \in ghostSet
       THEN /\ ghost' = Without(ghost, k)
            /\ main' = Append(main, k) /\ UNCHANGED small
       ELSE small' = Append(small, k) /\ UNCHANGED <<main, ghost>>
    /\ UNCHANGED <<size, hot, total, left, overlap>>

-----------------------------------------------------------------------------
(* The eviction loops, under the lock                                      *)

\* enforce_memory_limit enters the memory loop directly.
EnforceMemoryLimit(w) ==
    /\ Begin(w) /\ MaxMemory > 0
    /\ Lock(w, "memory")
    /\ UNCHANGED <<size, hot, total, queues, job, left>>

\* Mutation of Over: the queues may hold one key more.
OverLate(w) ==
    IF loop[w] = "count" THEN Len(small) + Len(main) > Capacity + 1
    ELSE MaxMemory > 0 /\ total > MaxMemory

Over(w) ==
    IF loop[w] = "count" THEN Len(small) + Len(main) > Capacity
    ELSE MaxMemory > 0 /\ total > MaxMemory

\* A loop ends, by its condition or because nothing could be evicted: the count
\* loop is followed by the memory loop, and that one by the unlock.
LeaveLoop(w) ==
    IF loop[w] = "count"
    THEN Goto(w, "test") /\ loop' = [loop EXCEPT ![w] = "memory"] /\ UNCHANGED lock
    ELSE Goto(w, "idle") /\ lock' = Nobody /\ loop' = [loop EXCEPT ![w] = "count"]

\* Mutation of ScanMain: one attempt fewer than main has keys.
ScanMainShort(w) ==
    IF main = << >> THEN LeaveLoop(w) /\ UNCHANGED left
    ELSE Goto(w, "main") /\ left' = [left EXCEPT ![w] = Len(main) - 1] /\ UNCHANGED <<lock, loop>>

ScanMain(w) ==
    IF main = << >> THEN LeaveLoop(w) /\ UNCHANGED left
    ELSE Goto(w, "main") /\ left' = [left EXCEPT ![w] = Len(main)] /\ UNCHANGED <<lock, loop>>

\* s3fifo_evict_one: small first, then main.
EvictOne(w) ==
    /\ At(w, "test") /\ Over(w)
    /\ IF small = << >> THEN ScanMain(w)
       ELSE Goto(w, "small") /\ UNCHANGED <<lock, loop, left>>
    /\ UNCHANGED <<size, hot, total, queues, job, overlap>>

LoopEnds(w) ==
    /\ At(w, "test") /\ ~Over(w)
    /\ LeaveLoop(w)
    /\ UNCHANGED <<size, hot, total, queues, job, left, overlap>>

\* s3fifo_evict_from_small: the head is promoted when it was read, and else is
\* the victim.  The scan ends with small empty: nobody else can fill it.
PopSmall(w) ==
    LET k == Head(small) IN
    /\ At(w, "small") /\ small # << >>
    /\ small' = Tail(small)
    /\ IF hot[k]
       THEN main' = Append(main, k) /\ hot' = [hot EXCEPT ![k] = FALSE] /\ UNCHANGED <<pc, job>>
       ELSE Goto(w, "small_victim") /\ Take(w, k) /\ UNCHANGED <<main, hot>>
    /\ UNCHANGED <<size, total, ghost, ghostSet, lock, loop, left, overlap>>

SmallScanned(w) ==
    /\ At(w, "small") /\ small = << >>
    /\ ScanMain(w)
    /\ UNCHANGED <<size, hot, total, queues, job, overlap>>

\* Mutation of AddGhost: the oldest ghost is forgotten by the queue only.
AddGhostLeaks(k) ==
    LET n == IF Len(ghost) >= GhostCapacity THEN Len(ghost) - GhostCapacity + 1 ELSE 0 IN
    /\ ghost' = Append(SubSeq(ghost, n + 1, Len(ghost)), k)
    /\ ghostSet' = ghostSet \cup {k}

\* s3fifo_add_ghost: the oldest go until there is room.
AddGhost(k) ==
    LET n == IF Len(ghost) >= GhostCapacity THEN Len(ghost) - GhostCapacity + 1 ELSE 0 IN
    /\ ghost' = Append(SubSeq(ghost, n + 1, Len(ghost)), k)
    /\ ghostSet' = (ghostSet \ {ghost[i] : i \in 1 .. n}) \cup {k}

\* The victim leaves the map, if it is still there, and is remembered as a ghost.
EvictSmall(w) ==
    LET k == job[w].key IN
    /\ At(w, "small_victim")
    /\ IF Cached(k)
       THEN TrackedRemove(k) /\ Goto(w, "test")
       ELSE UNCHANGED <<size, hot, total>> /\ Goto(w, "small")
    /\ AddGhost(k) /\ Forget(w)
    /\ UNCHANGED <<small, main, lock, loop, left, overlap>>

\* Mutation of PopMain: the attempts are not counted down to zero.
PopMainUncounted(w) ==
    LET k == Head(main) IN
    /\ At(w, "main") /\ main # << >>
    /\ left' = [left EXCEPT ![w] = @ - 1]
    /\ IF hot[k]
       THEN /\ main' = Append(Tail(main), k) /\ hot' = [hot EXCEPT ![k] = FALSE]
            /\ UNCHANGED <<pc, job>>
       ELSE main' = Tail(main) /\ Goto(w, "main_victim") /\ Take(w, k) /\ UNCHANGED hot
    /\ UNCHANGED <<size, total, small, ghost, ghostSet, lock, loop, overlap>>

\* s3fifo_evict_from_main: a key that was read gets a second chance.
PopMain(w) ==
    LET k == Head(main) IN
    /\ At(w, "main") /\ left[w] > 0
    /\ left' = [left EXCEPT ![w] = @ - 1]
    /\ IF hot[k]
       THEN /\ main' = Append(Tail(main), k) /\ hot' = [hot EXCEPT ![k] = FALSE]
            /\ UNCHANGED <<pc, job>>
       ELSE main' = Tail(main) /\ Goto(w, "main_victim") /\ Take(w, k) /\ UNCHANGED hot
    /\ UNCHANGED <<size, total, small, ghost, ghostSet, lock, loop, overlap>>

EvictMain(w) ==
    LET k == job[w].key IN
    /\ At(w, "main_victim")
    /\ IF Cached(k)
       THEN TrackedRemove(k) /\ Goto(w, "test") /\ left' = [left EXCEPT ![w] = 0]
       ELSE UNCHANGED <<size, hot, total, left>> /\ Goto(w, "main")
    /\ Forget(w)
    /\ UNCHANGED <<queues, lock, loop, overlap>>

\* Mutation of MainScanned: with nothing evicted the loop starts over.
MainScannedRetries(w) ==
    /\ At(w, "main") /\ left[w] = 0
    /\ Goto(w, "test")
    /\ UNCHANGED <<size, hot, total, queues, lock, job, loop, left, overlap>>

\* Nothing in main was cold: None, which ends the loop over the limit or not.
MainScanned(w) ==
    /\ At(w, "main") /\ left[w] = 0
    /\ LeaveLoop(w)
    /\ UNCHANGED <<size, hot, total, queues, job, left, overlap>>

-----------------------------------------------------------------------------
(* Removals leave the queues alone; clear takes the parts one by one       *)

\* remove, and each removal of evict_truly_expired, evict_filter,
\* evict_from_upstream, remove_corrupted and get_verified.
Remove(w, k) ==
    /\ Begin(w) /\ Cached(k)
    /\ TrackedRemove(k)
    /\ UNCHANGED <<queues, lock, pc, job, loop, left>>

ClearEntries(w) ==
    /\ Begin(w) /\ Goto(w, "zero")
    /\ size' = [k \in Keys |-> 0] /\ hot' = [k \in Keys |-> FALSE]
    /\ UNCHANGED <<total, queues, lock, job, loop, left>>

ClearTotal(w) ==
    /\ At(w, "zero") /\ Goto(w, "clear")
    /\ total' = 0
    /\ UNCHANGED <<size, hot, queues, lock, job, loop, left, overlap>>

ClearQueues(w) ==
    /\ At(w, "clear") /\ lock = Nobody
    /\ Goto(w, "idle")
    /\ small' = << >> /\ main' = << >> /\ ghost' = << >> /\ ghostSet' = {}
    /\ UNCHANGED <<size, hot, total, lock, job, loop, left, overlap>>

-----------------------------------------------------------------------------
Step(w) ==
    \/ Store(w) \/ Admit(w) \/ EvictOne(w) \/ LoopEnds(w)
    \/ PopSmall(w) \/ SmallScanned(w) \/ EvictSmall(w)
    \/ PopMain(w) \/ EvictMain(w) \/ MainScanned(w)
    \/ ClearTotal(w) \/ ClearQueues(w)

Next ==
    \/ \E k \in Keys : Get(k)
    \/ \E w \in Writers :
          \/ Step(w)
          \/ \E k \in Keys : Remove(w, k) \/ \E s \in Sizes : CheckNew(w, k, s)
          \/ EnforceMemoryLimit(w)
          \/ ClearEntries(w)

Spec == Init /\ [][Next]_vars

-----------------------------------------------------------------------------
Queued == Range(small) \cup Range(main)

\* Every variable has its type.
TypeOK ==
    /\ size \in [Keys -> Sizes \cup {0}]
    /\ hot \in [Keys -> BOOLEAN]
    /\ total \in 0 .. Wrap - 1
    /\ small \in Seq(Keys) /\ main \in Seq(Keys) /\ ghost \in Seq(Keys)
    /\ ghostSet \subseteq Keys
    /\ lock \in Writers \cup {Nobody}
    /\ pc \in [Writers -> Places]
    /\ job \in [Writers -> Jobs]
    /\ loop \in [Writers -> {"count", "memory"}]
    /\ left \in [Writers -> Nat]
    /\ overlap \in {"none", "reads", "writes"}

\* The ghost queue keeps to its capacity and the set beside it names no key that
\* the queue has lost, whatever is evicted twice, re-admitted or cleared.
GhostBounded ==
    /\ Len(ghost) <= GhostCapacity
    /\ ghostSet \subseteq Range(ghost)

\* A key the store's writers are still going to queue or to remove.
InHand(k) ==
    \E w \in Writers :
        /\ job[w].key = k
        /\ pc[w] \in {"admit"} \cup Victim

\* As long as no two writers have met, every cached entry is in a queue that will
\* find it, through lazy removal, re-insertion, promotion and concurrent reads:
\* an entry in no queue could never be evicted by S3-FIFO.
NoOrphan == overlap # "writes" => \A k \in Keys : Cached(k) => k \in Queued \/ InHand(k)

\* The memory counter is the sum of the cached sizes, unless writers have met.
MemoryExact ==
    (overlap # "writes" /\ \A w \in Writers : pc[w] # "zero") =>
        total = FoldFunction(+, 0, size)

\* With nothing at work, and nothing read or written during an admission so far,
\* the store is within max_entries: an admission always finds something to evict.
WithinCapacity ==
    (overlap = "none" /\ \A w \in Writers : Idle(w)) =>
        /\ Len(small) + Len(main) <= Capacity
        /\ Cardinality({k \in Keys : Cached(k)}) <= Capacity

\* What "evict entries until under the cap" (insert, enforce_memory_limit) comes to on
\* a warm cache: a writer that unlocks with the counter still over max_memory_bytes
\* has emptied small and left keys in main, and unless readers came in between it has
\* taken every second chance back, so that the next pass does evict.
GivesUpCooled ==
    [][\A w \in Writers :
          lock = w /\ lock' = Nobody /\ 0 < MaxMemory /\ MaxMemory < total /\ overlap # "writes" =>
              /\ small = << >> /\ main # << >>
              /\ overlap = "none" => \A k \in Range(main) : ~hot[k]]_vars

\* How far the holder of the lock is from the end of its loops: the loop, the keys
\* left to decide on, the stage of the eviction and what is left of its scan.
Stage == [p \in Evicting |->
            CASE p = "test" -> 3 [] p = "small" -> 2 [] p = "main" -> 1 [] OTHER -> 0]
Variant(w) ==
    << IF loop[w] = "count" THEN 1 ELSE 0,
       Len(small) + Len(main) + IF pc[w] \in Victim THEN 1 ELSE 0,
       Stage[pc[w]],
       IF At(w, "small") THEN Len(small) ELSE left[w] >>
Smaller(a, b) == \E i \in 1 .. 4 : a[i] < b[i] /\ \A j \in 1 .. i - 1 : a[j] = b[j]

\* The eviction loops end: each step of the lock's holder brings it nearer to the
\* unlock, and neither readers that keep heating the entries nor other writers
\* that add and remove them meanwhile can set it back.
EvictionEnds ==
    [][\A w \in Writers : lock = w /\ lock' = w =>
          IF Step(w) THEN Smaller(Variant(w)', Variant(w)) ELSE Variant(w)' = Variant(w)]_vars
=============================================================================
