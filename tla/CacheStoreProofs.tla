-------------------------- MODULE CacheStoreProofs --------------------------
(***************************************************************************)
(* What CacheStore satisfies for every set of keys and writers and every   *)
(* capacity.  Most of it needs to know of the ghost queue only that it     *)
(* stays within its bounds: a key it remembers is queued in main instead   *)
(* of small, and queued all the same.                                      *)
(***************************************************************************)
EXTENDS CacheStore, SequenceTheorems, FiniteSetTheorems, WellFoundedInduction, TLAPS

-----------------------------------------------------------------------------
(* Induction: the library's rules take the formula as a parameter, which   *)
(* the provers cannot instantiate.  Here the formula is a set of numbers.  *)

\* A set of numbers has a least one.
LEMMA LeastNumber ==
    ASSUME NEW T \in SUBSET Nat, T # {}
    PROVE  \E n \in T : \A m \in T : n <= m
<1> DEFINE R == OpToRel(<, Nat)
<1>1. IsWellFoundedOn(R, Nat)
  BY NatLessThanWellFounded
<1>2. \A x, y \in Nat : x < y => <<x, y>> \in R
  BY DEF OpToRel
<1> HIDE DEF R
<1>3. PICK x \in T : \A y \in T : ~(<<y, x>> \in R)
  BY <1>1, WFMin
<1>4. ASSUME NEW y \in T PROVE x <= y
  <2>1. ~(y < x)
    BY <1>2, <1>3, <1>4, Zenon
  <2> QED
    BY <2>1
<1> QED
  BY <1>4

\* A set that contains 0 and with every number the next contains all of them.
LEMMA Induction ==
    ASSUME NEW P, 0 \in P, \A n \in Nat : n \in P => n + 1 \in P
    PROVE  \A n \in Nat : n \in P
<1> SUFFICES ASSUME Nat \ P # {} PROVE FALSE
  OBVIOUS
<1>1. PICK n \in Nat \ P : \A m \in Nat \ P : n <= m
  BY LeastNumber
<1>2. n # 0 /\ n - 1 \in Nat /\ (n - 1) + 1 = n
  BY <1>1
<1>3. n - 1 \in P
  BY <1>1, <1>2
<1> QED
  BY <1>1, <1>2, <1>3

-----------------------------------------------------------------------------
(* Queues                                                                  *)

\* Adding at the tail and taking the head change what is queued by one key.
LEMMA RangeAppend ==
    ASSUME NEW s \in Seq(Keys), NEW k \in Keys
    PROVE  /\ Append(s, k) \in Seq(Keys)
           /\ Len(Append(s, k)) = Len(s) + 1
           /\ Range(Append(s, k)) = Range(s) \cup {k}
<1>1. Len(s) \in Nat /\ DOMAIN s = 1 .. Len(s)
  OBVIOUS
<1>2. /\ Append(s, k) \in Seq(Keys) /\ Len(Append(s, k)) = Len(s) + 1
      /\ DOMAIN Append(s, k) = 1 .. Len(s) + 1
      /\ \A i \in 1 .. Len(s) : Append(s, k)[i] = s[i]
      /\ Append(s, k)[Len(s) + 1] = k
  OBVIOUS
<1>3. ASSUME NEW x PROVE x \in Range(Append(s, k)) <=> x \in Range(s) \cup {k}
  BY <1>1, <1>2 DEF Range
<1> QED
  BY <1>2, <1>3

\* What is queued is the head and what is queued behind it.
LEMMA RangeTail ==
    ASSUME NEW s \in Seq(Keys), s # << >>
    PROVE  /\ Head(s) \in Keys /\ Tail(s) \in Seq(Keys)
           /\ Len(Tail(s)) = Len(s) - 1 /\ Len(s) \in Nat \ {0}
           /\ Range(s) = {Head(s)} \cup Range(Tail(s))
<1>1. /\ Len(s) \in Nat \ {0} /\ DOMAIN s = 1 .. Len(s)
      /\ Head(s) = s[1] /\ Head(s) \in Keys
      /\ Tail(s) \in Seq(Keys) /\ Len(Tail(s)) = Len(s) - 1
      /\ DOMAIN Tail(s) = 1 .. Len(s) - 1
      /\ \A i \in 1 .. Len(s) - 1 : Tail(s)[i] = s[i + 1]
  OBVIOUS
<1>2. ASSUME NEW x \in Range(s) PROVE x \in {Head(s)} \cup Range(Tail(s))
  <2>1. PICK i \in 1 .. Len(s) : x = s[i]
    BY <1>1 DEF Range
  <2>2. CASE i = 1
    BY <2>1, <2>2, <1>1
  <2>3. CASE i # 1
    <3>1. i - 1 \in 1 .. Len(s) - 1 /\ (i - 1) + 1 = i
      BY <2>1, <2>3, <1>1
    <3>2. x = Tail(s)[i - 1] /\ i - 1 \in DOMAIN Tail(s)
      BY <3>1, <2>1, <1>1
    <3> QED
      BY <3>2 DEF Range
  <2> QED
    BY <2>2, <2>3
<1>3. ASSUME NEW x \in {Head(s)} \cup Range(Tail(s)) PROVE x \in Range(s)
  BY <1>1 DEF Range
<1> QED
  BY <1>1, <1>2, <1>3

\* What is left of s after its first n keys, k taken out.
IsKept(f, s, k) ==
    f = [n \in 0 .. Len(s) |->
           IF n = 0 THEN << >> ELSE IF s[n] = k THEN f[n - 1] ELSE Append(f[n - 1], s[n])]

\* The recursion of Without has a solution.
LEMMA KeptExists ==
    ASSUME NEW s \in Seq(Keys), NEW k
    PROVE  \E f : IsKept(f, s, k)
<1> DEFINE Next1(g, n) == IF s[n] = k THEN g[n - 1] ELSE Append(g[n - 1], s[n])
           Good(g, m) == /\ DOMAIN g = 0 .. m /\ g[0] = << >>
                         /\ \A n \in 1 .. m : g[n] = Next1(g, n)
           P == {m \in Nat : \E g : Good(g, m) /\ g = [n \in 0 .. m |-> g[n]]}
<1>1. 0 \in P
  <2>1. Good([n \in 0 .. 0 |-> << >>], 0)
    OBVIOUS
  <2> QED
    BY <2>1
<1>2. ASSUME NEW m \in Nat, m \in P PROVE m + 1 \in P
  <2>1. PICK g : Good(g, m)
    BY <1>2
  <2> DEFINE h == [n \in 0 .. m + 1 |-> IF n <= m THEN g[n] ELSE Next1(g, n)]
  <2>2. DOMAIN h = 0 .. m + 1 /\ h = [n \in 0 .. m + 1 |-> h[n]] /\ \A n \in 0 .. m : h[n] = g[n]
    OBVIOUS
  <2>3. h[m + 1] = Next1(g, m + 1) /\ h[0] = << >>
    BY <2>1
  <2>4. ASSUME NEW n \in 1 .. m + 1 PROVE h[n] = Next1(h, n)
    <3>1. n - 1 \in 0 .. m /\ h[n - 1] = g[n - 1]
      BY <2>2
    <3>2. h[n] = Next1(g, n)
      BY <2>1, <2>2, <2>3
    <3> HIDE DEF h
    <3> QED
      BY <3>1, <3>2
  <2> HIDE DEF h
  <2>5. Good(h, m + 1)
    BY <2>2, <2>3, <2>4
  <2> HIDE DEF Good
  <2> QED
    BY <2>2, <2>5
<1>3. Len(s) \in P
  <2> HIDE DEF P
  <2>1. \A n \in Nat : n \in P
    BY <1>1, <1>2, Induction
  <2>2. Len(s) \in Nat
    OBVIOUS
  <2> QED
    BY <2>1, <2>2
<1>4. PICK g : Good(g, Len(s)) /\ g = [n \in 0 .. Len(s) |-> g[n]]
  BY <1>3
<1>5. IsKept(g, s, k)
  <2>1. \A n \in 0 .. Len(s) :
           g[n] = IF n = 0 THEN << >> ELSE IF s[n] = k THEN g[n - 1] ELSE Append(g[n - 1], s[n])
    BY <1>4
  <2> QED
    BY <1>4, <2>1 DEF IsKept
<1> QED
  BY <1>5

\* Without(s, k) is a queue of the other keys of s, no longer than s.
LEMMA WithoutKey ==
    ASSUME NEW s \in Seq(Keys), NEW k
    PROVE  /\ Without(s, k) \in Seq(Keys) /\ Len(Without(s, k)) <= Len(s)
           /\ \A x \in Range(s) : x # k => x \in Range(Without(s, k))
<1>1. PICK f : IsKept(f, s, k) /\ Without(s, k) = f[Len(s)]
  <2> DEFINE g == CHOOSE f : IsKept(f, s, k)
  <2>1. IsKept(g, s, k)
    BY KeptExists, Zenon
  <2>2. Without(s, k) = g[Len(s)]
    BY DEF Without, IsKept
  <2> HIDE DEF g
  <2> QED
    BY <2>1, <2>2
<1>2. Len(s) \in Nat /\ DOMAIN s = 1 .. Len(s)
  OBVIOUS
<1> DEFINE Good(n) == /\ f[n] \in Seq(Keys) /\ Len(f[n]) <= n
                      /\ \A i \in 1 .. n : s[i] # k => s[i] \in Range(f[n])
           P == {n \in Nat : n <= Len(s) => Good(n)}
<1>3. 0 \in P
  <2>1. f[0] = << >>
    BY <1>1, <1>2 DEF IsKept
  <2>2. << >> \in Seq(Keys) /\ Len(<< >>) <= 0 /\ 1 .. 0 = {}
    OBVIOUS
  <2>3. Good(0)
    BY <2>1, <2>2
  <2> HIDE DEF Good
  <2> QED
    BY <2>3
<1>4. ASSUME NEW n \in Nat, n \in P PROVE n + 1 \in P
  <2> SUFFICES ASSUME n + 1 <= Len(s) PROVE Good(n + 1)
    OBVIOUS
  <2>1. Good(n)
    BY <1>2, <1>4
  <2>2. s[n + 1] \in Keys
    BY <1>2
  <2>3. f[n + 1] = IF s[n + 1] = k THEN f[n] ELSE Append(f[n], s[n + 1])
    <3>1. n + 1 \in 0 .. Len(s) /\ n + 1 # 0 /\ (n + 1) - 1 = n
      BY <1>2
    <3> QED
      BY <1>1, <3>1 DEF IsKept
  <2>4. /\ Append(f[n], s[n + 1]) \in Seq(Keys) /\ Len(Append(f[n], s[n + 1])) = Len(f[n]) + 1
        /\ Range(Append(f[n], s[n + 1])) = Range(f[n]) \cup {s[n + 1]}
    BY <2>1, <2>2, RangeAppend
  <2>5. \A i \in 1 .. n + 1 : i \in 1 .. n \/ i = n + 1
    OBVIOUS
  <2>6. Len(f[n]) \in Nat
    BY <2>1
  <2>7. CASE s[n + 1] = k
    BY <2>1, <2>3, <2>5, <2>6, <2>7
  <2>8. CASE s[n + 1] # k
    BY <2>1, <2>3, <2>4, <2>5, <2>6, <2>8
  <2> QED
    BY <2>7, <2>8
<1> HIDE DEF P
<1>5. Len(s) \in P
  BY <1>2, <1>3, <1>4, Induction
<1>6. Good(Len(s))
  BY <1>2, <1>5 DEF P
<1> QED
  BY <1>1, <1>2, <1>6 DEF Range

-----------------------------------------------------------------------------
(* Sums                                                                    *)

SumOf(f) == FoldFunction(+, 0, f)
Pick(T) == CHOOSE x \in T : TRUE
Upto(S, n) == {T \in SUBSET S : Cardinality(T) <= n}
IsSum(it, f, S) ==
    it = [T \in SUBSET S |-> IF T = {} THEN 0 ELSE f[Pick(T)] + it[T \ {Pick(T)}]]

\* The fold picks an element of the set and goes on with a smaller one.
LEMMA PickSmaller ==
    ASSUME NEW S, IsFiniteSet(S), NEW T \in SUBSET S, T # {}
    PROVE  /\ Pick(T) \in T /\ T \ {Pick(T)} \in SUBSET S
           /\ Cardinality(T) \in Nat \ {0} /\ Cardinality(T \ {Pick(T)}) = Cardinality(T) - 1
<1>1. Pick(T) \in T
  BY DEF Pick
<1>2. IsFiniteSet(T)
  BY FS_Subset
<1>3. Cardinality(T) \in Nat /\ Cardinality(T) # 0
  BY <1>2, FS_CardinalityType, FS_EmptySet
<1> QED
  BY <1>1, <1>2, <1>3, FS_RemoveElement

\* Every subset of a finite set is of some size.
LEMMA AllSubsets ==
    ASSUME NEW S, IsFiniteSet(S)
    PROVE  /\ Cardinality(S) \in Nat /\ Upto(S, Cardinality(S)) = SUBSET S
           /\ \A T \in Upto(S, 0) : T = {}
           /\ {} \in Upto(S, 0)
<1>1. \A T \in SUBSET S : IsFiniteSet(T) /\ Cardinality(T) \in Nat /\ Cardinality(T) <= Cardinality(S)
  BY FS_Subset, FS_CardinalityType
<1>2. Cardinality(S) \in Nat
  BY <1>1
<1>3. ASSUME NEW T \in Upto(S, 0) PROVE T = {}
  BY <1>1, FS_EmptySet DEF Upto
<1> QED
  BY <1>1, <1>2, <1>3, FS_EmptySet DEF Upto

\* The recursion of the fold has a solution.
LEMMA SumExists ==
    ASSUME NEW S, IsFiniteSet(S), NEW f
    PROVE  \E it : IsSum(it, f, S)
<1> DEFINE Good(g, n) == /\ g = [T \in Upto(S, n) |-> g[T]]
                         /\ \A T \in Upto(S, n) :
                               g[T] = IF T = {} THEN 0 ELSE f[Pick(T)] + g[T \ {Pick(T)}]
           P == {n \in Nat : \E g : Good(g, n)}
<1>1. 0 \in P
  <2> DEFINE g == [T \in Upto(S, 0) |-> 0]
  <2>1. Good(g, 0)
    BY AllSubsets
  <2> QED
    BY <2>1
<1>2. ASSUME NEW n \in Nat, n \in P PROVE n + 1 \in P
  <2>1. PICK g : Good(g, n)
    BY <1>2
  <2> DEFINE h == [T \in Upto(S, n + 1) |->
                     IF T \in Upto(S, n) THEN g[T] ELSE f[Pick(T)] + g[T \ {Pick(T)}]]
  <2>2. h = [T \in Upto(S, n + 1) |-> h[T]]
    OBVIOUS
  <2>3. \A T \in Upto(S, n + 1) :
           h[T] = IF T \in Upto(S, n) THEN g[T] ELSE f[Pick(T)] + g[T \ {Pick(T)}]
    OBVIOUS
  <2>4. {} \in Upto(S, n)
    BY FS_EmptySet DEF Upto
  <2>5. ASSUME NEW T \in Upto(S, n + 1), T # {}
        PROVE  T \ {Pick(T)} \in Upto(S, n) /\ T \ {Pick(T)} \in Upto(S, n + 1)
    <3>1. Cardinality(T \ {Pick(T)}) = Cardinality(T) - 1 /\ Cardinality(T) \in Nat
          /\ T \ {Pick(T)} \in SUBSET S
      BY <2>5, PickSmaller DEF Upto
    <3>2. Cardinality(T) <= n + 1
      BY DEF Upto
    <3>3. Cardinality(T \ {Pick(T)}) <= n /\ Cardinality(T \ {Pick(T)}) <= n + 1
      BY <3>1, <3>2
    <3> QED
      BY <3>1, <3>3 DEF Upto
  <2> HIDE DEF h
  <2>6. ASSUME NEW T \in Upto(S, n + 1)
        PROVE  h[T] = IF T = {} THEN 0 ELSE f[Pick(T)] + h[T \ {Pick(T)}]
    <3>1. CASE T = {}
      BY <2>1, <2>3, <2>4, <3>1
    <3>2. CASE T # {}
      <4>1. h[T \ {Pick(T)}] = g[T \ {Pick(T)}]
        BY <2>3, <2>5, <3>2
      <4>2. h[T] = f[Pick(T)] + g[T \ {Pick(T)}]
        BY <2>1, <2>3, <3>2
      <4> QED
        BY <3>2, <4>1, <4>2
    <3> QED
      BY <3>1, <3>2
  <2>7. Good(h, n + 1)
    BY <2>2, <2>6
  <2> HIDE DEF Good
  <2> QED
    BY <2>7
<1>3. \A n \in Nat : n \in P
  <2> HIDE DEF P
  <2> QED
    BY <1>1, <1>2, Induction
<1>4. PICK g : Good(g, Cardinality(S))
  BY <1>3, AllSubsets
<1>5. IsSum(g, f, S)
  <2>1. Upto(S, Cardinality(S)) = SUBSET S
    BY AllSubsets
  <2> QED
    BY <1>4, <2>1 DEF IsSum
<1> QED
  BY <1>5

\* What FoldFunction computes, unfolded once.
LEMMA SumUnfolds ==
    ASSUME NEW S, IsFiniteSet(S), NEW f, DOMAIN f = S
    PROVE  \E it : IsSum(it, f, S) /\ SumOf(f) = it[S]
<1> DEFINE g == CHOOSE it : IsSum(it, f, S)
<1>1. IsSum(g, f, S)
  BY SumExists, Zenon
<1>2. SumOf(f) = g[S]
  BY DEF SumOf, FoldFunction, FoldFunctionOnSet, MapThenFoldSet, IsSum, Pick
<1> HIDE DEF g
<1> QED
  BY <1>1, <1>2

\* The sum after one value has changed: the others are picked in the same order.
LEMMA SumChanges ==
    ASSUME NEW S, IsFiniteSet(S), NEW f \in [S -> Nat], NEW k \in S, NEW v \in Nat
    PROVE  /\ SumOf(f) \in Nat
           /\ SumOf([f EXCEPT ![k] = v]) = SumOf(f) - f[k] + v
<1> DEFINE e == [f EXCEPT ![k] = v]
<1>1. e \in [S -> Nat] /\ DOMAIN e = S /\ DOMAIN f = S /\ e[k] = v /\ \A x \in S \ {k} : e[x] = f[x]
  OBVIOUS
<1> HIDE DEF e
<1>2. PICK a : IsSum(a, f, S) /\ SumOf(f) = a[S]
  BY <1>1, SumUnfolds
<1>3. PICK b : IsSum(b, e, S) /\ SumOf(e) = b[S]
  BY <1>1, SumUnfolds
<1> DEFINE Good(T) == a[T] \in Nat /\ b[T] = IF k \in T THEN a[T] - f[k] + v ELSE a[T]
           P == {n \in Nat : \A T \in Upto(S, n) : Good(T)}
<1>4. Good({})
  <2>1. {} \in SUBSET S
    OBVIOUS
  <2>2. a[{}] = 0 /\ b[{}] = 0
    BY <1>2, <1>3, <2>1 DEF IsSum
  <2> QED
    BY <2>2
<1>5. 0 \in P
  BY <1>4, AllSubsets
<1>6. ASSUME NEW n \in Nat, n \in P PROVE n + 1 \in P
  <2>0. ASSUME \A T \in Upto(S, n + 1) : T # {} => Good(T) PROVE n + 1 \in P
    <3>1. n + 1 \in Nat
      OBVIOUS
    <3>2. \A T \in Upto(S, n + 1) : Good(T)
      <4> HIDE DEF Good
      <4> QED
        BY <1>4, <2>0, Zenon
    <3> HIDE DEF Good
    <3> QED
      BY <3>1, <3>2, Zenon
  <2> SUFFICES ASSUME NEW T \in Upto(S, n + 1), T # {} PROVE Good(T)
    <3> HIDE DEF Good, P
    <3> QED
      BY <2>0
  <2> DEFINE x == Pick(T)
             R == T \ {x}
  <2>1. /\ x \in T /\ R \in SUBSET S /\ T \in SUBSET S /\ Cardinality(T) \in Nat
        /\ Cardinality(R) = Cardinality(T) - 1
    BY PickSmaller DEF Upto
  <2>2. a[T] = f[x] + a[R] /\ b[T] = e[x] + b[R]
    BY <1>2, <1>3, <2>1 DEF IsSum
  <2>3. Good(R)
    <3>1. Cardinality(T) <= n + 1
      BY DEF Upto
    <3>2. Cardinality(R) <= n
      BY <2>1, <3>1
    <3>3. R \in Upto(S, n)
      BY <2>1, <3>2 DEF Upto
    <3> QED
      BY <1>6, <3>3
  <2>4. (k \in T <=> k \in R \/ k = x) /\ x \notin R
    BY <2>1
  <2>5. f[x] \in Nat /\ f[k] \in Nat /\ x \in S
    BY <2>1
  <2> HIDE DEF x, R
  <2>6. CASE x = k
    BY <1>1, <2>2, <2>3, <2>4, <2>5, <2>6
  <2>7. CASE x # k
    BY <1>1, <2>2, <2>3, <2>4, <2>5, <2>7
  <2> QED
    BY <2>6, <2>7
<1>7. Good(S)
  <2>1. \A n \in Nat : n \in P
    <3> HIDE DEF P
    <3> QED
      BY <1>5, <1>6, Induction
  <2>2. Cardinality(S) \in P /\ S \in Upto(S, Cardinality(S))
    BY <2>1, AllSubsets
  <2> QED
    BY <2>2
<1> QED
  BY <1>2, <1>3, <1>7 DEF e

\* Nothing adds up to nothing.
LEMMA SumOfNothing ==
    ASSUME NEW S, IsFiniteSet(S)
    PROVE  SumOf([x \in S |-> 0]) = 0
<1> DEFINE f == [x \in S |-> 0]
<1>1. PICK a : IsSum(a, f, S) /\ SumOf(f) = a[S]
  BY SumUnfolds
<1> DEFINE P == {n \in Nat : \A T \in Upto(S, n) : a[T] = 0}
<1>2. a[{}] = 0
  BY <1>1 DEF IsSum
<1>3. 0 \in P
  BY <1>2, AllSubsets
<1>4. ASSUME NEW n \in Nat, n \in P PROVE n + 1 \in P
  <2> SUFFICES ASSUME NEW T \in Upto(S, n + 1), T # {} PROVE a[T] = 0
    BY <1>2
  <2> DEFINE x == Pick(T)
             R == T \ {x}
  <2>1. /\ x \in T /\ R \in SUBSET S /\ T \in SUBSET S /\ Cardinality(T) \in Nat
        /\ Cardinality(R) = Cardinality(T) - 1
    BY PickSmaller DEF Upto
  <2>2. a[T] = f[x] + a[R] /\ f[x] = 0
    BY <1>1, <2>1 DEF IsSum
  <2>3. a[R] = 0
    <3>1. Cardinality(T) <= n + 1
      BY DEF Upto
    <3>2. Cardinality(R) <= n
      BY <2>1, <3>1
    <3>3. R \in Upto(S, n)
      BY <2>1, <3>2 DEF Upto
    <3> QED
      BY <1>4, <3>3
  <2> QED
    BY <2>2, <2>3
<1>5. \A n \in Nat : n \in P
  <2> HIDE DEF P
  <2> QED
    BY <1>3, <1>4, Induction
<1>6. Cardinality(S) \in P /\ S \in Upto(S, Cardinality(S))
  BY <1>5, AllSubsets
<1> QED
  BY <1>1, <1>6

-----------------------------------------------------------------------------
\* The types of everything but the ghosts and the memory counter.
CoreType ==
    /\ size \in [Keys -> Sizes \cup {0}]
    /\ hot \in [Keys -> BOOLEAN]
    /\ small \in Seq(Keys) /\ main \in Seq(Keys)
    /\ lock \in Writers \cup {Nobody}
    /\ pc \in [Writers -> Places]
    /\ job \in [Writers -> Jobs]
    /\ loop \in [Writers -> {"count", "memory"}]
    /\ left \in [Writers -> Nat]
    /\ overlap \in {"none", "reads", "writes"}

\* The lock is held by the writer in an eviction loop, and by no other.
LockInv == \A w \in Writers : lock = w <=> pc[w] \in Evicting

\* A writer with a key to store, to admit or to evict knows which, and a scan of
\* main has no more attempts left than main has keys.
JobInv ==
    \A w \in Writers :
        /\ pc[w] \in {"store", "admit"} \cup Victim => job[w].key \in Keys
        /\ At(w, "store") => job[w].size \in Sizes
        /\ pc[w] \in {"main", "main_victim"} => left[w] <= Len(main)

CoreInv == CoreType /\ LockInv /\ JobInv

-----------------------------------------------------------------------------
(* What the steps with alternatives do                                     *)

StoreDoes(w) ==
    /\ pc[w] = "store"
    /\ size' = [size EXCEPT ![job[w].key] = job[w].size]
    /\ hot' = [hot EXCEPT ![job[w].key] = FALSE]
    /\ UNCHANGED <<small, main, lock, loop, left, overlap>>
    /\ \/ /\ ~job[w].new
          /\ pc' = [pc EXCEPT ![w] = "idle"] /\ job' = [job EXCEPT ![w] = NoJob]
       \/ /\ pc' = [pc EXCEPT ![w] = "admit"]
          /\ job' = [job EXCEPT ![w] = [key |-> job[w].key, size |-> 0, new |-> FALSE]]

\* The store writes the key of the job, and ends there when the key was known.
LEMMA StoreEffect ==
    ASSUME NEW w \in Writers, Store(w)
    PROVE  StoreDoes(w)
BY DEF StoreDoes, Store, TrackedInsert, At, Goto, Take, Forget, queues

AdmitDoes(w) ==
    /\ pc[w] = "admit" /\ pc' = [pc EXCEPT ![w] = "test"]
    /\ lock = Nobody /\ lock' = w
    /\ loop' = [loop EXCEPT ![w] = "count"]
    /\ job' = [job EXCEPT ![w] = NoJob]
    /\ UNCHANGED <<size, hot, left, overlap>>
    /\ \/ main' = Append(main, job[w].key) /\ small' = small
       \/ main' = main /\ small' = Append(small, job[w].key)

\* The key goes to one of the queues, under the lock.
LEMMA AdmitEffect ==
    ASSUME NEW w \in Writers, Admit(w)
    PROVE  AdmitDoes(w)
BY DEF AdmitDoes, Admit, Lock, At, Goto, Forget

\* The steps between two evictions leave the map and the queues alone.
BetweenEvictions(w) == EvictOne(w) \/ LoopEnds(w) \/ SmallScanned(w) \/ MainScanned(w)

BetweenDoes(w) ==
    /\ UNCHANGED <<size, hot, small, main, job, overlap>>
    /\ pc[w] = "main" => left[w] = 0
    /\ \/ /\ pc[w] \in {"test", "small", "main"} /\ pc' = [pc EXCEPT ![w] = "idle"]
          /\ lock' = Nobody /\ loop' = [loop EXCEPT ![w] = "count"] /\ left' = left
       \/ /\ pc[w] \in {"test", "small", "main"} /\ pc' = [pc EXCEPT ![w] = "test"]
          /\ lock' = lock /\ loop[w] = "count"
          /\ loop' = [loop EXCEPT ![w] = "memory"] /\ left' = left
       \/ /\ pc[w] = "test" /\ pc' = [pc EXCEPT ![w] = "small"]
          /\ UNCHANGED <<lock, loop, left>>
       \/ /\ pc[w] \in {"test", "small"} /\ pc' = [pc EXCEPT ![w] = "main"]
          /\ UNCHANGED <<lock, loop>> /\ left' = [left EXCEPT ![w] = Len(main)]

\* Where the loops go between two evictions.
LEMMA BetweenEffect ==
    ASSUME NEW w \in Writers, BetweenEvictions(w)
    PROVE  BetweenDoes(w)
<1> USE DEF BetweenDoes, At, Goto, ScanMain, LeaveLoop, queues
<1>1. CASE EvictOne(w)
  BY <1>1 DEF EvictOne
<1>2. CASE LoopEnds(w)
  BY <1>2 DEF LoopEnds
<1>3. CASE SmallScanned(w)
  BY <1>3 DEF SmallScanned
<1>4. CASE MainScanned(w)
  BY <1>4 DEF MainScanned
<1> QED
  BY <1>1, <1>2, <1>3, <1>4 DEF BetweenEvictions

PopSmallDoes(w) ==
    /\ pc[w] = "small" /\ UNCHANGED <<size, lock, loop, left, overlap>>
    /\ Head(small) \in Keys /\ small' = Tail(small) /\ small' \in Seq(Keys)
    /\ Len(small') = Len(small) - 1 /\ Len(small) \in Nat
    /\ Range(small) = {Head(small)} \cup Range(small')
    /\ \/ /\ main' \in Seq(Keys) /\ Len(main') = Len(main) + 1
          /\ Range(main') = Range(main) \cup {Head(small)}
          /\ hot' = [hot EXCEPT ![Head(small)] = FALSE] /\ UNCHANGED <<pc, job>>
       \/ /\ pc' = [pc EXCEPT ![w] = "small_victim"] /\ UNCHANGED <<main, hot>>
          /\ job' = [job EXCEPT ![w] = [key |-> Head(small), size |-> 0, new |-> FALSE]]

\* The head of small goes to main, or is the victim.
LEMMA PopSmallEffect ==
    ASSUME CoreInv, NEW w \in Writers, PopSmall(w)
    PROVE  PopSmallDoes(w)
<1> USE DEF PopSmallDoes
<1>1. /\ small \in Seq(Keys) /\ main \in Seq(Keys) /\ small # << >> /\ small' = Tail(small)
      /\ pc[w] = "small" /\ UNCHANGED <<size, lock, loop, left, overlap>>
  BY DEF PopSmall, CoreInv, CoreType, At
<1>2. /\ Head(small) \in Keys /\ Tail(small) \in Seq(Keys)
      /\ Len(Tail(small)) = Len(small) - 1 /\ Len(small) \in Nat
      /\ Range(small) = {Head(small)} \cup Range(Tail(small))
  BY <1>1, RangeTail
<1>3. \/ /\ main' = Append(main, Head(small))
         /\ hot' = [hot EXCEPT ![Head(small)] = FALSE] /\ UNCHANGED <<pc, job>>
      \/ /\ pc' = [pc EXCEPT ![w] = "small_victim"] /\ UNCHANGED <<main, hot>>
         /\ job' = [job EXCEPT ![w] = [key |-> Head(small), size |-> 0, new |-> FALSE]]
  BY DEF PopSmall, Goto, Take
<1>4. /\ Append(main, Head(small)) \in Seq(Keys)
      /\ Len(Append(main, Head(small))) = Len(main) + 1
      /\ Range(Append(main, Head(small))) = Range(main) \cup {Head(small)}
  BY <1>1, <1>2, RangeAppend
<1> QED
  BY <1>1, <1>2, <1>3, <1>4

PopMainDoes(w) ==
    /\ pc[w] = "main" /\ UNCHANGED <<size, small, lock, loop, overlap>>
    /\ left[w] > 0 /\ left' = [left EXCEPT ![w] = left[w] - 1]
    /\ Head(main) \in Keys /\ main' \in Seq(Keys) /\ Len(main) \in Nat
    /\ \/ /\ Len(main') = Len(main) /\ Range(main') = Range(main)
          /\ hot' = [hot EXCEPT ![Head(main)] = FALSE] /\ UNCHANGED <<pc, job>>
       \/ /\ Len(main') = Len(main) - 1 /\ Range(main) = {Head(main)} \cup Range(main')
          /\ pc' = [pc EXCEPT ![w] = "main_victim"] /\ UNCHANGED hot
          /\ job' = [job EXCEPT ![w] = [key |-> Head(main), size |-> 0, new |-> FALSE]]

\* The head of main goes to its tail, or is the victim.
LEMMA PopMainEffect ==
    ASSUME CoreInv, NEW w \in Writers, PopMain(w)
    PROVE  PopMainDoes(w)
<1> USE DEF PopMainDoes
<1>1. /\ main \in Seq(Keys) /\ left[w] \in Nat /\ left[w] > 0 /\ left[w] <= Len(main)
      /\ pc[w] = "main" /\ UNCHANGED <<size, small, lock, loop, overlap>>
      /\ left' = [left EXCEPT ![w] = left[w] - 1]
  BY DEF PopMain, CoreInv, CoreType, JobInv, At
<1>2. main # << >>
  BY <1>1
<1>3. /\ Head(main) \in Keys /\ Tail(main) \in Seq(Keys)
      /\ Len(Tail(main)) = Len(main) - 1 /\ Len(main) \in Nat
      /\ Range(main) = {Head(main)} \cup Range(Tail(main))
  BY <1>1, <1>2, RangeTail
<1>4. /\ Append(Tail(main), Head(main)) \in Seq(Keys)
      /\ Len(Append(Tail(main), Head(main))) = Len(Tail(main)) + 1
      /\ Range(Append(Tail(main), Head(main))) = Range(Tail(main)) \cup {Head(main)}
  BY <1>3, RangeAppend
<1>5. \/ /\ main' = Append(Tail(main), Head(main))
         /\ hot' = [hot EXCEPT ![Head(main)] = FALSE] /\ UNCHANGED <<pc, job>>
      \/ /\ main' = Tail(main) /\ pc' = [pc EXCEPT ![w] = "main_victim"] /\ UNCHANGED hot
         /\ job' = [job EXCEPT ![w] = [key |-> Head(main), size |-> 0, new |-> FALSE]]
  BY DEF PopMain, Goto, Take
<1>6. /\ Range(Append(Tail(main), Head(main))) = Range(main)
      /\ Len(Append(Tail(main), Head(main))) = Len(main)
  BY <1>3, <1>4, SMTT(30)
<1>7. CASE /\ main' = Append(Tail(main), Head(main))
           /\ hot' = [hot EXCEPT ![Head(main)] = FALSE] /\ UNCHANGED <<pc, job>>
  BY <1>1, <1>3, <1>4, <1>6, <1>7, ZenonT(60)
<1>8. CASE /\ main' = Tail(main) /\ pc' = [pc EXCEPT ![w] = "main_victim"] /\ UNCHANGED hot
           /\ job' = [job EXCEPT ![w] = [key |-> Head(main), size |-> 0, new |-> FALSE]]
  BY <1>1, <1>3, <1>8
<1> QED
  BY <1>5, <1>7, <1>8

\* A victim that is still cached leaves the map, and ends the eviction.
EvictDoes(w) ==
    /\ pc[w] \in Victim /\ job' = [job EXCEPT ![w] = NoJob]
    /\ UNCHANGED <<small, main, lock, loop, overlap>>
    /\ \/ /\ ~Cached(job[w].key) /\ size' = size /\ hot' = hot
       \/ /\ size' = [size EXCEPT ![job[w].key] = 0]
          /\ hot' = [hot EXCEPT ![job[w].key] = FALSE]
    /\ \/ pc[w] = "small_victim" /\ pc' = [pc EXCEPT ![w] = "small"] /\ left' = left
       \/ pc[w] = "main_victim" /\ pc' = [pc EXCEPT ![w] = "main"] /\ left' = left
       \/ /\ pc' = [pc EXCEPT ![w] = "test"]
          /\ left' = left \/ left' = [left EXCEPT ![w] = 0]

\* What becomes of the victim, from small or from main.
LEMMA EvictEffect ==
    ASSUME NEW w \in Writers, EvictSmall(w) \/ EvictMain(w)
    PROVE  EvictDoes(w)
<1> USE DEF EvictDoes, At, Goto, Forget, TrackedRemove, Victim, queues
<1>1. CASE EvictSmall(w)
  BY <1>1 DEF EvictSmall
<1>2. CASE EvictMain(w)
  BY <1>2 DEF EvictMain
<1> QED
  BY <1>1, <1>2

-----------------------------------------------------------------------------
(* Types and the lock                                                      *)

\* The invariant holds of an empty store.
LEMMA CoreInit == Init => CoreInv
<1> SUFFICES ASSUME Init PROVE CoreInv
  OBVIOUS
<1> USE StoreAssumption DEF Init
<1>1. CoreType
  BY DEF CoreType, Places, Jobs, NoJob
<1>2. LockInv /\ JobInv
  BY DEF LockInv, JobInv, At, Evicting, Victim
<1> QED
  BY <1>1, <1>2 DEF CoreInv

\* Every step keeps the types, the lock and the jobs in order.
LEMMA CoreStep == CoreInv /\ [Next]_vars => CoreInv'
<1> SUFFICES ASSUME CoreInv, [Next]_vars PROVE CoreInv'
  OBVIOUS
<1> USE StoreAssumption DEF CoreInv, CoreType
<1>0. /\ Len(main) \in Nat
      /\ NoJob \in Jobs
      /\ \A k \in Keys : [key |-> k, size |-> 0, new |-> FALSE] \in Jobs
  BY DEF NoJob, Jobs
<1>1. ASSUME NEW k \in Keys, Get(k) PROVE CoreInv'
  <2>1. CoreType'
    BY <1>1 DEF Get, queues
  <2>2. LockInv' /\ JobInv'
    BY <1>1 DEF Get, LockInv, JobInv, At, queues
  <2> QED
    BY <2>1, <2>2
<1>2. ASSUME NEW w \in Writers, Store(w) PROVE CoreInv'
  <2>0. StoreDoes(w)
    BY <1>2, StoreEffect
  <2>1. job[w].key \in Keys /\ job[w].size \in Sizes
    BY <2>0 DEF JobInv, At, StoreDoes
  <2>2. CoreType'
    <3>1. size' \in [Keys -> Sizes \cup {0}] /\ hot' \in [Keys -> BOOLEAN]
      BY <2>0, <2>1 DEF StoreDoes
    <3>2. pc' \in [Writers -> Places]
      BY <2>0 DEF StoreDoes, Places
    <3>3. job' \in [Writers -> Jobs]
      BY <1>0, <2>0, <2>1, SMTT(30) DEF StoreDoes
    <3> QED
      BY <2>0, <3>1, <3>2, <3>3 DEF StoreDoes
  <2>3. LockInv'
    BY <2>0, ZenonT(60) DEF LockInv, Evicting, Victim, StoreDoes
  <2>4. JobInv'
    BY <2>0, <2>1, SMTT(30) DEF JobInv, Victim, At, StoreDoes
  <2> QED
    BY <2>2, <2>3, <2>4
<1>3. ASSUME NEW w \in Writers, Admit(w) PROVE CoreInv'
  <2>0. AdmitDoes(w)
    BY <1>3, AdmitEffect
  <2>1. job[w].key \in Keys
    BY <2>0 DEF JobInv, AdmitDoes
  <2>2. /\ Append(small, job[w].key) \in Seq(Keys) /\ Append(main, job[w].key) \in Seq(Keys)
        /\ Len(Append(main, job[w].key)) = Len(main) + 1
    BY <2>1, RangeAppend
  <2>3. /\ small' \in Seq(Keys) /\ main' \in Seq(Keys)
        /\ main' = main \/ Len(main') = Len(main) + 1
    BY <2>0, <2>2 DEF AdmitDoes
  <2>4. CoreType'
    BY <1>0, <2>0, <2>3 DEF Places, Evicting, AdmitDoes
  <2>5. LockInv'
    BY <2>0 DEF LockInv, Evicting, Victim, AdmitDoes
  <2>6. JobInv'
    BY <1>0, <2>0, <2>3 DEF JobInv, Victim, At, AdmitDoes
  <2> QED
    BY <2>4, <2>5, <2>6
<1>4. ASSUME NEW w \in Writers, BetweenEvictions(w) PROVE CoreInv'
  <2>0. BetweenDoes(w)
    BY <1>4, BetweenEffect
  <2>1. CoreType'
    <3>1. pc' \in [Writers -> Places] /\ lock' \in Writers \cup {Nobody}
      BY <2>0, ZenonT(60) DEF Places, Evicting, BetweenDoes
    <3>2. left' \in [Writers -> Nat] /\ loop' \in [Writers -> {"count", "memory"}]
      BY <1>0, <2>0, ZenonT(60) DEF BetweenDoes
    <3> QED
      BY <2>0, <3>1, <3>2 DEF BetweenDoes
  <2>2. LockInv'
    BY <2>0, SMTT(30) DEF LockInv, Evicting, Victim, BetweenDoes
  <2>3. JobInv'
    BY <1>0, <2>0 DEF JobInv, Victim, At, BetweenDoes
  <2> QED
    BY <2>1, <2>2, <2>3
<1>5. ASSUME NEW w \in Writers, PopSmall(w) PROVE CoreInv'
  <2>0. PopSmallDoes(w)
    BY <1>5, PopSmallEffect
  <2>1. CoreType'
    <3>1. hot' \in [Keys -> BOOLEAN] /\ pc' \in [Writers -> Places]
      BY <2>0 DEF Places, Evicting, Victim, PopSmallDoes
    <3>2. job' \in [Writers -> Jobs]
      <4>1. [key |-> Head(small), size |-> 0, new |-> FALSE] \in Jobs
        BY <1>0, <2>0 DEF PopSmallDoes
      <4>2. \/ job' = job
            \/ job' = [job EXCEPT ![w] = [key |-> Head(small), size |-> 0, new |-> FALSE]]
        BY <2>0 DEF PopSmallDoes
      <4> QED
        BY <4>1, <4>2
    <3> QED
      BY <2>0, <3>1, <3>2 DEF PopSmallDoes
  <2>2. LockInv'
    BY <2>0 DEF LockInv, Evicting, Victim, PopSmallDoes
  <2>3. JobInv'
    BY <1>0, <2>0 DEF JobInv, Victim, At, PopSmallDoes
  <2> QED
    BY <2>1, <2>2, <2>3
<1>6. ASSUME NEW w \in Writers, EvictSmall(w) \/ EvictMain(w) PROVE CoreInv'
  <2>0. EvictDoes(w)
    BY <1>6, EvictEffect
  <2>1. job[w].key \in Keys
    BY <2>0 DEF JobInv, EvictDoes
  <2>2. CoreType'
    <3>1. size' \in [Keys -> Sizes \cup {0}] /\ hot' \in [Keys -> BOOLEAN]
      BY <2>0, <2>1 DEF EvictDoes
    <3>2. pc' \in [Writers -> Places] /\ job' \in [Writers -> Jobs]
      BY <1>0, <2>0 DEF Places, Evicting, EvictDoes
    <3>3. left' \in [Writers -> Nat]
      BY <2>0 DEF EvictDoes
    <3> QED
      BY <2>0, <3>1, <3>2, <3>3 DEF EvictDoes
  <2>3. LockInv'
    BY <2>0 DEF LockInv, Evicting, Victim, EvictDoes
  <2>4. JobInv'
    BY <2>0 DEF JobInv, Victim, At, EvictDoes
  <2> QED
    BY <2>2, <2>3, <2>4
<1>7. ASSUME NEW w \in Writers, PopMain(w) PROVE CoreInv'
  <2>0. PopMainDoes(w)
    BY <1>7, PopMainEffect
  <2>1. CoreType'
    <3>1. hot' \in [Keys -> BOOLEAN] /\ pc' \in [Writers -> Places]
      BY <2>0 DEF Places, Evicting, Victim, PopMainDoes
    <3>2. job' \in [Writers -> Jobs] /\ left' \in [Writers -> Nat]
      BY <1>0, <2>0 DEF PopMainDoes
    <3> QED
      BY <2>0, <3>1, <3>2 DEF PopMainDoes
  <2>2. \A v \in Writers \ {w} : pc[v] \notin {"main", "main_victim"}
    BY <2>0 DEF LockInv, Evicting, Victim, PopMainDoes
  <2>3. LockInv'
    BY <2>0 DEF LockInv, Evicting, Victim, PopMainDoes
  <2>4. JobInv'
    BY <1>0, <2>0, <2>2 DEF JobInv, Victim, At, PopMainDoes
  <2> QED
    BY <2>1, <2>3, <2>4
<1>8. ASSUME NEW w \in Writers, ClearEntries(w) \/ ClearTotal(w) PROVE CoreInv'
  <2>1. CoreType'
    BY <1>8 DEF ClearEntries, ClearTotal, Begin, Goto, Places, queues
  <2>2. LockInv'
    BY <1>8 DEF ClearEntries, ClearTotal, Begin, Goto, At, Idle, LockInv, Evicting, Victim
  <2>3. JobInv'
    BY <1>8 DEF ClearEntries, ClearTotal, Begin, Goto, At, JobInv, Victim, queues
  <2> QED
    BY <2>1, <2>2, <2>3
<1>9. ASSUME NEW w \in Writers, ClearQueues(w) PROVE CoreInv'
  <2>1. CoreType'
    BY <1>9 DEF ClearQueues, Goto, Places
  <2>2. LockInv'
    BY <1>9 DEF ClearQueues, Goto, At, LockInv, Evicting, Victim
  <2>3. JobInv'
    BY <1>9 DEF ClearQueues, Goto, At, JobInv, LockInv, Evicting, Victim
  <2> QED
    BY <2>1, <2>2, <2>3
<1>10. ASSUME NEW w \in Writers, EnforceMemoryLimit(w) PROVE CoreInv'
  <2>1. CoreType'
    BY <1>10 DEF EnforceMemoryLimit, Begin, Lock, Goto, Places, Evicting, queues
  <2>2. LockInv'
    BY <1>10 DEF EnforceMemoryLimit, Lock, Goto, LockInv, Evicting, Victim
  <2>3. JobInv'
    BY <1>10 DEF EnforceMemoryLimit, Lock, Goto, At, JobInv, Victim, queues
  <2> QED
    BY <2>1, <2>2, <2>3
<1>11. ASSUME NEW w \in Writers, NEW k \in Keys, Remove(w, k) PROVE CoreInv'
  <2>1. CoreType'
    BY <1>11 DEF Remove, TrackedRemove, Begin, queues
  <2>2. LockInv' /\ JobInv'
    BY <1>11 DEF Remove, LockInv, JobInv, At, queues
  <2> QED
    BY <2>1, <2>2
<1>12. ASSUME NEW w \in Writers, NEW k \in Keys, NEW s \in Sizes, CheckNew(w, k, s) PROVE CoreInv'
  <2>1. CoreType'
    BY <1>12 DEF CheckNew, Begin, Goto, Places, Jobs, queues
  <2>2. LockInv'
    BY <1>12 DEF CheckNew, Begin, Goto, At, Idle, LockInv, Evicting, Victim
  <2>3. JobInv'
    BY <1>12 DEF CheckNew, Goto, At, JobInv, Victim, queues
  <2> QED
    BY <2>1, <2>2, <2>3
<1>13. CASE UNCHANGED vars
  BY <1>13 DEF vars, queues, LockInv, JobInv, At
<1> QED
  BY <1>1, <1>2, <1>3, <1>4, <1>5, <1>6, <1>7, <1>8, <1>9, <1>10, <1>11, <1>12, <1>13
  DEF Next, Step, BetweenEvictions

-----------------------------------------------------------------------------
(* The ghosts and the range of the memory counter                          *)

GhostInv ==
    /\ total \in 0 .. Wrap - 1
    /\ ghost \in Seq(Keys) /\ ghostSet \subseteq Keys
    /\ GhostBounded

\* A counter modulo Wrap, and what it shows of a number below Wrap.
LEMMA Modulo ==
    /\ \A n \in Int : n % Wrap \in 0 .. Wrap - 1
    /\ \A n \in 0 .. Wrap - 1 : n % Wrap = n
<1> QED
  BY StoreAssumption

\* s3fifo_add_ghost keeps the bound, and forgets in the set what the queue drops.
LEMMA AddGhostKeeps ==
    ASSUME GhostInv, NEW k \in Keys, AddGhost(k)
    PROVE  ghost' \in Seq(Keys) /\ ghostSet' \subseteq Keys /\ GhostBounded'
<1> DEFINE n == IF Len(ghost) >= GhostCapacity THEN Len(ghost) - GhostCapacity + 1 ELSE 0
           tail == SubSeq(ghost, n + 1, Len(ghost))
<1>1. /\ ghost' = Append(tail, k)
      /\ ghostSet' = (ghostSet \ {ghost[i] : i \in 1 .. n}) \cup {k}
  BY DEF AddGhost
<1>2. /\ ghost \in Seq(Keys) /\ Len(ghost) \in Nat /\ DOMAIN ghost = 1 .. Len(ghost)
      /\ Len(ghost) <= GhostCapacity /\ ghostSet \subseteq Range(ghost)
  BY DEF GhostInv, GhostBounded
<1>3. GhostCapacity \in Nat /\ GhostCapacity >= 1
  BY StoreAssumption DEF GhostCapacity
<1>4. n \in 0 .. Len(ghost) /\ Len(ghost) - n + 1 <= GhostCapacity
  BY <1>2, <1>3
<1> HIDE DEF n
<1>5. /\ tail \in Seq(Keys) /\ Len(tail) = Len(ghost) - n
      /\ \A i \in 1 .. Len(tail) : tail[i] = ghost[n + i]
  <2>1. n + 1 \in Int /\ Len(ghost) \in Int /\ \A i \in n + 1 .. Len(ghost) : ghost[i] \in Keys
    BY <1>2, <1>4
  <2>2. /\ tail \in Seq(Keys)
        /\ Len(tail) = IF n + 1 <= Len(ghost) THEN Len(ghost) - (n + 1) + 1 ELSE 0
        /\ \A i \in 1 .. Len(ghost) - (n + 1) + 1 : tail[i] = ghost[(n + 1) + i - 1]
    BY <2>1, SubSeqProperties, SMTT(30)
  <2> HIDE DEF tail
  <2>3. Len(tail) = Len(ghost) - n
    <3>1. ASSUME NEW m \in Nat, NEW j \in 0 .. m
          PROVE  (IF j + 1 <= m THEN m - (j + 1) + 1 ELSE 0) = m - j
      BY <3>1
    <3> QED
      BY <1>2, <1>4, <2>2, <3>1
  <2>4. \A i \in 1 .. Len(ghost) - n : (n + 1) + i - 1 = n + i /\ Len(ghost) - (n + 1) + 1 = Len(ghost) - n
    BY <1>2, <1>4
  <2> QED
    BY <1>2, <1>4, <2>2, <2>3, <2>4
<1> HIDE DEF tail
<1>6. /\ ghost' \in Seq(Keys) /\ Len(ghost') = Len(tail) + 1
      /\ Range(ghost') = Range(tail) \cup {k}
  BY <1>1, <1>5, RangeAppend
<1>7. ASSUME NEW x \in ghostSet, x \notin {ghost[i] : i \in 1 .. n} PROVE x \in Range(tail)
  <2>1. PICK j \in 1 .. Len(ghost) : ghost[j] = x
    BY <1>2 DEF Range
  <2>2. j - n \in 1 .. Len(tail) /\ n + (j - n) = j
    BY <1>2, <1>4, <1>5, <1>7, <2>1
  <2>3. tail[j - n] = x /\ DOMAIN tail = 1 .. Len(tail)
    BY <1>5, <2>1, <2>2
  <2> QED
    BY <2>2, <2>3 DEF Range
<1>8. ghostSet' \subseteq Range(ghost')
  BY <1>1, <1>6, <1>7
<1>9. Len(ghost') <= GhostCapacity
  BY <1>4, <1>5, <1>6
<1>10. ghostSet' \subseteq Keys
  BY <1>1 DEF GhostInv
<1> QED
  BY <1>6, <1>8, <1>9, <1>10 DEF GhostBounded, GhostCapacity

\* Every step keeps the ghosts in order and the counter in range.
LEMMA GhostStep == CoreInv /\ GhostInv /\ [Next]_vars => GhostInv'
<1> SUFFICES ASSUME CoreInv, GhostInv, [Next]_vars PROVE GhostInv'
  OBVIOUS
<1>0. total \in Int /\ size \in [Keys -> Sizes \cup {0}] /\ \A x \in Sizes \cup {0} : x \in Int
  BY StoreAssumption DEF GhostInv, CoreInv, CoreType
<1>1. ASSUME total' = total \/ (\E n \in Int : total' = n % Wrap), UNCHANGED <<ghost, ghostSet>>
      PROVE  GhostInv'
  BY <1>1, Modulo DEF GhostInv, GhostBounded, Range
<1>2. ASSUME NEW w \in Writers, Store(w) PROVE GhostInv'
  <2>1. job[w].key \in Keys /\ job[w].size \in Sizes
    BY <1>2 DEF Store, CoreInv, JobInv, At
  <2>2. total' = (total + job[w].size - size[job[w].key]) % Wrap /\ UNCHANGED <<ghost, ghostSet>>
    BY <1>2 DEF Store, TrackedInsert, queues
  <2> QED
    BY <1>0, <1>1, <2>1, <2>2
<1>3. ASSUME NEW w \in Writers, Admit(w) PROVE GhostInv'
  <2> DEFINE k == job[w].key
  <2>1. total' = total /\ ghostSet' = ghostSet \ {k} /\ (ghost' = Without(ghost, k) \/ ghost' = ghost)
    BY <1>3 DEF Admit
  <2>2. /\ Without(ghost, k) \in Seq(Keys) /\ Len(Without(ghost, k)) <= Len(ghost)
        /\ \A x \in Range(ghost) : x # k => x \in Range(Without(ghost, k))
    BY WithoutKey DEF GhostInv
  <2>3. GhostCapacity \in Nat /\ Len(ghost) \in Nat /\ Len(Without(ghost, k)) \in Nat
    BY <2>2, StoreAssumption DEF GhostCapacity, GhostInv
  <2>4. Len(ghost') <= GhostCapacity /\ ghostSet' \subseteq Range(ghost') /\ ghost' \in Seq(Keys)
    BY <2>1, <2>2, <2>3 DEF GhostInv, GhostBounded
  <2> QED
    BY <2>1, <2>4 DEF GhostInv, GhostBounded, GhostCapacity
<1>4. ASSUME NEW w \in Writers, BetweenEvictions(w) \/ PopSmall(w) \/ PopMain(w) PROVE GhostInv'
  BY <1>1, <1>4 DEF BetweenEvictions, EvictOne, LoopEnds, SmallScanned, MainScanned, PopSmall, PopMain,
     queues
<1>5. ASSUME NEW w \in Writers, EvictSmall(w) \/ EvictMain(w) PROVE GhostInv'
  <2>1. job[w].key \in Keys
    BY <1>5 DEF EvictSmall, EvictMain, CoreInv, JobInv, At, Victim
  <2>2. total' = total \/ total' = (total - size[job[w].key]) % Wrap
    BY <1>5 DEF EvictSmall, EvictMain, TrackedRemove
  <2>3. total' = total \/ \E n \in Int : total' = n % Wrap
    BY <1>0, <2>1, <2>2
  <2>4. CASE EvictMain(w)
    BY <1>1, <2>3, <2>4 DEF EvictMain, queues
  <2>5. CASE EvictSmall(w)
    <3>1. total' \in 0 .. Wrap - 1
      BY <2>3, Modulo DEF GhostInv
    <3>2. ghost' \in Seq(Keys) /\ ghostSet' \subseteq Keys /\ GhostBounded'
      BY <2>1, <2>5, AddGhostKeeps DEF EvictSmall
    <3> QED
      BY <3>1, <3>2 DEF GhostInv
  <2> QED
    BY <1>5, <2>4, <2>5
<1>6. ASSUME NEW w \in Writers, ClearTotal(w) PROVE GhostInv'
  <2>1. total' = 0 % Wrap /\ UNCHANGED <<ghost, ghostSet>>
    BY <1>6, StoreAssumption, Modulo DEF ClearTotal, queues
  <2> QED
    BY <1>1, <2>1
<1>7. ASSUME NEW w \in Writers, ClearQueues(w) PROVE GhostInv'
  <2>1. total' = total /\ ghost' = << >> /\ ghostSet' = {}
    BY <1>7 DEF ClearQueues
  <2>2. << >> \in Seq(Keys) /\ Len(<< >>) <= GhostCapacity
    BY StoreAssumption DEF GhostCapacity
  <2> QED
    BY <2>1, <2>2 DEF GhostInv, GhostBounded, GhostCapacity
<1>8. ASSUME NEW w \in Writers, NEW k \in Keys, Remove(w, k) PROVE GhostInv'
  <2>1. total' = (total - size[k]) % Wrap /\ UNCHANGED <<ghost, ghostSet>>
    BY <1>8 DEF Remove, TrackedRemove, queues
  <2> QED
    BY <1>0, <1>1, <2>1
<1>9. ASSUME \/ \E k \in Keys : Get(k)
             \/ \E w \in Writers : \/ ClearEntries(w) \/ EnforceMemoryLimit(w)
                                  \/ \E k \in Keys, s \in Sizes : CheckNew(w, k, s)
             \/ UNCHANGED vars
      PROVE  GhostInv'
  BY <1>1, <1>9 DEF Get, ClearEntries, EnforceMemoryLimit, CheckNew, vars, queues
<1> QED
  BY <1>2, <1>3, <1>4, <1>5, <1>6, <1>7, <1>8, <1>9 DEF Next, Step, BetweenEvictions

LEMMA GhostInit == Init => GhostInv
<1> SUFFICES ASSUME Init PROVE GhostInv
  OBVIOUS
<1>1. << >> \in Seq(Keys) /\ Len(<< >>) <= GhostCapacity
  BY StoreAssumption DEF GhostCapacity
<1> QED
  BY <1>1, StoreAssumption DEF Init, GhostInv, GhostBounded

\* Type correctness of the store: in particular the memory counter keeps its width.
THEOREM TypeCorrect == Spec => []TypeOK
<1>1. CoreInv /\ GhostInv => TypeOK
  BY DEF CoreInv, CoreType, GhostInv, TypeOK
<1> QED
  BY <1>1, CoreInit, CoreStep, GhostInit, GhostStep, PTL DEF Spec

\* The ghost queue keeps to its capacity and the ghost set to the queue, for every
\* capacity and however evictions, re-admissions and clears interleave.
THEOREM GhostsBounded == Spec => []GhostBounded
<1>1. GhostInv => GhostBounded
  BY DEF GhostInv
<1> QED
  BY <1>1, CoreInit, CoreStep, GhostInit, GhostStep, PTL DEF Spec

-----------------------------------------------------------------------------
(* No orphan                                                               *)

\* The state of a store that only w is at work in: the key it may be storing as
\* known is cached, it clears an empty map, and whatever is cached is in a queue
\* or in its hands.
Alone(w) ==
    /\ \A v \in Writers \ {w} : Idle(v)
    /\ At(w, "store") /\ ~job[w].new => Cached(job[w].key)
    /\ pc[w] \in {"zero", "clear"} => \A k \in Keys : ~Cached(k)
    /\ \A k \in Keys : Cached(k) =>
          k \in Queued \/ (pc[w] \in {"admit"} \cup Victim /\ job[w].key = k)
OneWriter == overlap # "writes" => \E w \in Writers : Alone(w)

\* A writer that starts while no other is at work is alone from then on.
LEMMA StartsAlone ==
    ASSUME CoreInv, OneWriter, NEW w \in Writers, Begin(w), overlap' # "writes"
    PROVE  /\ \A v \in Writers : Idle(v)
           /\ \A k \in Keys : Cached(k) => k \in Queued
<1>1. overlap # "writes" /\ \A v \in Writers : Idle(v)
  BY DEF Begin, CoreInv, CoreType
<1>2. PICK u \in Writers : Alone(u)
  BY <1>1 DEF OneWriter
<1> QED
  BY <1>1, <1>2 DEF Alone, Idle, At, Victim

\* A writer at work is the one that is alone.
LEMMA WorksAlone ==
    ASSUME OneWriter, overlap # "writes", NEW w \in Writers, ~Idle(w)
    PROVE  Alone(w)
BY DEF OneWriter, Alone

\* Every step of a lone writer leaves it alone and every cached entry accounted for.
LEMMA OneWriterStep == CoreInv /\ OneWriter /\ [Next]_vars => OneWriter'
<1> SUFFICES ASSUME CoreInv, OneWriter, [Next]_vars, overlap' # "writes"
             PROVE  \E w \in Writers : Alone(w)'
  BY DEF OneWriter
<1> USE DEF Cached, Queued, At, Idle
<1>1. ASSUME NEW k \in Keys, Get(k) PROVE \E w \in Writers : Alone(w)'
  <2>1. PICK w \in Writers : Alone(w)
    BY <1>1 DEF Get, OneWriter
  <2> QED
    BY <1>1, <2>1 DEF Get, Alone, queues
<1>2. ASSUME NEW w \in Writers, Store(w) PROVE Alone(w)'
  <2>0. StoreDoes(w) /\ job[w].key \in Keys
    BY <1>2, StoreEffect DEF CoreInv, JobInv, StoreDoes
  <2>1. Alone(w)
    BY <2>0, WorksAlone DEF StoreDoes
  <2> QED
    BY <2>0, <2>1 DEF StoreDoes, Alone, CoreInv, CoreType, Victim
<1>3. ASSUME NEW w \in Writers, Admit(w) PROVE Alone(w)'
  <2>0. AdmitDoes(w) /\ job[w].key \in Keys
    BY <1>3, AdmitEffect DEF CoreInv, JobInv, AdmitDoes
  <2>1. Alone(w)
    BY <2>0, WorksAlone DEF AdmitDoes
  <2>2. Queued' = Queued \cup {job[w].key}
    <3>1. /\ Range(Append(small, job[w].key)) = Range(small) \cup {job[w].key}
          /\ Range(Append(main, job[w].key)) = Range(main) \cup {job[w].key}
      BY <2>0, RangeAppend DEF CoreInv, CoreType
    <3> QED
      BY <2>0, <3>1 DEF AdmitDoes
  <2> QED
    BY <2>0, <2>1, <2>2 DEF AdmitDoes, Alone, CoreInv, CoreType, Victim
<1>4. ASSUME NEW w \in Writers, BetweenEvictions(w) PROVE Alone(w)'
  <2>0. BetweenDoes(w)
    BY <1>4, BetweenEffect
  <2>1. Alone(w)
    BY <2>0, WorksAlone DEF BetweenDoes
  <2> QED
    BY <2>0, <2>1 DEF BetweenDoes, Alone, CoreInv, CoreType, Victim
<1>5. ASSUME NEW w \in Writers, PopSmall(w) PROVE Alone(w)'
  <2>0. PopSmallDoes(w)
    BY <1>5, PopSmallEffect
  <2>1. Alone(w)
    BY <2>0, WorksAlone DEF PopSmallDoes
  <2> QED
    BY <2>0, <2>1 DEF PopSmallDoes, Alone, CoreInv, CoreType, Victim
<1>6. ASSUME NEW w \in Writers, EvictSmall(w) \/ EvictMain(w) PROVE Alone(w)'
  <2>0. EvictDoes(w) /\ job[w].key \in Keys
    BY <1>6, EvictEffect DEF CoreInv, JobInv, EvictDoes
  <2>1. Alone(w)
    BY <2>0, WorksAlone DEF EvictDoes, Victim
  <2>2. ASSUME NEW k \in Keys, Cached(k)' PROVE Cached(k) /\ k # job[w].key
    BY <2>0, <2>2 DEF EvictDoes, CoreInv, CoreType
  <2>3. /\ pc' \in [Writers -> Places] /\ pc'[w] \in {"small", "main", "test"} /\ Queued' = Queued
        /\ \A v \in Writers \ {w} : pc'[v] = pc[v]
    BY <2>0 DEF EvictDoes, CoreInv, CoreType, Places, Evicting
  <2> QED
    BY <2>1, <2>2, <2>3 DEF Alone
<1>7. ASSUME NEW w \in Writers, PopMain(w) PROVE Alone(w)'
  <2>0. PopMainDoes(w)
    BY <1>7, PopMainEffect
  <2>1. Alone(w)
    BY <2>0, WorksAlone DEF PopMainDoes
  <2> QED
    BY <2>0, <2>1 DEF PopMainDoes, Alone, CoreInv, CoreType, Victim
<1>8. ASSUME NEW w \in Writers, ClearEntries(w) PROVE Alone(w)'
  BY <1>8, StartsAlone DEF ClearEntries, Goto, Alone, CoreInv, CoreType, Victim
<1>9. ASSUME NEW w \in Writers, ClearTotal(w) \/ ClearQueues(w) PROVE Alone(w)'
  <2>1. Alone(w)
    BY <1>9, WorksAlone DEF ClearTotal, ClearQueues
  <2> QED
    BY <1>9, <2>1 DEF ClearTotal, ClearQueues, Goto, Alone, CoreInv, CoreType, Victim, queues
<1>10. ASSUME NEW w \in Writers, EnforceMemoryLimit(w) PROVE Alone(w)'
  BY <1>10, StartsAlone
  DEF EnforceMemoryLimit, Lock, Goto, Alone, CoreInv, CoreType, Victim, queues
<1>11. ASSUME NEW w \in Writers, NEW k \in Keys, Remove(w, k) PROVE Alone(w)'
  BY <1>11, StartsAlone DEF Remove, TrackedRemove, Alone, CoreInv, CoreType, Victim, queues
<1>12. ASSUME NEW w \in Writers, NEW k \in Keys, NEW s \in Sizes, CheckNew(w, k, s) PROVE Alone(w)'
  BY <1>12, StartsAlone DEF CheckNew, Goto, Alone, CoreInv, CoreType, Victim, queues
<1>13. CASE UNCHANGED vars
  BY <1>13 DEF vars, queues, OneWriter, Alone
<1> QED
  BY <1>1, <1>2, <1>3, <1>4, <1>5, <1>6, <1>7, <1>8, <1>9, <1>10, <1>11, <1>12, <1>13
  DEF Next, Step, BetweenEvictions

\* Every cached entry stays in reach of the eviction as long as writers do not meet.
THEOREM EntriesStayQueued == Spec => []NoOrphan
<1>1. Init => CoreInv /\ OneWriter
  BY CoreInit, StoreAssumption DEF Init, OneWriter, Alone, Cached, Idle, At
<1>2. CoreInv /\ OneWriter /\ [Next]_vars => (CoreInv /\ OneWriter)'
  BY CoreStep, OneWriterStep
<1>3. CoreInv /\ OneWriter => NoOrphan
  BY DEF OneWriter, Alone, NoOrphan, InHand
<1> QED
  BY <1>1, <1>2, <1>3, PTL DEF Spec

-----------------------------------------------------------------------------
(* The memory counter                                                      *)

\* No writer is between emptying the map and resetting the counter.
NoneZeroing == \A w \in Writers : pc[w] # "zero"
MemInv == overlap # "writes" /\ NoneZeroing => total = SumOf(size)

\* A counter that was exact is exact after one entry has changed, modulo nothing:
\* the sum of all sizes fits into it.
LEMMA CounterFollows ==
    ASSUME CoreInv, GhostInv, NEW k \in Keys, NEW s \in Sizes \cup {0}, total = SumOf(size),
           size' = [size EXCEPT ![k] = s], total' = (total + s - size[k]) % Wrap
    PROVE  total' = SumOf(size')
<1>0. /\ size \in [Keys -> Sizes \cup {0}] /\ size' \in [Keys -> Sizes \cup {0}]
      /\ Sizes \cup {0} \subseteq Nat /\ s \in Nat
  BY StoreAssumption DEF CoreInv, CoreType
<1>1. /\ size \in [Keys -> Sizes \cup {0}] /\ size \in [Keys -> Nat] /\ s \in Nat
      /\ size' \in [Keys -> Sizes \cup {0}] /\ size' \in [Keys -> Nat]
  BY <1>0
<1>2. SumOf(size) \in Nat /\ SumOf(size') = SumOf(size) - size[k] + s
  <2>0. IsFiniteSet(Keys)
    BY MemoryFits, Zenon
  <2>1. /\ SumOf(size) \in Nat
        /\ SumOf([size EXCEPT ![k] = s]) = SumOf(size) - size[k] + s
    <3>1. size \in [Keys -> Nat] /\ s \in Nat
      BY <1>1
    <3> QED
      BY <2>0, <3>1, SumChanges
  <2> QED
    BY <2>1
<1>3. SumOf(size') \in Nat
  BY <1>1, MemoryFits, SumChanges
<1>4. SumOf(size') < Wrap
  BY <1>1, MemoryFits DEF SumOf
<1>5. total + s - size[k] = SumOf(size')
  BY <1>1, <1>2
<1>6. SumOf(size') \in 0 .. Wrap - 1
  BY <1>3, <1>4, StoreAssumption
<1> QED
  BY <1>5, <1>6, Modulo

\* What is added and subtracted are numbers.
LEMMA SizesAreNumbers ==
    ASSUME CoreInv, GhostInv, NEW k \in Keys
    PROVE  total \in Int /\ size[k] \in Int
<1>1. Sizes \cup {0} \subseteq Int /\ size[k] \in Sizes \cup {0}
  BY StoreAssumption DEF CoreInv, CoreType
<1> QED
  BY <1>1 DEF GhostInv

\* An empty map weighs nothing.
LEMMA EmptyMap ==
    ASSUME CoreInv, \A k \in Keys : ~Cached(k)
    PROVE  SumOf(size) = 0
<1>0. size \in [Keys -> Sizes \cup {0}] /\ \A x \in Sizes : x > 0
  BY StoreAssumption DEF CoreInv, CoreType
<1>1. size = [k \in Keys |-> 0]
  BY <1>0 DEF Cached
<1> QED
  BY <1>1, MemoryFits, SumOfNothing

\* A writer that starts finds the counter exact, when it meets no other.
LEMMA StartsExact ==
    ASSUME CoreInv, OneWriter, MemInv, NEW w \in Writers, Begin(w), overlap' # "writes"
    PROVE  total = SumOf(size)
<1>1. overlap # "writes" /\ \A v \in Writers : Idle(v)
  BY StartsAlone DEF Begin, CoreInv, CoreType
<1> QED
  BY <1>1 DEF MemInv, NoneZeroing, Idle, At

\* So does a writer at work, unless it is clearing the map.
LEMMA WorksExact ==
    ASSUME OneWriter, MemInv, overlap # "writes", NEW w \in Writers, ~Idle(w), pc[w] # "zero"
    PROVE  total = SumOf(size)
BY WorksAlone DEF Alone, MemInv, NoneZeroing, Idle, At

\* Every step of a lone writer keeps the counter exact, or has just emptied the map.
LEMMA MemStep == CoreInv /\ GhostInv /\ OneWriter /\ MemInv /\ [Next]_vars => MemInv'
<1> SUFFICES ASSUME CoreInv, GhostInv, OneWriter, MemInv, [Next]_vars,
                    overlap' # "writes", NoneZeroing'
             PROVE  total' = SumOf(size')
  BY DEF MemInv
<1> USE DEF At, Idle
<1>1. ASSUME NEW w \in Writers, Store(w) PROVE total' = SumOf(size')
  <2>1. /\ job[w].key \in Keys /\ job[w].size \in Sizes \cup {0} /\ pc[w] = "store" /\ overlap' = overlap
        /\ size' = [size EXCEPT ![job[w].key] = job[w].size]
        /\ total' = (total + job[w].size - size[job[w].key]) % Wrap
    BY <1>1 DEF Store, TrackedInsert, CoreInv, JobInv
  <2>2. total = SumOf(size)
    BY <2>1, WorksExact
  <2> QED
    BY <2>1, <2>2, CounterFollows
<1>2. ASSUME NEW w \in Writers, EvictSmall(w) \/ EvictMain(w) PROVE total' = SumOf(size')
  <2>1. /\ job[w].key \in Keys /\ pc[w] \in Victim /\ overlap' = overlap
        /\ \/ UNCHANGED <<size, total>>
           \/ /\ size' = [size EXCEPT ![job[w].key] = 0]
              /\ total' = (total - size[job[w].key]) % Wrap
    BY <1>2 DEF EvictSmall, EvictMain, TrackedRemove, CoreInv, JobInv, Victim
  <2>2. total = SumOf(size)
    BY <2>1, WorksExact DEF Victim
  <2>3. total - size[job[w].key] = total + 0 - size[job[w].key]
    BY <2>1, SizesAreNumbers
  <2>4. CASE UNCHANGED <<size, total>>
    BY <2>2, <2>4
  <2>5. CASE /\ size' = [size EXCEPT ![job[w].key] = 0]
             /\ total' = (total - size[job[w].key]) % Wrap
    BY <2>1, <2>2, <2>3, <2>5, CounterFollows
  <2> QED
    BY <2>1, <2>4, <2>5
<1>3. ASSUME NEW w \in Writers, NEW k \in Keys, Remove(w, k) PROVE total' = SumOf(size')
  <2>1. /\ size' = [size EXCEPT ![k] = 0] /\ total' = (total - size[k]) % Wrap /\ Begin(w)
    BY <1>3 DEF Remove, TrackedRemove
  <2>2. total = SumOf(size)
    BY <2>1, StartsExact
  <2>3. total - size[k] = total + 0 - size[k]
    BY SizesAreNumbers
  <2> QED
    BY <2>1, <2>2, <2>3, CounterFollows
<1>4. ASSUME NEW w \in Writers, ClearEntries(w) PROVE total' = SumOf(size')
  BY <1>4 DEF ClearEntries, Goto, NoneZeroing, CoreInv, CoreType
<1>5. ASSUME NEW w \in Writers, ClearTotal(w) PROVE total' = SumOf(size')
  <2>1. total' = 0 /\ size' = size /\ overlap' = overlap /\ pc[w] = "zero"
    BY <1>5 DEF ClearTotal
  <2>2. Alone(w)
    BY <2>1, WorksAlone
  <2>3. SumOf(size) = 0
    BY <2>1, <2>2, EmptyMap DEF Alone
  <2> QED
    BY <2>1, <2>3
<1>6. ASSUME NEW w \in Writers,
             Admit(w) \/ BetweenEvictions(w) \/ PopSmall(w) \/ PopMain(w) \/ ClearQueues(w)
      PROVE  total' = SumOf(size')
  <2>1. total' = total /\ size' = size /\ overlap' = overlap /\ ~Idle(w) /\ pc[w] # "zero"
    BY <1>6 DEF Admit, BetweenEvictions, EvictOne, LoopEnds, SmallScanned, MainScanned,
       PopSmall, PopMain, ClearQueues
  <2> QED
    BY <2>1, WorksExact
<1>7. ASSUME NEW w \in Writers,
             EnforceMemoryLimit(w) \/ \E k \in Keys, s \in Sizes : CheckNew(w, k, s)
      PROVE  total' = SumOf(size')
  <2>1. total' = total /\ size' = size /\ Begin(w)
    BY <1>7 DEF EnforceMemoryLimit, CheckNew
  <2> QED
    BY <2>1, StartsExact
<1>8. ASSUME (\E k \in Keys : Get(k)) \/ UNCHANGED vars PROVE total' = SumOf(size')
  <2>1. total' = total /\ size' = size /\ pc' = pc /\ overlap # "writes"
    BY <1>8 DEF Get, vars
  <2> QED
    BY <2>1 DEF MemInv, NoneZeroing
<1> QED
  BY <1>1, <1>2, <1>3, <1>4, <1>5, <1>6, <1>7, <1>8 DEF Next, Step, BetweenEvictions

\* The memory counter is the sum of the cached sizes for any number of keys and any
\* sizes, through overwrites, evictions, removals and clears, unless writers met.
THEOREM MemoryCounted == Spec => []MemoryExact
<1> DEFINE Inv == CoreInv /\ GhostInv /\ OneWriter /\ MemInv
<1>1. Init => Inv
  <2> SUFFICES ASSUME Init PROVE Inv
    OBVIOUS
  <2>1. CoreInv /\ GhostInv
    BY CoreInit, GhostInit
  <2>2. \A k \in Keys : ~Cached(k)
    BY DEF Init, Cached
  <2>3. OneWriter
    BY <2>2, StoreAssumption DEF Init, OneWriter, Alone, Idle, At
  <2>4. total = SumOf(size)
    BY <2>1, <2>2, EmptyMap DEF Init
  <2> QED
    BY <2>1, <2>3, <2>4 DEF MemInv
<1>2. Inv /\ [Next]_vars => Inv'
  BY CoreStep, GhostStep, OneWriterStep, MemStep
<1>3. Inv => MemoryExact
  BY DEF MemInv, NoneZeroing, MemoryExact, SumOf
<1> QED
  BY <1>1, <1>2, <1>3, PTL DEF Spec

-----------------------------------------------------------------------------
(* The capacity                                                            *)

Load == Len(small) + Len(main)

\* A queue names at most as many keys as it is long.
LEMMA RangeSmall ==
    ASSUME NEW s \in Seq(Keys)
    PROVE  IsFiniteSet(Range(s)) /\ Cardinality(Range(s)) <= Len(s) /\ Cardinality(Range(s)) \in Nat
<1>1. Len(s) \in Nat /\ s \in [1 .. Len(s) -> Keys] /\ DOMAIN s = 1 .. Len(s)
  OBVIOUS
<1>2. s \in Surjection(1 .. Len(s), Range(s))
  BY <1>1 DEF Surjection, Range
<1>3. IsFiniteSet(1 .. Len(s)) /\ Cardinality(1 .. Len(s)) = Len(s)
  BY <1>1, FS_Interval
<1>4. IsFiniteSet(Range(s)) /\ Cardinality(Range(s)) <= Cardinality(1 .. Len(s))
  BY <1>2, <1>3, FS_Surjection
<1> QED
  BY <1>3, <1>4, FS_CardinalityType

LEMMA CapacityType == Capacity \in Nat
BY StoreAssumption DEF Capacity, SmallCapacity, MainCapacity

\* Something an eviction may take: in a queue and, at the scan of main, not yet
\* passed by it.
ColdQueued == \E k \in Queued : ~hot[k]
ColdAhead(w) == \E i \in 1 .. left[w] : ~hot[main[i]]

\* The state of a store in which w is at work undisturbed: it admits a key nobody
\* has read yet, so the loop that counts entries is at most one over and, as long
\* as it is over, has a cold key before it; otherwise the queues are within bounds.
Roomy(w) ==
    /\ At(w, "admit") => ~hot[job[w].key]
    /\ IF pc[w] \in Evicting /\ loop[w] = "count"
       THEN /\ Load <= Capacity + 1
            /\ pc[w] \in Victim => Load <= Capacity
            /\ Load > Capacity /\ pc[w] \in {"test", "small"} => ColdQueued
            /\ Load > Capacity /\ At(w, "main") => ColdAhead(w)
       ELSE Load <= Capacity
Undisturbed(w) == Roomy(w) /\ \A v \in Writers \ {w} : Idle(v)
CapInv == overlap = "none" => \E w \in Writers : Undisturbed(w)

\* A writer that starts undisturbed finds the queues within bounds.
LEMMA StartsRoomy ==
    ASSUME CapInv, NEW w \in Writers, Begin(w), overlap' = "none"
    PROVE  overlap = "none" /\ Load <= Capacity /\ \A v \in Writers : Idle(v)
<1>1. overlap = "none" /\ \A v \in Writers : Idle(v)
  BY DEF Begin
<1>2. PICK u \in Writers : Undisturbed(u)
  BY <1>1 DEF CapInv
<1> QED
  BY <1>1, <1>2 DEF Undisturbed, Roomy, Idle, At, Evicting, Victim

\* A writer at work is the undisturbed one.
LEMMA WorksRoomy ==
    ASSUME CapInv, overlap = "none", NEW w \in Writers, ~Idle(w)
    PROVE  Undisturbed(w)
BY DEF CapInv, Undisturbed

\* Where the loops go between two evictions, and why.
LEMMA BetweenBecause ==
    ASSUME CoreInv, NEW w \in Writers, BetweenEvictions(w)
    PROVE  /\ pc'[w] = "idle" => loop[w] = "memory"
           /\ loop[w] = "count" /\ loop'[w] = "memory" =>
                 \/ Load <= Capacity
                 \/ small = << >> /\ main = << >>
                 \/ pc[w] = "main" /\ left[w] = 0
           /\ pc'[w] = "main" => small = << >>
           /\ loop[w] = "memory" => loop'[w] = "memory" \/ pc'[w] = "idle"
<1>1. /\ pc \in [Writers -> Places] /\ loop \in [Writers -> {"count", "memory"}]
      /\ Len(small) \in Nat /\ Len(main) \in Nat /\ Capacity \in Nat
  BY CapacityType DEF CoreInv, CoreType
<1> USE DEF At, Goto, ScanMain, LeaveLoop, Over, Load
<1>2. CASE EvictOne(w)
  BY <1>1, <1>2 DEF EvictOne
<1>3. CASE LoopEnds(w)
  BY <1>1, <1>3 DEF LoopEnds
<1>4. CASE SmallScanned(w)
  BY <1>1, <1>4 DEF SmallScanned
<1>5. CASE MainScanned(w)
  BY <1>1, <1>5 DEF MainScanned
<1> QED
  BY <1>2, <1>3, <1>4, <1>5 DEF BetweenEvictions

\* Only its own eviction loop decides what a writer at work leaves behind.
LEMMA BetweenRoomy ==
    ASSUME CoreInv, NEW w \in Writers, BetweenEvictions(w), Roomy(w)
    PROVE  Roomy(w)'
<1>1. /\ pc \in [Writers -> Places] /\ loop \in [Writers -> {"count", "memory"}]
      /\ left \in [Writers -> Nat] /\ Len(small) \in Nat /\ Len(main) \in Nat
      /\ DOMAIN main = 1 .. Len(main) /\ Capacity \in Nat /\ Load \in Nat
  BY CapacityType DEF CoreInv, CoreType, Load
<1>2. BetweenDoes(w)
  BY BetweenEffect
<1>3. Load' = Load /\ Queued' = Queued /\ hot' = hot /\ main' = main
  BY <1>2 DEF BetweenDoes, Load, Queued
<1>4. /\ pc'[w] = "idle" => loop[w] = "memory"
      /\ loop[w] = "count" /\ loop'[w] = "memory" =>
            \/ Load <= Capacity
            \/ small = << >> /\ main = << >>
            \/ pc[w] = "main" /\ left[w] = 0
      /\ pc'[w] = "main" => small = << >>
      /\ loop[w] = "memory" => loop'[w] = "memory" \/ pc'[w] = "idle"
  BY BetweenBecause
<1>5. /\ pc[w] \in {"test", "small", "main"} /\ pc'[w] \in {"idle", "test", "small", "main"}
      /\ loop'[w] \in {"count", "memory"}
      /\ pc'[w] = "small" => pc[w] = "test" /\ loop'[w] = loop[w]
      /\ pc'[w] = "test" => loop[w] = "count" /\ loop'[w] = "memory"
      /\ pc'[w] = "main" => /\ pc[w] \in {"test", "small"} /\ loop'[w] = loop[w]
                            /\ left'[w] = Len(main)
  BY <1>1, <1>2 DEF BetweenDoes
<1> USE DEF At, Evicting, Victim
<1>6. CASE loop[w] = "memory"
  <2>1. Load <= Capacity
    BY <1>6 DEF Roomy
  <2>2. ~(pc'[w] \in Evicting /\ loop'[w] = "count") /\ pc'[w] # "admit"
    BY <1>4, <1>5, <1>6
  <2> QED
    BY <1>3, <2>1, <2>2 DEF Roomy
<1>7. CASE loop[w] = "count" /\ pc'[w] = "test"
  <2>1. Load <= Capacity
    <3>1. CASE small = << >> /\ main = << >>
      BY <1>1, <3>1 DEF Load
    <3>2. CASE pc[w] = "main" /\ left[w] = 0
      <4>1. ~ColdAhead(w)
        BY <3>2 DEF ColdAhead
      <4> QED
        BY <1>1, <1>7, <3>2, <4>1 DEF Roomy
    <3> QED
      BY <1>4, <1>5, <1>7, <3>1, <3>2
  <2> QED
    BY <1>3, <1>5, <1>7, <2>1 DEF Roomy
<1>8. CASE loop[w] = "count" /\ pc'[w] = "small"
  <2>1. Load <= Capacity + 1 /\ (Load > Capacity => ColdQueued)
    BY <1>5, <1>8 DEF Roomy
  <2>2. ColdQueued' <=> ColdQueued
    BY <1>3 DEF ColdQueued
  <2> QED
    BY <1>3, <1>5, <1>8, <2>1, <2>2 DEF Roomy
<1>9. CASE loop[w] = "count" /\ pc'[w] = "main"
  <2>1. Load <= Capacity + 1 /\ (Load > Capacity => ColdQueued)
    BY <1>5, <1>9 DEF Roomy
  <2>2. ASSUME ColdQueued PROVE ColdAhead(w)'
    <3>1. PICK k \in Queued : ~hot[k]
      BY <2>2 DEF ColdQueued
    <3>2. k \in Range(main)
      BY <1>4, <1>9 DEF Queued, Range
    <3>3. PICK i \in 1 .. Len(main) : main[i] = k
      BY <1>1, <3>2 DEF Range
    <3> QED
      BY <1>3, <1>5, <1>9, <3>1, <3>3 DEF ColdAhead
  <2> QED
    BY <1>3, <1>5, <1>9, <2>1, <2>2 DEF Roomy
<1> QED
  BY <1>1, <1>4, <1>5, <1>6, <1>7, <1>8, <1>9

\* The scan of small promotes what was read, which is cold from then on.
LEMMA PopSmallRoomy ==
    ASSUME CoreInv, NEW w \in Writers, PopSmall(w), Roomy(w)
    PROVE  Roomy(w)'
<1>1. /\ pc \in [Writers -> Places] /\ hot \in [Keys -> BOOLEAN] /\ Capacity \in Nat
      /\ Len(small) \in Nat /\ Len(main) \in Nat
  BY CapacityType DEF CoreInv, CoreType
<1>2. PopSmallDoes(w)
  BY PopSmallEffect
<1>3. pc[w] = "small" /\ loop' = loop /\ Head(small) \in Keys /\ Len(small') = Len(small) - 1
  BY <1>2 DEF PopSmallDoes
<1>4. IF loop[w] = "count" THEN Load <= Capacity + 1 ELSE Load <= Capacity
  BY <1>3 DEF Roomy, Evicting
<1> USE DEF At, Evicting, Victim
<1>5. CASE pc' = [pc EXCEPT ![w] = "small_victim"] /\ main' = main
  BY <1>1, <1>3, <1>4, <1>5 DEF Roomy, Load
<1>6. CASE /\ Len(main') = Len(main) + 1 /\ Range(main') = Range(main) \cup {Head(small)}
           /\ hot' = [hot EXCEPT ![Head(small)] = FALSE] /\ pc' = pc
  <2>1. ColdQueued'
    BY <1>1, <1>3, <1>6 DEF ColdQueued, Queued
  <2>2. Load' = Load
    BY <1>1, <1>3, <1>6 DEF Load
  <2> QED
    BY <1>3, <1>4, <1>6, <2>1, <2>2 DEF Roomy
<1> QED
  BY <1>2, <1>5, <1>6 DEF PopSmallDoes

\* The scan of main comes one key nearer to the cold one, or has found it.
LEMMA PopMainRoomy ==
    ASSUME CoreInv, NEW w \in Writers, PopMain(w), Roomy(w)
    PROVE  Roomy(w)'
<1>1. /\ pc \in [Writers -> Places] /\ hot \in [Keys -> BOOLEAN] /\ Capacity \in Nat
      /\ Len(small) \in Nat /\ main \in Seq(Keys) /\ left \in [Writers -> Nat]
  BY CapacityType DEF CoreInv, CoreType
<1>2. PopMainDoes(w)
  BY PopMainEffect
<1>3. /\ pc[w] = "main" /\ loop' = loop /\ small' = small /\ Len(main) \in Nat
      /\ left'[w] = left[w] - 1 /\ left[w] > 0 /\ left[w] <= Len(main) /\ left[w] \in Nat
  BY <1>1, <1>2 DEF PopMainDoes, CoreInv, JobInv
<1>4. IF loop[w] = "count" THEN Load <= Capacity + 1 ELSE Load <= Capacity
  BY <1>3 DEF Roomy, Evicting
<1> USE DEF At, Evicting, Victim
<1>5. CASE pc' = [pc EXCEPT ![w] = "main_victim"] /\ Len(main') = Len(main) - 1
  BY <1>1, <1>3, <1>4, <1>5 DEF Roomy, Load
<1>6. CASE pc' = pc /\ Len(main') = Len(main)
  <2>1. Load' = Load
    BY <1>3, <1>6 DEF Load
  <2>2. /\ main' = Append(Tail(main), Head(main)) /\ hot[Head(main)]
        /\ hot' = [hot EXCEPT ![Head(main)] = FALSE]
    BY <1>1, <1>3, <1>6 DEF PopMain, Goto
  <2>3. ASSUME ColdAhead(w) PROVE ColdAhead(w)'
    <3>1. PICK i \in 1 .. left[w] : ~hot[main[i]]
      BY <2>3 DEF ColdAhead
    <3>2. Head(main) = main[1] /\ main # << >>
      BY <1>1, <1>3
    <3>3. i # 1 /\ i \in Int /\ i <= Len(main) /\ i <= left[w] /\ i >= 1
      BY <1>3, <2>2, <3>1, <3>2
    <3>4. i - 1 \in 1 .. left'[w] /\ i - 1 \in 1 .. Len(main) - 1 /\ (i - 1) + 1 = i
      BY <1>3, <3>3
    <3>5. main'[i - 1] = main[i] /\ main[i] \in Keys
      <4>1. /\ Tail(main) \in Seq(Keys) /\ Len(Tail(main)) = Len(main) - 1
            /\ \A j \in 1 .. Len(main) - 1 : Tail(main)[j] = main[j + 1]
        BY <1>1, <3>2
      <4>2. \A j \in 1 .. Len(Tail(main)) : Append(Tail(main), Head(main))[j] = Tail(main)[j]
        BY <4>1
      <4>3. main[i] \in Keys
        BY <1>1, <3>3
      <4> QED
        BY <2>2, <3>4, <4>1, <4>2, <4>3
    <3>6. ~hot'[main[i]]
      BY <1>1, <2>2, <3>1, <3>5
    <3> QED
      BY <3>4, <3>5, <3>6 DEF ColdAhead
  <2> QED
    BY <1>3, <1>4, <1>6, <2>1, <2>3 DEF Roomy
<1> QED
  BY <1>2, <1>5, <1>6 DEF PopMainDoes

\* Every step of an undisturbed writer leaves it undisturbed and with room.
LEMMA CapStep == CoreInv /\ CapInv /\ [Next]_vars => CapInv'
<1> SUFFICES ASSUME CoreInv, CapInv, [Next]_vars, overlap' = "none"
             PROVE  \E w \in Writers : Undisturbed(w)'
  BY DEF CapInv
<1>0. /\ pc \in [Writers -> Places] /\ loop \in [Writers -> {"count", "memory"}]
      /\ hot \in [Keys -> BOOLEAN] /\ job \in [Writers -> Jobs]
      /\ Len(small) \in Nat /\ Len(main) \in Nat /\ Capacity \in Nat
      /\ small \in Seq(Keys) /\ main \in Seq(Keys)
  BY CapacityType DEF CoreInv, CoreType
<1>1. ASSUME NEW w \in Writers, ~Idle(w), overlap = "none", Roomy(w) => Roomy(w)',
             \A v \in Writers \ {w} : pc'[v] = pc[v]
      PROVE  Undisturbed(w)'
  BY <1>1, WorksRoomy DEF Undisturbed, Idle, At
<1> USE DEF At, Idle, Evicting, Victim
<1>2. ASSUME NEW k \in Keys, Get(k) PROVE \E w \in Writers : Undisturbed(w)'
  <2>1. overlap = "none" /\ \A w \in Writers : Idle(w)
    BY <1>2 DEF Get, CoreInv, CoreType
  <2>2. PICK w \in Writers : Undisturbed(w)
    BY <2>1 DEF CapInv
  <2> QED
    BY <1>2, <2>1, <2>2 DEF Get, Undisturbed, Roomy, Load, queues
<1>3. ASSUME NEW w \in Writers, Store(w) PROVE Undisturbed(w)'
  <2>1. StoreDoes(w) /\ job[w].key \in Keys
    BY <1>3, StoreEffect DEF CoreInv, JobInv, StoreDoes
  <2>2. ASSUME Roomy(w) PROVE Roomy(w)'
    <3>1. Load <= Capacity
      BY <2>1, <2>2 DEF Roomy, StoreDoes
    <3>2. Load' = Load
      BY <2>1 DEF Load, StoreDoes
    <3>3. /\ pc'[w] \in {"idle", "admit"}
          /\ pc'[w] = "admit" => job'[w].key = job[w].key /\ ~hot'[job[w].key]
      BY <1>0, <2>1 DEF StoreDoes
    <3> QED
      BY <3>1, <3>2, <3>3 DEF Roomy
  <2> QED
    BY <1>0, <1>1, <2>1, <2>2 DEF StoreDoes
<1>4. ASSUME NEW w \in Writers, Admit(w) PROVE Undisturbed(w)'
  <2>1. AdmitDoes(w) /\ job[w].key \in Keys
    BY <1>4, AdmitEffect DEF CoreInv, JobInv, AdmitDoes
  <2>2. /\ Range(Append(small, job[w].key)) = Range(small) \cup {job[w].key}
        /\ Range(Append(main, job[w].key)) = Range(main) \cup {job[w].key}
        /\ Len(Append(small, job[w].key)) = Len(small) + 1
        /\ Len(Append(main, job[w].key)) = Len(main) + 1
    BY <1>0, <2>1, RangeAppend
  <2>3. Load' = Load + 1 /\ job[w].key \in Queued'
    <3>1. CASE main' = Append(main, job[w].key) /\ small' = small
      BY <1>0, <2>2, <3>1 DEF Load, Queued
    <3>2. CASE main' = main /\ small' = Append(small, job[w].key)
      BY <1>0, <2>2, <3>2 DEF Load, Queued
    <3> QED
      BY <2>1, <3>1, <3>2 DEF AdmitDoes
  <2>4. ASSUME Roomy(w) PROVE Roomy(w)'
    <3>1. Load <= Capacity /\ ~hot[job[w].key] /\ Load \in Nat
      BY <1>0, <2>1, <2>4 DEF Roomy, AdmitDoes, Load
    <3>2. ColdQueued'
      BY <2>1, <2>3, <3>1 DEF ColdQueued, AdmitDoes
    <3>3. pc'[w] = "test" /\ loop'[w] = "count"
      BY <1>0, <2>1 DEF AdmitDoes
    <3> QED
      BY <1>0, <2>3, <3>1, <3>2, <3>3 DEF Roomy
  <2> QED
    BY <1>0, <1>1, <2>1, <2>4 DEF AdmitDoes
<1>5. ASSUME NEW w \in Writers, BetweenEvictions(w) PROVE Undisturbed(w)'
  <2>1. BetweenDoes(w)
    BY <1>5, BetweenEffect
  <2>2. ~Idle(w) /\ overlap = "none" /\ \A v \in Writers \ {w} : pc'[v] = pc[v]
    BY <1>0, <2>1 DEF BetweenDoes
  <2>3. Roomy(w) => Roomy(w)'
    BY <1>5, BetweenRoomy
  <2> QED
    BY <1>1, <2>2, <2>3
<1>6. ASSUME NEW w \in Writers, PopSmall(w) PROVE Undisturbed(w)'
  <2>1. ~Idle(w) /\ overlap = "none" /\ \A v \in Writers \ {w} : pc'[v] = pc[v]
    BY <1>0, <1>6 DEF PopSmall, Goto
  <2>2. Roomy(w) => Roomy(w)'
    BY <1>6, PopSmallRoomy
  <2> QED
    BY <1>1, <2>1, <2>2
<1>7. ASSUME NEW w \in Writers, PopMain(w) PROVE Undisturbed(w)'
  <2>1. ~Idle(w) /\ overlap = "none" /\ \A v \in Writers \ {w} : pc'[v] = pc[v]
    BY <1>0, <1>7 DEF PopMain, Goto
  <2>2. Roomy(w) => Roomy(w)'
    BY <1>7, PopMainRoomy
  <2> QED
    BY <1>1, <2>1, <2>2
<1>8. ASSUME NEW w \in Writers, EvictSmall(w) \/ EvictMain(w) PROVE Undisturbed(w)'
  <2>1. EvictDoes(w)
    BY <1>8, EvictEffect
  <2>2. /\ ~Idle(w) /\ overlap = "none" /\ \A v \in Writers \ {w} : pc'[v] = pc[v]
        /\ Load' = Load /\ pc'[w] \in {"test", "small", "main"} /\ pc[w] \in Victim
    BY <1>0, <2>1 DEF EvictDoes, Load
  <2>3. ASSUME Roomy(w) PROVE Roomy(w)'
    <3>1. Load <= Capacity /\ Load \in Nat
      BY <1>0, <2>2, <2>3 DEF Roomy, Load
    <3> QED
      BY <1>0, <2>2, <3>1 DEF Roomy
  <2> QED
    BY <1>1, <2>2, <2>3
<1>9. ASSUME NEW w \in Writers, ClearTotal(w) \/ ClearQueues(w) PROVE Undisturbed(w)'
  <2>1. /\ ~Idle(w) /\ overlap = "none" /\ \A v \in Writers \ {w} : pc'[v] = pc[v]
        /\ pc'[w] \in {"clear", "idle"} /\ pc[w] \in {"zero", "clear"}
    BY <1>0, <1>9 DEF ClearTotal, ClearQueues, Goto
  <2>2. Load' = Load \/ Load' = 0
    BY <1>9 DEF ClearTotal, ClearQueues, Load, queues
  <2>3. Roomy(w) => Roomy(w)'
    BY <1>0, <2>1, <2>2 DEF Roomy
  <2> QED
    BY <1>1, <2>1, <2>3
<1>10. ASSUME NEW w \in Writers,
              \/ ClearEntries(w) \/ EnforceMemoryLimit(w)
              \/ \E k \in Keys : Remove(w, k) \/ \E s \in Sizes : CheckNew(w, k, s)
       PROVE  Undisturbed(w)'
  <2>1. Begin(w) /\ Load' = Load
    BY <1>10 DEF ClearEntries, EnforceMemoryLimit, Remove, CheckNew, Load, queues
  <2>2. Load <= Capacity /\ \A v \in Writers : Idle(v)
    BY <2>1, StartsRoomy
  <2>3. /\ \A v \in Writers \ {w} : pc'[v] = pc[v]
        /\ pc'[w] \in {"idle", "zero", "store"} \/ (pc'[w] = "test" /\ loop'[w] = "memory")
    BY <1>0, <1>10, <2>2 DEF ClearEntries, EnforceMemoryLimit, Remove, CheckNew, Goto, Lock
  <2> QED
    BY <2>1, <2>2, <2>3 DEF Undisturbed, Roomy
<1>11. CASE UNCHANGED vars
  <2>1. PICK w \in Writers : Undisturbed(w)
    BY <1>11 DEF vars, CapInv
  <2> QED
    BY <1>11, <2>1 DEF vars, queues, Undisturbed, Roomy, Load, ColdQueued, ColdAhead, Queued
<1> QED
  BY <1>2, <1>3, <1>4, <1>5, <1>6, <1>7, <1>8, <1>9, <1>10, <1>11 DEF Next, Step, BetweenEvictions

\* An undisturbed store at rest is within max_entries, for every max_entries and
\* however many keys come and go: an admission always finds a cold key to evict.
THEOREM CapacityKept == Spec => []WithinCapacity
<1> DEFINE Inv == CoreInv /\ OneWriter /\ CapInv
<1>1. Init => Inv
  <2> SUFFICES ASSUME Init PROVE Inv
    OBVIOUS
  <2>1. CoreInv
    BY CoreInit
  <2>2. OneWriter
    BY StoreAssumption DEF Init, OneWriter, Alone, Cached, Idle, At
  <2>3. Load = 0 /\ Capacity \in Nat
    BY CapacityType DEF Init, Load
  <2>4. CapInv
    BY <2>3, StoreAssumption DEF Init, CapInv, Undisturbed, Roomy, Idle, At, Evicting, Victim
  <2> QED
    BY <2>1, <2>2, <2>4
<1>2. Inv /\ [Next]_vars => Inv'
  BY CoreStep, OneWriterStep, CapStep
<1>3. Inv => WithinCapacity
  <2> SUFFICES ASSUME Inv, overlap = "none", \A w \in Writers : Idle(w)
               PROVE  Load <= Capacity /\ Cardinality({k \in Keys : Cached(k)}) <= Capacity
    BY DEF WithinCapacity, Load
  <2>1. Load <= Capacity
    BY DEF CapInv, Undisturbed, Roomy, Idle, At, Evicting, Victim
  <2>2. {k \in Keys : Cached(k)} \in SUBSET Queued
    BY DEF OneWriter, Alone, Idle, At, Victim
  <2>3. small \in Seq(Keys) /\ main \in Seq(Keys)
    BY DEF CoreInv, CoreType
  <2>4. /\ IsFiniteSet(Range(small)) /\ Cardinality(Range(small)) <= Len(small)
        /\ IsFiniteSet(Range(main)) /\ Cardinality(Range(main)) <= Len(main)
        /\ Cardinality(Range(small)) \in Nat /\ Cardinality(Range(main)) \in Nat
    BY <2>3, RangeSmall
  <2> DEFINE Both == Range(small) \cap Range(main)
  <2>5. IsFiniteSet(Both) /\ Cardinality(Both) \in Nat
    BY <2>4, FS_Intersection, FS_CardinalityType
  <2>6. /\ IsFiniteSet(Queued)
        /\ Cardinality(Queued) = Cardinality(Range(small)) + Cardinality(Range(main)) - Cardinality(Both)
    BY <2>4, FS_Union DEF Queued
  <2>7. /\ Cardinality({k \in Keys : Cached(k)}) <= Cardinality(Queued)
        /\ IsFiniteSet({k \in Keys : Cached(k)})
    BY <2>2, <2>6, FS_Subset
  <2>8. Cardinality({k \in Keys : Cached(k)}) \in Nat
    BY <2>7, FS_CardinalityType
  <2> HIDE DEF Both
  <2>9. Len(small) \in Nat /\ Len(main) \in Nat /\ Capacity \in Nat
    BY <2>3, CapacityType
  <2> QED
    BY <2>1, <2>4, <2>5, <2>6, <2>7, <2>8, <2>9 DEF Load
<1> QED
  BY <1>1, <1>2, <1>3, PTL DEF Spec

-----------------------------------------------------------------------------
(* What an eviction that gives up over the memory limit leaves behind      *)

\* A scan of main begins with small empty and, undisturbed, leaves only cold keys in
\* the places it has passed.
Cooled(w) == \A i \in 1 .. Len(main) : i > left[w] => ~hot[main[i]]
CoolInv ==
    \A w \in Writers : pc[w] \in {"main", "main_victim"} =>
        small = << >> /\ (overlap = "none" => Cooled(w))

\* A key that gets its second chance is cold, and the last of main; what follows moves up.
LEMMA PopMainCools ==
    ASSUME CoreInv, NEW w \in Writers, PopMain(w), Cooled(w)
    PROVE  Cooled(w)'
<1>1. /\ hot \in [Keys -> BOOLEAN] /\ main \in Seq(Keys) /\ left \in [Writers -> Nat]
      /\ left[w] <= Len(main) /\ left[w] > 0 /\ left'[w] = left[w] - 1
  BY DEF CoreInv, CoreType, JobInv, PopMain, At
<1>2. main # << >> /\ Len(main) \in Nat /\ Head(main) = main[1] /\ Head(main) \in Keys
  BY <1>1
<1>3. /\ Tail(main) \in Seq(Keys) /\ Len(Tail(main)) = Len(main) - 1
      /\ \A j \in 1 .. Len(main) - 1 : Tail(main)[j] = main[j + 1] /\ main[j + 1] \in Keys
  BY <1>1, <1>2
<1>4. CASE main' = Tail(main) /\ hot' = hot
  BY <1>1, <1>2, <1>3, <1>4 DEF Cooled
<1>5. CASE main' = Append(Tail(main), Head(main)) /\ hot' = [hot EXCEPT ![Head(main)] = FALSE]
  <2>1. /\ Len(main') = Len(main) /\ main'[Len(main)] = Head(main)
        /\ \A j \in 1 .. Len(main) - 1 : main'[j] = main[j + 1]
    BY <1>2, <1>3, <1>5
  <2>2. ASSUME NEW i \in 1 .. Len(main'), i > left'[w] PROVE ~hot'[main'[i]]
    <3>1. CASE i = Len(main)
      BY <1>1, <1>2, <1>5, <2>1, <3>1
    <3>2. CASE i # Len(main)
      <4>1. i \in 1 .. Len(main) - 1 /\ i + 1 \in 1 .. Len(main) /\ i + 1 > left[w]
        BY <1>1, <1>2, <2>1, <2>2, <3>2
      <4>2. main'[i] = main[i + 1] /\ main[i + 1] \in Keys /\ ~hot[main[i + 1]]
        BY <1>3, <2>1, <4>1 DEF Cooled
      <4> QED
        BY <1>1, <1>5, <4>2
    <3> QED
      BY <3>1, <3>2
  <2> QED
    BY <2>2 DEF Cooled
<1> QED
  BY <1>4, <1>5 DEF PopMain

\* While w scans main, the steps of readers and of other writers leave the scan alone,
\* or end the undisturbed history.
LEMMA OthersDoNotHeat ==
    ASSUME CoreInv, OneWriter, NEW w \in Writers, pc[w] \in {"main", "main_victim"},
           \/ \E k \in Keys : Get(k)
           \/ \E v \in Writers \ {w} :
                 \/ Step(v)
                 \/ \E k \in Keys : Remove(v, k) \/ \E s \in Sizes : CheckNew(v, k, s)
                 \/ EnforceMemoryLimit(v)
                 \/ ClearEntries(v)
           \/ UNCHANGED vars
    PROVE  /\ pc'[w] = pc[w] /\ small' = small
           /\ overlap' = "none" => overlap = "none" /\ UNCHANGED <<main, hot>> /\ left'[w] = left[w]
<1>0. /\ lock = w /\ pc \in [Writers -> Places] /\ left \in [Writers -> Nat]
      /\ ~Idle(w) /\ overlap \in {"none", "reads", "writes"}
  BY DEF CoreInv, CoreType, LockInv, Evicting, Victim, Idle, At
<1>1. ASSUME NEW k \in Keys, Get(k)
      PROVE  UNCHANGED <<pc, small>> /\ overlap' # "none"
  BY <1>0, <1>1 DEF Get, queues
<1>2. ASSUME NEW v \in Writers \ {w}, Step(v)
      PROVE  pc'[w] = pc[w] /\ small' = small /\ overlap' # "none"
  <2>1. lock # v /\ lock # Nobody /\ pc[v] \notin Evicting
    BY <1>0, <1>2, StoreAssumption DEF CoreInv, LockInv
  <2>2. Store(v) \/ ClearTotal(v)
    BY <1>2, <2>1 DEF Step, Admit, Lock, EvictOne, LoopEnds, PopSmall, SmallScanned, EvictSmall,
       PopMain, EvictMain, MainScanned, ClearQueues, At, Evicting, Victim
  <2>3. ~Idle(v) /\ overlap' = overlap
    BY <2>2 DEF Store, ClearTotal, Idle, At
  <2>4. overlap = "writes"
    BY <1>0, <2>3 DEF OneWriter, Alone
  <2> QED
    BY <1>0, <2>2, <2>3, <2>4 DEF Store, ClearTotal, Goto, queues
<1>3. ASSUME NEW v \in Writers \ {w},
             \/ ClearEntries(v) \/ EnforceMemoryLimit(v)
             \/ \E k \in Keys : Remove(v, k) \/ \E s \in Sizes : CheckNew(v, k, s)
      PROVE  pc'[w] = pc[w] /\ small' = small /\ overlap' # "none"
  BY <1>0, <1>3 DEF ClearEntries, EnforceMemoryLimit, Remove, CheckNew, Begin, Goto, Lock, queues
<1>4. CASE UNCHANGED vars
  BY <1>4 DEF vars, queues
<1> QED
  BY <1>1, <1>2, <1>3, <1>4

\* Every step keeps the passed places of a scan cold.
LEMMA CoolStep == CoreInv /\ OneWriter /\ CoolInv /\ [Next]_vars => CoolInv'
<1> SUFFICES ASSUME CoreInv, OneWriter, CoolInv, [Next]_vars,
                    NEW w \in Writers, pc'[w] \in {"main", "main_victim"}
             PROVE  small' = << >> /\ (overlap' = "none" => Cooled(w)')
  BY DEF CoolInv
<1>0. pc \in [Writers -> Places] /\ left \in [Writers -> Nat] /\ Len(main) \in Nat
  BY DEF CoreInv, CoreType
<1>1. CASE PopMain(w)
  <2>1. pc[w] = "main" /\ small' = small /\ overlap' = overlap
    BY <1>1 DEF PopMain, At
  <2> QED
    BY <1>1, <2>1, PopMainCools DEF CoolInv
<1>2. CASE EvictMain(w)
  <2>1. pc[w] = "main_victim" /\ UNCHANGED <<small, main, overlap>>
    BY <1>2 DEF EvictMain, At, queues
  <2>2. hot' = hot /\ left' = left
    BY <1>0, <1>2 DEF EvictMain, Goto
  <2> QED
    BY <2>1, <2>2 DEF CoolInv, Cooled
<1>3. CASE BetweenEvictions(w)
  <2>1. BetweenDoes(w)
    BY <1>3, BetweenEffect
  <2>2. main' = main /\ small' = small /\ left'[w] = Len(main) /\ pc'[w] = "main"
    BY <1>0, <2>1 DEF BetweenDoes
  <2>3. small = << >>
    BY <1>3, <2>2, BetweenBecause
  <2> QED
    BY <1>0, <2>2, <2>3 DEF Cooled
<1>4. CASE \/ Store(w) \/ Admit(w) \/ PopSmall(w) \/ EvictSmall(w) \/ ClearTotal(w) \/ ClearQueues(w)
           \/ ClearEntries(w) \/ EnforceMemoryLimit(w)
           \/ \E k \in Keys : Remove(w, k) \/ \E s \in Sizes : CheckNew(w, k, s)
  BY <1>0, <1>4 DEF Store, Admit, PopSmall, EvictSmall, ClearTotal, ClearQueues, ClearEntries,
     EnforceMemoryLimit, Remove, CheckNew, Begin, Idle, At, Goto, Lock
<1>5. CASE \/ \E k \in Keys : Get(k)
           \/ \E v \in Writers \ {w} :
                 \/ Step(v)
                 \/ \E k \in Keys : Remove(v, k) \/ \E s \in Sizes : CheckNew(v, k, s)
                 \/ EnforceMemoryLimit(v)
                 \/ ClearEntries(v)
           \/ UNCHANGED vars
  <2>1. pc'[w] = pc[w]
    BY <1>0, <1>5 DEF Get, Step, Store, Admit, EvictOne, LoopEnds, SmallScanned, MainScanned,
       PopSmall, PopMain, EvictSmall, EvictMain, ClearTotal, ClearQueues, ClearEntries,
       EnforceMemoryLimit, Remove, CheckNew, ScanMain, LeaveLoop, Goto, Lock, vars
  <2>2. /\ small' = small
        /\ overlap' = "none" => overlap = "none" /\ UNCHANGED <<main, hot>> /\ left'[w] = left[w]
    BY <1>5, <2>1, OthersDoNotHeat
  <2> QED
    BY <2>1, <2>2 DEF CoolInv, Cooled
<1> QED
  BY <1>1, <1>2, <1>3, <1>4, <1>5 DEF Next, Step, BetweenEvictions

\* A counter above zero means that an eviction loop has something queued.
LEMMA SomethingQueued ==
    ASSUME CoreInv, OneWriter, MemInv, overlap # "writes", total # 0,
           NEW w \in Writers, pc[w] \in {"test", "small", "main"}
    PROVE  Queued # {}
<1>1. Alone(w) /\ total = SumOf(size)
  BY WorksAlone, WorksExact DEF Idle, At
<1>2. PICK k \in Keys : Cached(k)
  BY <1>1, EmptyMap
<1> QED
  BY <1>1, <1>2 DEF Alone, Victim

\* For every number of keys and writers and every limit: a writer that unlocks over
\* max_memory_bytes has emptied small, leaves keys in main and, undisturbed, has taken
\* back the second chance of each, so that the next pass finds a victim.
THEOREM GivingUpCools == Spec => GivesUpCooled
<1> DEFINE Inv == CoreInv /\ GhostInv /\ OneWriter /\ MemInv /\ CoolInv
<1>1. Init => Inv
  <2> SUFFICES ASSUME Init PROVE Inv
    OBVIOUS
  <2>1. CoreInv /\ GhostInv
    BY CoreInit, GhostInit
  <2>2. \A k \in Keys : ~Cached(k)
    BY DEF Init, Cached
  <2>3. OneWriter
    BY <2>2, StoreAssumption DEF Init, OneWriter, Alone, Idle, At
  <2>4. total = SumOf(size)
    BY <2>1, <2>2, EmptyMap DEF Init
  <2>5. CoolInv
    BY DEF Init, CoolInv
  <2> QED
    BY <2>1, <2>3, <2>4, <2>5 DEF MemInv
<1>2. Inv /\ [Next]_vars => Inv'
  BY CoreStep, GhostStep, OneWriterStep, MemStep, CoolStep
<1>3. ASSUME Inv, [Next]_vars, NEW w \in Writers, lock = w, lock' = Nobody,
             0 < MaxMemory, MaxMemory < total, overlap # "writes"
      PROVE  /\ small = << >> /\ main # << >>
             /\ overlap = "none" => \A k \in Range(main) : ~hot[k]
  <2>0. /\ Nobody \notin Writers /\ total # 0 /\ main \in Seq(Keys) /\ small \in Seq(Keys)
        /\ loop \in [Writers -> {"count", "memory"}] /\ left \in [Writers -> Nat]
    BY <1>3, StoreAssumption DEF CoreInv, CoreType
  <2>1. BetweenEvictions(w)
    <3>1. \A v \in Writers : pc[v] \in Evicting => v = w
      BY <1>3 DEF CoreInv, LockInv
    <3>2. lock' # lock /\ lock # Nobody
      BY <1>3, <2>0
    <3>3. ASSUME NEW v \in Writers, BetweenEvictions(v) PROVE BetweenEvictions(w)
      BY <3>1, <3>3, BetweenEffect DEF BetweenDoes, Evicting
    <3>4. ASSUME NEW v \in Writers, Store(v) \/ Admit(v) \/ PopSmall(v) \/ PopMain(v) PROVE FALSE
      BY <3>2, <3>4 DEF Store, Admit, Lock, PopSmall, PopMain
    <3>5. ASSUME NEW v \in Writers, EvictSmall(v) \/ EvictMain(v) \/ ClearTotal(v) \/ ClearQueues(v)
          PROVE  FALSE
      BY <3>2, <3>5 DEF EvictSmall, EvictMain, ClearTotal, ClearQueues
    <3>6. ASSUME NEW v \in Writers,
                 \/ ClearEntries(v) \/ EnforceMemoryLimit(v)
                 \/ \E k \in Keys : Remove(v, k) \/ \E s \in Sizes : CheckNew(v, k, s)
          PROVE  FALSE
      BY <3>2, <3>6 DEF ClearEntries, EnforceMemoryLimit, Remove, CheckNew, Lock
    <3>7. ASSUME (\E k \in Keys : Get(k)) \/ UNCHANGED vars PROVE FALSE
      BY <3>2, <3>7 DEF Get, vars
    <3> QED
      BY <1>3, <3>3, <3>4, <3>5, <3>6, <3>7 DEF Next, Step, BetweenEvictions
  <2>2. pc[w] \in {"test", "small", "main"}
    BY <2>1, BetweenEffect DEF BetweenDoes
  <2>3. Queued # {}
    BY <1>3, <2>0, <2>2, SomethingQueued
  <2>4. ~(small = << >> /\ main = << >>)
    BY <2>3 DEF Queued, Range
  <2>5. MainScanned(w) /\ left[w] = 0 /\ pc[w] = "main"
    <3>1. ~LoopEnds(w)
      BY <1>3, <2>0 DEF LoopEnds, LeaveLoop, Over
    <3>2. ~EvictOne(w)
      BY <1>3, <2>0, <2>4 DEF EvictOne, ScanMain
    <3>3. ~SmallScanned(w)
      BY <1>3, <2>0, <2>4 DEF SmallScanned, ScanMain
    <3> QED
      BY <2>1, <3>1, <3>2, <3>3 DEF BetweenEvictions, MainScanned, At
  <2>6. small = << >> /\ (overlap = "none" => Cooled(w))
    BY <1>3, <2>5 DEF CoolInv
  <2>7. ASSUME Cooled(w), NEW k \in Range(main) PROVE ~hot[k]
    <3>1. PICK i \in 1 .. Len(main) : main[i] = k
      BY <2>0, <2>7 DEF Range
    <3> QED
      BY <2>0, <2>5, <2>7, <3>1 DEF Cooled
  <2> QED
    BY <2>4, <2>6, <2>7
<1>4. Inv /\ [Next]_vars => [\A w \in Writers :
          lock = w /\ lock' = Nobody /\ 0 < MaxMemory /\ MaxMemory < total /\ overlap # "writes" =>
              /\ small = << >> /\ main # << >>
              /\ overlap = "none" => \A k \in Range(main) : ~hot[k]]_vars
  <2> HIDE DEF Inv
  <2> QED
    BY <1>3
<1> QED
  BY <1>1, <1>2, <1>4, PTL DEF Spec, GivesUpCooled

-----------------------------------------------------------------------------
(* The eviction loops end                                                  *)

\* The lexicographic order, spelled out.
LEMMA SmallerBy ==
    ASSUME NEW a1, NEW a2, NEW a3, NEW a4, NEW b1, NEW b2, NEW b3, NEW b4,
           \/ a1 < b1
           \/ a1 = b1 /\ a2 < b2
           \/ a1 = b1 /\ a2 = b2 /\ a3 < b3
           \/ a1 = b1 /\ a2 = b2 /\ a3 = b3 /\ a4 < b4
    PROVE  Smaller(<<a1, a2, a3, a4>>, <<b1, b2, b3, b4>>)
BY DEF Smaller

\* The stages of an eviction, in order.
LEMMA Stages ==
    /\ Stage["test"] = 3 /\ Stage["small"] = 2 /\ Stage["main"] = 1
    /\ Stage["small_victim"] = 0 /\ Stage["main_victim"] = 0
BY DEF Stage, Evicting, Victim

\* Every step of the lock's holder makes its variant smaller.
LEMMA HolderAdvances ==
    ASSUME CoreInv, NEW w \in Writers, lock = w, lock' = w, Step(w)
    PROVE  Smaller(Variant(w)', Variant(w))
<1>1. /\ pc[w] \in Evicting /\ Len(small) \in Nat /\ Len(main) \in Nat /\ left[w] \in Nat
      /\ pc \in [Writers -> Places] /\ left \in [Writers -> Nat]
      /\ loop \in [Writers -> {"count", "memory"}] /\ lock # Nobody
  BY StoreAssumption DEF CoreInv, CoreType, LockInv
<1> DEFINE a1 == IF loop[w] = "count" THEN 1 ELSE 0
           a2 == Len(small) + Len(main) + IF pc[w] \in Victim THEN 1 ELSE 0
           a3 == Stage[pc[w]]
           a4 == IF pc[w] = "small" THEN Len(small) ELSE left[w]
<1>0. ASSUME \/ a1' < a1
             \/ a1' = a1 /\ a2' < a2
             \/ a1' = a1 /\ a2' = a2 /\ a3' < a3
             \/ a1' = a1 /\ a2' = a2 /\ a3' = a3 /\ a4' < a4
      PROVE  Smaller(Variant(w)', Variant(w))
  BY <1>0, SmallerBy DEF Variant, At
<1>2. CASE BetweenEvictions(w)
  <2>0. BetweenDoes(w)
    BY <1>2, BetweenEffect
  <2>1. \/ a1' < a1
        \/ a1' = a1 /\ a2' = a2 /\ a3' < a3
    BY <1>1, <2>0, Stages, SMTT(30) DEF BetweenDoes, Victim
  <2> QED
    BY <1>0, <2>1
<1>3. CASE PopSmall(w)
  <2>0. PopSmallDoes(w)
    BY <1>3, PopSmallEffect
  <2>1. /\ pc[w] = "small" /\ loop' = loop /\ left' = left
         /\ Len(small') = Len(small) - 1
    BY <2>0 DEF PopSmallDoes
  <2>2. CASE pc' = pc /\ Len(main') = Len(main) + 1
    <3>1. a1' = a1 /\ a2' = a2 /\ a3' = a3 /\ a4' < a4
      BY <1>1, <2>1, <2>2 DEF Victim
    <3> QED
      BY <1>0, <3>1
  <2>3. CASE pc' = [pc EXCEPT ![w] = "small_victim"] /\ main' = main
    <3>1. a1' = a1 /\ a2' = a2 /\ a3' < a3
      BY <1>1, <2>1, <2>3, Stages DEF Victim
    <3> QED
      BY <1>0, <3>1
  <2> QED
    BY <2>0, <2>2, <2>3 DEF PopSmallDoes
<1>4. CASE PopMain(w)
  <2>0. PopMainDoes(w)
    BY <1>4, PopMainEffect
  <2>1. /\ pc[w] = "main" /\ loop' = loop /\ small' = small
         /\ left' = [left EXCEPT ![w] = left[w] - 1]
    BY <2>0 DEF PopMainDoes
  <2>2. CASE pc' = pc /\ Len(main') = Len(main)
    <3>1. a1' = a1 /\ a2' = a2 /\ a3' = a3 /\ a4' < a4
      BY <1>1, <2>1, <2>2 DEF Victim
    <3> QED
      BY <1>0, <3>1
  <2>3. CASE pc' = [pc EXCEPT ![w] = "main_victim"] /\ Len(main') = Len(main) - 1
    <3>1. a1' = a1 /\ a2' = a2 /\ a3' < a3
      BY <1>1, <2>1, <2>3, Stages DEF Victim
    <3> QED
      BY <1>0, <3>1
  <2> QED
    BY <2>0, <2>2, <2>3 DEF PopMainDoes
<1>5. CASE EvictSmall(w) \/ EvictMain(w)
  <2>0. EvictDoes(w)
    BY <1>5, EvictEffect
  <2>1. a1' = a1 /\ a2' < a2
    BY <1>1, <2>0 DEF EvictDoes, Victim
  <2> QED
    BY <1>0, <2>1
<1>6. CASE Store(w) \/ Admit(w) \/ ClearTotal(w) \/ ClearQueues(w)
  BY <1>1, <1>6 DEF Store, Admit, ClearTotal, ClearQueues, At, Evicting, Victim
<1> QED
  BY <1>2, <1>3, <1>4, <1>5, <1>6 DEF Step, BetweenEvictions

\* No other step touches it.
LEMMA OthersLeaveIt ==
    ASSUME CoreInv, NEW w \in Writers, lock = w, [Next]_vars, ~Step(w)
    PROVE  Variant(w)' = Variant(w)
<1> SUFFICES UNCHANGED <<small, main>> /\ pc'[w] = pc[w] /\ loop'[w] = loop[w] /\ left'[w] = left[w]
  BY DEF Variant, At
<1>1. /\ pc[w] \in Evicting /\ ~Idle(w) /\ lock # Nobody
      /\ \A v \in Writers : pc[v] \in Evicting => v = w
      /\ pc \in [Writers -> Places] /\ left \in [Writers -> Nat]
      /\ loop \in [Writers -> {"count", "memory"}]
  BY StoreAssumption DEF CoreInv, CoreType, LockInv, Idle, At, Evicting, Victim
<1>2. CASE \E k \in Keys : Get(k)
  BY <1>2 DEF Get, queues
<1>3. ASSUME NEW v \in Writers, Step(v)
      PROVE  UNCHANGED <<small, main>> /\ pc'[w] = pc[w] /\ loop'[w] = loop[w] /\ left'[w] = left[w]
  <2>1. v # w /\ pc[v] \notin Evicting
    BY <1>1, <1>3
  <2>2. Store(v) \/ ClearTotal(v)
    BY <1>1, <1>3, <2>1 DEF Step, Admit, Lock, ClearQueues, EvictOne, LoopEnds, PopSmall, 
      SmallScanned, EvictSmall, PopMain, EvictMain, MainScanned, At, Evicting, Victim
  <2>3. CASE Store(v)
    BY <1>1, <2>1, <2>3, StoreEffect DEF StoreDoes
  <2>4. CASE ClearTotal(v)
    BY <1>1, <2>1, <2>4 DEF ClearTotal, Goto, queues
  <2> QED
    BY <2>2, <2>3, <2>4
<1>4. ASSUME NEW v \in Writers, NEW k \in Keys, Remove(v, k) \/ \E s \in Sizes : CheckNew(v, k, s)
      PROVE  UNCHANGED <<small, main>> /\ pc'[w] = pc[w] /\ loop'[w] = loop[w] /\ left'[w] = left[w]
  BY <1>1, <1>4 DEF Remove, CheckNew, Begin, Goto, queues
<1>5. ASSUME NEW v \in Writers, EnforceMemoryLimit(v) \/ ClearEntries(v)
      PROVE  UNCHANGED <<small, main>> /\ pc'[w] = pc[w] /\ loop'[w] = loop[w] /\ left'[w] = left[w]
  BY <1>1, <1>5 DEF EnforceMemoryLimit, ClearEntries, Begin, Lock, Goto, queues
<1>6. CASE UNCHANGED vars
  BY <1>6 DEF vars, queues
<1> QED
  BY <1>2, <1>3, <1>4, <1>5, <1>6 DEF Next

\* The eviction loops end, for any capacity, any number of keys and any interference.
THEOREM EvictionTerminates == Spec => EvictionEnds
<1>1. CoreInv /\ [Next]_vars =>
        [\A w \in Writers : lock = w /\ lock' = w =>
            IF Step(w) THEN Smaller(Variant(w)', Variant(w)) ELSE Variant(w)' = Variant(w)]_vars
  BY HolderAdvances, OthersLeaveIt
<1> QED
  BY <1>1, CoreInit, CoreStep, PTL DEF Spec, EvictionEnds

Measures == Nat \X Nat \X Nat \X Nat

\* The measure is well founded: of any measures some is smallest, so that none can
\* fall for ever.
LEMMA SmallestMeasure ==
    ASSUME NEW T \in SUBSET Measures, T # {}
    PROVE  \E m \in T : \A x \in T : ~Smaller(x, m)
<1> DEFINE Nth(U, i) == {x[i] : x \in U}
           Least(U, i, n) == {x \in U : x[i] = n}
<1>1. ASSUME NEW U \in SUBSET T, U # {}, NEW i \in 1 .. 4
      PROVE  \E n \in Nat : Least(U, i, n) # {} /\ \A x \in U : n <= x[i]
  <2>1. \A x \in U : x[i] \in Nat
    BY DEF Measures
  <2>2. Nth(U, i) \in SUBSET Nat /\ Nth(U, i) # {}
    BY <1>1, <2>1
  <2>3. PICK n \in Nth(U, i) : \A m \in Nth(U, i) : n <= m
    <3> HIDE DEF Nth
    <3> QED
      BY <2>2, LeastNumber
  <2> QED
    BY <2>1, <2>3
<1>2. PICK a \in Nat : Least(T, 1, a) # {} /\ \A x \in T : a <= x[1]
  <2>1. T \in SUBSET T /\ T # {} /\ 1 \in 1 .. 4
    OBVIOUS
  <2> HIDE DEF Least
  <2> QED
    BY <1>1, <2>1
<1> DEFINE A == Least(T, 1, a)
<1>3. PICK b \in Nat : Least(A, 2, b) # {} /\ \A x \in A : b <= x[2]
  <2>1. A \in SUBSET T /\ A # {} /\ 2 \in 1 .. 4
    BY <1>2
  <2> HIDE DEF Least, A
  <2> QED
    BY <1>1, <2>1
<1> DEFINE B == Least(A, 2, b)
<1>4. PICK c \in Nat : Least(B, 3, c) # {} /\ \A x \in B : c <= x[3]
  <2>1. B \in SUBSET T /\ B # {} /\ 3 \in 1 .. 4
    BY <1>3
  <2> HIDE DEF Least, B
  <2> QED
    BY <1>1, <2>1
<1> DEFINE C == Least(B, 3, c)
<1>5. PICK d \in Nat : Least(C, 4, d) # {} /\ \A x \in C : d <= x[4]
  <2>1. C \in SUBSET T /\ C # {} /\ 4 \in 1 .. 4
    BY <1>4
  <2> HIDE DEF Least, C
  <2> QED
    BY <1>1, <2>1
<1>6. PICK m \in T : m[1] = a /\ m[2] = b /\ m[3] = c /\ m[4] = d
  BY <1>5
<1>7. ASSUME NEW x \in T, Smaller(x, m) PROVE FALSE
  <2>1. x[1] \in Nat /\ x[2] \in Nat /\ x[3] \in Nat /\ x[4] \in Nat
    BY DEF Measures
  <2>2. \/ x[1] < a
        \/ x[1] = a /\ x[2] < b
        \/ x[1] = a /\ x[2] = b /\ x[3] < c
        \/ x[1] = a /\ x[2] = b /\ x[3] = c /\ x[4] < d
    <3>1. PICK i \in 1 .. 4 : x[i] < m[i] /\ \A j \in 1 .. i - 1 : x[j] = m[j]
      BY <1>7 DEF Smaller
    <3>2. i = 1 \/ i = 2 \/ i = 3 \/ i = 4
      OBVIOUS
    <3> QED
      BY <1>6, <3>1, <3>2
  <2>3. a <= x[1] /\ (x[1] = a => b <= x[2])
    BY <1>2, <1>3
  <2>4. x[1] = a /\ x[2] = b => c <= x[3]
    BY <1>4
  <2>5. x[1] = a /\ x[2] = b /\ x[3] = c => d <= x[4]
    BY <1>5
  <2> QED
    BY <2>1, <2>2, <2>3, <2>4, <2>5
<1> QED
  BY <1>7

\* The eviction loops cannot go on for ever: the measure of the lock's holder is one
\* of a well-founded order, and EvictionEnds says that its steps make it smaller.
THEOREM LoopsAreMeasured ==
    /\ Spec => [](\A w \in Writers : lock = w => Variant(w) \in Measures)
    /\ \A T \in SUBSET Measures : T # {} => \E m \in T : \A x \in T : ~Smaller(x, m)
<1>1. CoreInv => \A w \in Writers : lock = w => Variant(w) \in Measures
  <2> SUFFICES ASSUME CoreInv, NEW w \in Writers, lock = w PROVE Variant(w) \in Measures
    OBVIOUS
  <2>1. Len(small) \in Nat /\ Len(main) \in Nat /\ left[w] \in Nat /\ pc[w] \in Evicting
    BY DEF CoreInv, CoreType, LockInv
  <2>2. Stage[pc[w]] \in Nat
    BY <2>1, Stages DEF Evicting, Victim
  <2> QED
    BY <2>1, <2>2 DEF Variant, At, Measures
<1>2. Spec => [](\A w \in Writers : lock = w => Variant(w) \in Measures)
  BY <1>1, CoreInit, CoreStep, PTL DEF Spec
<1> QED
  BY <1>2, SmallestMeasure
=============================================================================
