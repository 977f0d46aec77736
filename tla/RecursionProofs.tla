-------------------------- MODULE RecursionProofs ---------------------------
(***************************************************************************)
(* Recursive functions whose value at n depends on their value at one      *)
(* place before n: the labels of a key one after the other (Search,        *)
(* Lookup), a chain of parent pointers (GetSoaZone, GetDomainName), the    *)
(* parts of a list (FlattenSeq).  Everything is stated with functions and  *)
(* sets, so that it can be cited for any of them.                          *)
(***************************************************************************)
EXTENDS Integers, TLAPS, SequencesExt, SequenceTheorems, WellFoundedInduction

\* A non-empty set of natural numbers has a least element.
LEMMA LeastElement ==
    ASSUME NEW T, T \subseteq Nat, T # {}
    PROVE  \E x \in T : \A y \in T : x <= y
<1>1. PICK x \in T : \A y \in T : ~(<<y, x>> \in OpToRel(<, Nat))
  BY NatLessThanWellFounded, WFMin
<1>2. ASSUME NEW h \in Nat, NEW i \in Nat, h < i PROVE <<h, i>> \in OpToRel(<, Nat)
  BY <1>2, Zenon DEF OpToRel
<1>3. \A y \in T : ~(y < x)
  BY <1>1, <1>2
<1> QED  BY <1>3

\* Induction, with the set of the numbers that have the property.
LEMMA SetInduction ==
    ASSUME NEW T, 0 \in T, \A n \in Nat : n \in T => n + 1 \in T
    PROVE  Nat \subseteq T
<1> SUFFICES ASSUME Nat \ T # {} PROVE FALSE
  OBVIOUS
<1>1. PICK x \in Nat \ T : \A y \in Nat \ T : x <= y
  <2> DEFINE S == Nat \ T
  <2>1. S \subseteq Nat /\ S # {}
    OBVIOUS
  <2> HIDE DEF S
  <2>2. PICK x \in S : \A y \in S : x <= y
    BY <2>1, LeastElement
  <2> QED  BY <2>2 DEF S
<1>2. x # 0 /\ x - 1 \in Nat
  BY <1>1
<1>3. x - 1 \in T
  BY <1>1, <1>2
<1> QED  BY <1>1, <1>2, <1>3

\* The same up to a bound.
LEMMA BoundedInduction ==
    ASSUME NEW T, NEW N \in Nat, 0 \in T, \A n \in 1..N : n - 1 \in T => n \in T
    PROVE  0..N \subseteq T
<1> DEFINE U == {n \in Nat : n <= N => n \in T}
<1>1. 0 \in U
  OBVIOUS
<1>2. \A n \in Nat : n \in U => n + 1 \in U
  OBVIOUS
<1>3. Nat \subseteq U
  <2> HIDE DEF U
  <2> QED  BY <1>1, <1>2, SetInduction
<1> QED  BY <1>3

-----------------------------------------------------------------------------
(* A recursion r: at n, one of r.start, f is r.first[n], elsewhere it is   *)
(* r.next[n, f[r.prev[n]]].  As r.rank goes down along r.prev, there is    *)
(* such a function.                                                        *)

Obeys(f, n, r) == f[n] = IF n \in r.start THEN r.first[n] ELSE r.next[<<n, f[r.prev[n]]>>]

ObeysUpTo(f, k, r) == \A n \in r.dom : r.rank[n] <= k => Obeys(f, n, r)

IsRecursion(r) ==
    /\ r.start \subseteq r.dom
    /\ r.rank \in [r.dom -> Nat]
    /\ \A n \in r.dom \ r.start : r.prev[n] \in r.dom /\ r.rank[r.prev[n]] < r.rank[n]
    /\ r.type # {}
    /\ r.first \in [r.start -> r.type]
    /\ r.next \in [(r.dom \ r.start) \X r.type -> r.type]

\* Two functions that obey the recursion up to a rank are the same up to it.
LEMMA RecursionUnique ==
    ASSUME NEW r, IsRecursion(r), NEW k \in Nat,
           NEW f, ObeysUpTo(f, k, r), NEW g, ObeysUpTo(g, k, r)
    PROVE  \A n \in r.dom : r.rank[n] <= k => f[n] = g[n]
<1> DEFINE T == {i \in Nat : \A n \in r.dom : r.rank[n] <= i /\ r.rank[n] <= k => f[n] = g[n]}
<1>1. \A n \in r.dom : r.rank[n] \in Nat
  BY DEF IsRecursion
<1>2. ASSUME NEW n \in r.dom, r.rank[n] <= k, n \notin r.start => f[r.prev[n]] = g[r.prev[n]]
      PROVE  f[n] = g[n]
  BY <1>2 DEF Obeys, ObeysUpTo
<1>3. 0 \in T
  <2>1. \A n \in r.dom : r.rank[n] <= 0 => n \in r.start
    BY <1>1 DEF IsRecursion
  <2> QED  BY <1>2, <2>1
<1>4. ASSUME NEW i \in Nat, i \in T PROVE i + 1 \in T
  <2> SUFFICES ASSUME NEW n \in r.dom, r.rank[n] <= i + 1, r.rank[n] <= k PROVE f[n] = g[n]
    OBVIOUS
  <2>1. n \notin r.start =>
            r.prev[n] \in r.dom /\ r.rank[r.prev[n]] <= i /\ r.rank[r.prev[n]] <= k
    BY <1>1 DEF IsRecursion
  <2> QED  BY <1>2, <1>4, <2>1
<1>5. Nat \subseteq T
  <2> HIDE DEF T
  <2> QED  BY <1>3, <1>4, SetInduction
<1> QED  BY <1>1, <1>5

\* There is a function that obeys the recursion up to any rank.
LEMMA RecursionUpTo ==
    ASSUME NEW r, IsRecursion(r), NEW k \in Nat
    PROVE  \E f \in [r.dom -> r.type] : ObeysUpTo(f, k, r)
<1> DEFINE T == {i \in Nat : \E f \in [r.dom -> r.type] : ObeysUpTo(f, i, r)}
<1>1. \A n \in r.dom : r.rank[n] \in Nat
  BY DEF IsRecursion
<1>2. 0 \in T
  <2>1. PICK s \in r.type : TRUE
    BY DEF IsRecursion
  <2> DEFINE f == [n \in r.dom |-> IF n \in r.start THEN r.first[n] ELSE s]
  <2>2. f \in [r.dom -> r.type]
    BY DEF IsRecursion
  <2>3. \A n \in r.dom : r.rank[n] <= 0 => n \in r.start
    BY <1>1 DEF IsRecursion
  <2>4. ObeysUpTo(f, 0, r)
    BY <2>3 DEF Obeys, ObeysUpTo
  <2> HIDE DEF f
  <2> QED  BY <2>2, <2>4
<1>3. ASSUME NEW i \in Nat, i \in T PROVE i + 1 \in T
  <2>1. PICK f \in [r.dom -> r.type] : ObeysUpTo(f, i, r)
    BY <1>3
  <2> DEFINE g == [n \in r.dom |-> IF n \in r.start THEN r.first[n]
                                   ELSE r.next[<<n, f[r.prev[n]]>>]]
  <2>2. g \in [r.dom -> r.type]
    BY DEF IsRecursion
  <2>3. \A n \in r.dom : r.rank[n] <= i => g[n] = f[n]
    BY <2>1 DEF Obeys, ObeysUpTo
  <2>4. ASSUME NEW n \in r.dom, r.rank[n] <= i + 1 PROVE Obeys(g, n, r)
    <3>1. n \notin r.start => r.prev[n] \in r.dom /\ r.rank[r.prev[n]] <= i
      BY <1>1, <2>4 DEF IsRecursion
    <3>2. n \notin r.start => g[r.prev[n]] = f[r.prev[n]]
      BY <2>3, <3>1
    <3> QED  BY <3>2 DEF Obeys
  <2> HIDE DEF g
  <2> QED  BY <2>2, <2>4 DEF ObeysUpTo
<1>4. Nat \subseteq T
  <2> HIDE DEF T
  <2> QED  BY <1>2, <1>3, SetInduction
<1> QED  BY <1>4

\* There is a function that obeys the recursion everywhere.
LEMMA RecursionExists ==
    ASSUME NEW r, IsRecursion(r)
    PROVE  \E f \in [r.dom -> r.type] : \A n \in r.dom : Obeys(f, n, r)
<1> DEFINE at == [k \in Nat |-> CHOOSE f \in [r.dom -> r.type] : ObeysUpTo(f, k, r)]
           f == [n \in r.dom |-> at[r.rank[n]][n]]
<1>1. \A n \in r.dom : r.rank[n] \in Nat
  BY DEF IsRecursion
<1>2. \A k \in Nat : at[k] \in [r.dom -> r.type] /\ ObeysUpTo(at[k], k, r)
  <2> TAKE k \in Nat
  <2>1. \E g \in [r.dom -> r.type] : ObeysUpTo(g, k, r)
    BY RecursionUpTo
  <2> QED  BY <2>1
<1> HIDE DEF at
<1>3. f \in [r.dom -> r.type]
  BY <1>1, <1>2
<1>4. ASSUME NEW n \in r.dom PROVE Obeys(f, n, r)
  <2>1. Obeys(at[r.rank[n]], n, r)
    BY <1>1, <1>2 DEF ObeysUpTo
  <2>2. CASE n \in r.start
    BY <2>1, <2>2 DEF Obeys
  <2>3. CASE n \notin r.start
    <3> DEFINE m == r.prev[n]
               k == r.rank[m]
               u == at[r.rank[n]]
               v == at[k]
    <3>1. m \in r.dom /\ k < r.rank[n] /\ k \in Nat /\ r.rank[n] \in Nat
      BY <1>1, <2>3 DEF IsRecursion
    <3>2. ObeysUpTo(u, k, r) /\ ObeysUpTo(v, k, r)
      BY <1>1, <1>2, <3>1 DEF ObeysUpTo
    <3>3. u[m] = v[m]
      <4> HIDE DEF u, v
      <4> QED  BY <3>1, <3>2, RecursionUnique
    <3> QED  BY <2>1, <2>3, <3>1, <3>3 DEF Obeys
  <2> QED  BY <2>2, <2>3
<1> HIDE DEF f
<1> QED  BY <1>3, <1>4

\* A function that obeys the recursion wherever it is known to have the type before,
\* has the type everywhere.
LEMMA RecursionTyped ==
    ASSUME NEW r, IsRecursion(r), NEW f,
           \A n \in r.dom : n \in r.start => f[n] = r.first[n],
           \A n \in r.dom \ r.start :
                f[r.prev[n]] \in r.type => f[n] = r.next[<<n, f[r.prev[n]]>>]
    PROVE  \A n \in r.dom : f[n] \in r.type
<1> DEFINE T == {i \in Nat : \A n \in r.dom : r.rank[n] <= i => f[n] \in r.type}
<1>1. \A n \in r.dom : r.rank[n] \in Nat
  BY DEF IsRecursion
<1>2. \A n \in r.start : f[n] \in r.type
  BY DEF IsRecursion
<1>3. 0 \in T
  <2>1. \A n \in r.dom : r.rank[n] <= 0 => n \in r.start
    BY <1>1 DEF IsRecursion
  <2> QED  BY <1>2, <2>1
<1>4. ASSUME NEW i \in Nat, i \in T PROVE i + 1 \in T
  <2> SUFFICES ASSUME NEW n \in r.dom, r.rank[n] <= i + 1, n \notin r.start
               PROVE  f[n] \in r.type
    BY <1>2
  <2>1. r.prev[n] \in r.dom /\ r.rank[r.prev[n]] <= i
    BY <1>1 DEF IsRecursion
  <2>2. f[r.prev[n]] \in r.type
    BY <1>4, <2>1
  <2>3. f[n] = r.next[<<n, f[r.prev[n]]>>]
    BY <2>2
  <2> QED  BY <2>2, <2>3 DEF IsRecursion
<1>5. Nat \subseteq T
  <2> HIDE DEF T
  <2> QED  BY <1>3, <1>4, SetInduction
<1> QED  BY <1>1, <1>5

\* A recursion that counts up from 0 to N, with values in T.
IsStep(g, N, T) == g \in [(1..N) \X T -> T]

Steps(f, N, T, base, g) ==
    f \in [0..N -> T] /\ f[0] = base /\ \A i \in 1..N : f[i] = g[<<i, f[i - 1]>>]

\* There is a function that counts up.
LEMMA CountingUp ==
    ASSUME NEW N \in Nat, NEW T, NEW base \in T, NEW g, IsStep(g, N, T)
    PROVE  \E f : Steps(f, N, T, base, g)
<1> DEFINE r == [dom |-> 0..N, start |-> {0}, type |-> T,
                 rank |-> [i \in 0..N |-> i], prev |-> [i \in 0..N |-> i - 1],
                 first |-> [i \in {0} |-> base], next |-> g]
<1>1. IsRecursion(r)
  <2>1. r.rank \in [r.dom -> Nat] /\ r.start \subseteq r.dom
    OBVIOUS
  <2>2. \A n \in r.dom \ r.start : r.prev[n] \in r.dom /\ r.rank[r.prev[n]] < r.rank[n]
    OBVIOUS
  <2>3. r.type # {} /\ r.first \in [r.start -> r.type]
    OBVIOUS
  <2>4. r.next \in [(r.dom \ r.start) \X r.type -> r.type]
    <3>1. (0..N) \ {0} = 1..N
      OBVIOUS
    <3> QED  BY <3>1 DEF IsStep
  <2> HIDE DEF r
  <2> QED  BY <2>1, <2>2, <2>3, <2>4 DEF IsRecursion
<1>2. PICK f \in [0..N -> T] : \A n \in 0..N : Obeys(f, n, r)
  <2>1. r.dom = 0..N /\ r.type = T
    OBVIOUS
  <2> HIDE DEF r
  <2> QED  BY <1>1, <2>1, RecursionExists
<1>3. f[0] = base
  <2>1. 0 \in 0..N
    OBVIOUS
  <2>2. Obeys(f, 0, r)
    <3> HIDE DEF r
    <3> QED  BY <1>2, <2>1
  <2> QED  BY <2>2 DEF Obeys
<1>4. \A i \in 1..N : f[i] = g[<<i, f[i - 1]>>]
  BY <1>2 DEF Obeys
<1> QED  BY <1>2, <1>3, <1>4 DEF Steps

-----------------------------------------------------------------------------
(* FlattenSeq.                                                             *)

\* The first i parts of a list put together are f[i].
Flattens(f, seqs, S) ==
    /\ f \in [1..Len(seqs) -> Seq(S)]
    /\ \A i \in 1..Len(seqs) : f[i] = IF i = 1 THEN seqs[i] ELSE f[i - 1] \o seqs[i]
    /\ FlattenSeq(seqs) = f[Len(seqs)]

\* FlattenSeq puts one part after the other.
LEMMA FlattenSteps ==
    ASSUME NEW S, NEW seqs \in Seq(Seq(S)), Len(seqs) # 0
    PROVE  \E f : Flattens(f, seqs, S)
<1> DEFINE N == Len(seqs)
           Def(f) == [i \in 1..N |-> IF i = 1 THEN seqs[i] ELSE f[i - 1] \o seqs[i]]
           flatten == CHOOSE f : f = Def(f)
           r == [dom |-> 1..N, start |-> {i \in 1..N : i = 1}, type |-> Seq(S),
                 rank |-> [i \in 1..N |-> i], prev |-> [i \in 1..N |-> i - 1],
                 first |-> [i \in {i \in 1..N : i = 1} |-> seqs[i]],
                 next |-> [x \in (1..N \ {i \in 1..N : i = 1}) \X Seq(S) |->
                             x[2] \o seqs[x[1]]]]
<1>1. N \in Nat /\ \A i \in 1..N : seqs[i] \in Seq(S)
  BY LenProperties, ElementOfSeq
<1>2. IsRecursion(r)
  <2>1. r.rank \in [r.dom -> Nat] /\ r.start \subseteq r.dom
    BY <1>1
  <2>2. \A n \in r.dom \ r.start : r.prev[n] \in r.dom /\ r.rank[r.prev[n]] < r.rank[n]
    BY <1>1
  <2>3. r.type # {} /\ r.first \in [r.start -> r.type]
    BY <1>1, EmptySeq
  <2>4. r.next \in [(r.dom \ r.start) \X r.type -> r.type]
    BY <1>1, ConcatProperties
  <2> HIDE DEF r
  <2> QED  BY <2>1, <2>2, <2>3, <2>4 DEF IsRecursion
<1>3. \E f : f = Def(f)
  <2>1. PICK f \in [1..N -> Seq(S)] : \A n \in 1..N : Obeys(f, n, r)
    <3>1. r.dom = 1..N /\ r.type = Seq(S)
      OBVIOUS
    <3> HIDE DEF r
    <3> QED  BY <1>2, <3>1, RecursionExists
  <2>2. \A n \in 1..N : f[n] = IF n = 1 THEN seqs[n] ELSE f[n - 1] \o seqs[n]
    <3> TAKE n \in 1..N
    <3>1. CASE n = 1
      BY <2>1, <3>1 DEF Obeys
    <3>2. CASE n # 1
      <4>1. n - 1 \in 1..N
        BY <1>1, <3>2
      <4>2. f[n - 1] \in Seq(S)
        BY <4>1
      <4> QED  BY <2>1, <3>2, <4>1, <4>2 DEF Obeys
    <3> QED  BY <3>1, <3>2
  <2>3. f = Def(f)
    BY <2>2
  <2> HIDE DEF Def
  <2> QED  BY <2>3
<1>4. flatten = Def(flatten)
  <2> HIDE DEF Def
  <2> QED  BY <1>3
<1>5. \A i \in 1..N : flatten[i] = IF i = 1 THEN seqs[i] ELSE flatten[i - 1] \o seqs[i]
  <2> HIDE DEF flatten
  <2> QED  BY <1>4
<1>6. FlattenSeq(seqs) = flatten[N]
  BY DEF FlattenSeq
<1> HIDE DEF flatten
<1>7. \A i \in 1..N : flatten[i] \in Seq(S)
  <2> DEFINE T == {i \in 0..N : i # 0 => flatten[i] \in Seq(S)}
  <2>1. 0 \in T
    BY <1>1
  <2>2. ASSUME NEW n \in 1..N, n - 1 \in T PROVE n \in T
    <3>1. CASE n = 1
      BY <1>1, <1>5, <3>1
    <3>2. CASE n # 1
      <4>1. n - 1 # 0 /\ flatten[n - 1] \in Seq(S) /\ seqs[n] \in Seq(S)
        BY <1>1, <2>2, <3>2
      <4>2. flatten[n] = flatten[n - 1] \o seqs[n]
        BY <1>5, <3>2
      <4>3. flatten[n] \in Seq(S)
        BY <4>1, <4>2, ConcatProperties
      <4> QED  BY <1>1, <4>3
    <3> QED  BY <3>1, <3>2
  <2>3. 0..N \subseteq T
    <3> HIDE DEF T
    <3> QED  BY <1>1, <2>1, <2>2, BoundedInduction
  <2>4. \A i \in 1..N : i \in 0..N /\ i # 0
    BY <1>1
  <2> QED  BY <2>3, <2>4
<1> DEFINE g == [i \in 1..N |-> flatten[i]]
<1>8. \A i \in 1..N : i # 1 => i - 1 \in 1..N
  BY <1>1
<1>9. N \in 1..N
  BY <1>1
<1>10. /\ g \in [1..N -> Seq(S)]
       /\ \A i \in 1..N : g[i] = flatten[i]
  BY <1>7
<1>11. \A i \in 1..N : g[i] = IF i = 1 THEN seqs[i] ELSE g[i - 1] \o seqs[i]
  BY <1>5, <1>8, <1>10
<1> HIDE DEF g
<1>12. Flattens(g, seqs, S)
  BY <1>6, <1>9, <1>10, <1>11 DEF Flattens
<1> QED  BY <1>12

\* The parts of a list put together are a list of the same things.
LEMMA FlattenType ==
    ASSUME NEW S, NEW seqs \in Seq(Seq(S))
    PROVE  FlattenSeq(seqs) \in Seq(S)
<1>1. CASE Len(seqs) = 0
  BY <1>1, EmptySeq DEF FlattenSeq
<1>2. CASE Len(seqs) # 0
  <2>1. PICK f : Flattens(f, seqs, S)
    BY <1>2, FlattenSteps
  <2>2. Len(seqs) \in 1..Len(seqs)
    BY <1>2, LenProperties
  <2> QED  BY <2>1, <2>2 DEF Flattens
<1> QED  BY <1>1, <1>2

-----------------------------------------------------------------------------
(* What a list holds, whatever the order.                                  *)

\* The elements of a list are of its type.
LEMMA RangeType ==
    ASSUME NEW S, NEW s \in Seq(S)
    PROVE  Range(s) = {s[i] : i \in 1..Len(s)} /\ Range(s) \subseteq S
<1>1. DOMAIN s = 1..Len(s)
  BY LenProperties
<1>2. \A i \in 1..Len(s) : s[i] \in S
  BY ElementOfSeq
<1> QED  BY <1>1, <1>2 DEF Range

\* Two lists one after the other hold what both hold.
LEMMA RangeConcat ==
    ASSUME NEW S, NEW s \in Seq(S), NEW t \in Seq(S)
    PROVE  Range(s \o t) = Range(s) \cup Range(t)
<1>1. s \o t \in Seq(S) /\ Len(s \o t) = Len(s) + Len(t) /\ Len(s) \in Nat /\ Len(t) \in Nat
  BY ConcatProperties, LenProperties
<1>2. \A i \in 1..Len(s) : (s \o t)[i] = s[i]
  BY ConcatProperties
<1>3. \A i \in 1..Len(t) : (s \o t)[Len(s) + i] = t[i]
  BY <1>1
<1>4. ASSUME NEW i \in 1..Len(s \o t) PROVE (s \o t)[i] \in Range(s) \cup Range(t)
  <2>1. CASE i \in 1..Len(s)
    BY <1>2, <2>1, RangeType
  <2>2. CASE i \notin 1..Len(s)
    <3>1. i - Len(s) \in 1..Len(t) /\ Len(s) + (i - Len(s)) = i
      BY <1>1, <2>2
    <3>2. (s \o t)[i] = t[i - Len(s)]
      BY <1>3, <3>1
    <3> QED  BY <3>1, <3>2, RangeType
  <2> QED  BY <2>1, <2>2
<1>5. \A i \in 1..Len(s) : s[i] \in Range(s \o t)
  <2>1. \A i \in 1..Len(s) : i \in 1..Len(s \o t)
    BY <1>1
  <2>2. Range(s \o t) = {(s \o t)[i] : i \in 1..Len(s \o t)}
    BY <1>1, RangeType
  <2> QED  BY <1>2, <2>1, <2>2
<1>6. \A i \in 1..Len(t) : t[i] \in Range(s \o t)
  <2>1. \A i \in 1..Len(t) : Len(s) + i \in 1..Len(s \o t)
    BY <1>1
  <2>2. Range(s \o t) = {(s \o t)[i] : i \in 1..Len(s \o t)}
    BY <1>1, RangeType
  <2> QED  BY <1>3, <2>1, <2>2
<1>7. Range(s \o t) \subseteq Range(s) \cup Range(t)
  <2>1. Range(s \o t) = {(s \o t)[i] : i \in 1..Len(s \o t)}
    BY <1>1, RangeType
  <2> QED  BY <1>4, <2>1
<1>8. Range(s) \subseteq Range(s \o t)
  BY <1>5, RangeType
<1>9. Range(t) \subseteq Range(s \o t)
  BY <1>6, RangeType
<1> QED  BY <1>7, <1>8, <1>9

\* A list holds its head and what its tail holds.
LEMMA RangeHeadTail ==
    ASSUME NEW S, NEW s \in Seq(S), s # << >>
    PROVE  Range(s) = {Head(s)} \cup Range(Tail(s))
<1> DEFINE first == <<Head(s)>>
           rest == Tail(s)
<1>1. first \in Seq(S) /\ rest \in Seq(S) /\ s = first \o rest
  BY HeadTailProperties
<1>2. Range(first) = {Head(s)}
  BY DEF Range
<1> HIDE DEF first
<1>3. Range(first \o rest) = Range(first) \cup Range(rest)
  <2> HIDE DEF rest
  <2> QED  BY <1>1, RangeConcat
<1> QED  BY <1>1, <1>2, <1>3

\* One more element at the end.
LEMMA RangeAppend ==
    ASSUME NEW S, NEW s \in Seq(S), NEW x \in S
    PROVE  Range(Append(s, x)) = Range(s) \cup {x}
<1> DEFINE last == <<x>>
<1>1. Append(s, x) = s \o last /\ last \in Seq(S)
  OBVIOUS
<1>2. Range(last) = {x}
  BY DEF Range
<1> HIDE DEF last
<1>3. Range(s \o last) = Range(s) \cup Range(last)
  BY <1>1, RangeConcat
<1> QED  BY <1>1, <1>2, <1>3

\* Parts put together hold what the parts hold.
LEMMA RangeFlatten ==
    ASSUME NEW S, NEW seqs \in Seq(Seq(S))
    PROVE  Range(FlattenSeq(seqs)) = UNION {Range(seqs[i]) : i \in 1..Len(seqs)}
<1> DEFINE N == Len(seqs)
           upTo == [k \in 0..N |-> UNION {Range(seqs[i]) : i \in 1..k}]
<1>1. N \in Nat /\ \A i \in 1..N : seqs[i] \in Seq(S)
  BY LenProperties, ElementOfSeq
<1>2. CASE N = 0
  <2>1. FlattenSeq(seqs) = << >>
    BY <1>2, EmptySeq DEF FlattenSeq
  <2>2. Range(<< >>) = {}
    BY DEF Range
  <2> QED  BY <1>2, <2>1, <2>2
<1>3. CASE N # 0
  <2>1. PICK f : Flattens(f, seqs, S)
    BY <1>3, FlattenSteps
  <2>2. /\ \A i \in 1..N : f[i] \in Seq(S)
        /\ \A i \in 1..N : f[i] = IF i = 1 THEN seqs[i] ELSE f[i - 1] \o seqs[i]
        /\ FlattenSeq(seqs) = f[N]
    BY <2>1 DEF Flattens
  <2> DEFINE T == {i \in 0..N : i # 0 => Range(f[i]) = upTo[i]}
  <2>3. 0 \in T
    BY <1>1
  <2>4. ASSUME NEW k \in 1..N, k - 1 \in T PROVE k \in T
    <3>1. k \in 0..N /\ k - 1 \in 0..N /\ seqs[k] \in Seq(S)
      BY <1>1
    <3>2. upTo[k] = upTo[k - 1] \cup Range(seqs[k])
      <4>1. 1..k = 1..(k - 1) \cup {k}
        BY <3>1
      <4>2. /\ upTo[k] = UNION {Range(seqs[i]) : i \in 1..k}
            /\ upTo[k - 1] = UNION {Range(seqs[i]) : i \in 1..(k - 1)}
        BY <3>1
      <4> HIDE DEF upTo
      <4> QED  BY <4>1, <4>2
    <3>3. CASE k = 1
      <4>1. upTo[k - 1] = {}
        <5>1. k - 1 = 0 /\ 1..0 = {}
          BY <3>3
        <5> QED  BY <3>1, <5>1
      <4>2. f[k] = seqs[k]
        BY <2>2, <3>3
      <4> HIDE DEF upTo
      <4> QED  BY <3>1, <3>2, <4>1, <4>2
    <3>4. CASE k # 1
      <4>1. k - 1 \in 1..N
        BY <3>1, <3>4
      <4>2. f[k - 1] \in Seq(S) /\ f[k] = f[k - 1] \o seqs[k]
        BY <2>2, <3>4, <4>1
      <4>3. Range(f[k]) = Range(f[k - 1]) \cup Range(seqs[k])
        BY <3>1, <4>2, RangeConcat
      <4>4. Range(f[k - 1]) = upTo[k - 1]
        BY <2>4, <4>1
      <4> HIDE DEF upTo
      <4> QED  BY <3>1, <3>2, <4>3, <4>4
    <3> QED  BY <3>3, <3>4
  <2>5. 0..N \subseteq T
    <3> HIDE DEF T, N
    <3> QED  BY <1>1, <2>3, <2>4, BoundedInduction
  <2>6. N \in 0..N
    BY <1>1
  <2>7. Range(f[N]) = upTo[N]
    <3>1. N \in T
      BY <2>5, <2>6
    <3> HIDE DEF upTo, N
    <3> QED  BY <1>3, <3>1
  <2> QED  BY <2>2, <2>6, <2>7
<1> QED  BY <1>2, <1>3
=============================================================================
