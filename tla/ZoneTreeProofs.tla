--------------------------- MODULE ZoneTreeProofs ---------------------------
(***************************************************************************)
(* Lemmas about the algorithms of ZoneTree, for all trees and names: what  *)
(* Search finds, where the parent pointers lead after any edit, and what   *)
(* GetDomainName and LookupName make of them.                              *)
(***************************************************************************)
EXTENDS ZoneChangeProofs, RecursionProofs

-----------------------------------------------------------------------------
(* Where the pointers of a tree may lead.                                  *)

\* A parent pointer may lead astray, to the next sibling of the parent (Erase), but
\* always one level up: what climbs the pointers comes to an end, and has gone
\* through as many nodes as it should.  Those of root zones never do.
PointersUp(t) ==
    /\ \A n \in Name : t.parent[n] \in Name \cup {Root} => Len(t.parent[n]) = Len(n) - 1
    /\ \A n \in Name : Len(n) = 1 => t.parent[n] = Root

Sound == {t \in Tree : WellFormed(t) /\ PointersUp(t)}

\* The parts of a tree have their types.
LEMMA TreeParts ==
    ASSUME NEW t \in Tree
    PROVE  /\ \A p \in Name \cup {Root} : t.children[p] \in Seq(Name)
           /\ \A n \in Name : t.parent[n] \in Name \cup {Root, Dangling}
           /\ \A n \in Name : t.zone[n] \in ZoneData \cup {NoZone}
BY DEF Tree

-----------------------------------------------------------------------------
(* Search.                                                                 *)

SearchState == [level : Name \cup {Root}, current : Name \cup {Root}, stop : BOOLEAN]

\* One label of the key leads from a node to a node.
LEMMA SearchStepType ==
    ASSUME NEW t \in Tree, NEW s \in SearchState, NEW host
    PROVE  SearchStep(t, s, host) \in SearchState
<1> DEFINE hits == {n \in Range(t.children[s.level]) : Last(n) = host}
           hit  == CHOOSE n \in hits : TRUE
<1>1. s.level \in Name \cup {Root}
  BY DEF SearchState
<1>2. hits \subseteq Name
  <2>1. t.children[s.level] \in Seq(Name)
    BY <1>1, TreeParts
  <2>2. Range(t.children[s.level]) \subseteq Name
    BY <2>1, ElementOfSeq DEF Range
  <2> QED  BY <2>2
<1>3. hits # {} => hit \in Name
  BY <1>2
<1>4. SearchStep(t, s, host) =
        IF s.stop \/ hits = {} THEN [s EXCEPT !.current = Root, !.stop = TRUE]
        ELSE [s EXCEPT !.current = hit,
                       !.level = IF t.children[hit] = << >> THEN @ ELSE hit]
  BY DEF SearchStep
<1> HIDE DEF hit, hits
<1> QED  BY <1>3, <1>4 DEF SearchState

\* Where Search is after each label.
LEMMA SearchRuns ==
    ASSUME NEW t \in Tree, NEW key \in Seq(Label)
    PROVE  \E at \in [0..Len(key) -> SearchState] :
            /\ at[0] = [level |-> Root, current |-> Root, stop |-> FALSE]
            /\ \A i \in 1..Len(key) : at[i] = SearchStep(t, at[i - 1], key[i])
            /\ Search(t, key) = at[Len(key)].current
<1> DEFINE N == Len(key)
           start == [level |-> Root, current |-> Root, stop |-> FALSE]
           Def(f) == [i \in 0..N |-> IF i = 0 THEN start ELSE SearchStep(t, f[i - 1], key[i])]
           at == CHOOSE f : f = Def(f)
           r == [dom |-> 0..N, start |-> {0}, type |-> SearchState,
                 rank |-> [i \in 0..N |-> i], prev |-> [i \in 0..N |-> i - 1],
                 first |-> [i \in {0} |-> start],
                 next |-> [x \in ((0..N) \ {0}) \X SearchState |->
                             SearchStep(t, x[2], key[x[1]])]]
<1>1. N \in Nat
  BY LenProperties
<1>2. start \in SearchState
  BY DEF SearchState
<1>3. IsRecursion(r)
  <2>1. r.rank \in [r.dom -> Nat] /\ r.start \subseteq r.dom
    BY <1>1
  <2>2. \A n \in r.dom \ r.start : r.prev[n] \in r.dom /\ r.rank[r.prev[n]] < r.rank[n]
    BY <1>1
  <2>3. r.type # {} /\ r.first \in [r.start -> r.type]
    BY <1>2
  <2>4. r.next \in [(r.dom \ r.start) \X r.type -> r.type]
    BY SearchStepType
  <2> HIDE DEF r
  <2> QED  BY <2>1, <2>2, <2>3, <2>4 DEF IsRecursion
<1>4. \E f : f = Def(f)
  <2>1. PICK f \in [0..N -> SearchState] : \A n \in 0..N : Obeys(f, n, r)
    <3>1. r.dom = 0..N /\ r.type = SearchState
      OBVIOUS
    <3> HIDE DEF r
    <3> QED  BY <1>3, <3>1, RecursionExists
  <2>2. \A n \in 0..N : f[n] = IF n = 0 THEN start ELSE SearchStep(t, f[n - 1], key[n])
    <3> TAKE n \in 0..N
    <3>1. CASE n = 0
      BY <2>1, <3>1 DEF Obeys
    <3>2. CASE n # 0
      <4>1. n - 1 \in 0..N /\ f[n - 1] \in SearchState
        BY <1>1, <3>2
      <4> QED  BY <2>1, <3>2, <4>1 DEF Obeys
    <3> QED  BY <3>1, <3>2
  <2>3. f = Def(f)
    BY <2>2
  <2> HIDE DEF Def
  <2> QED  BY <2>3
<1>5. at = Def(at)
  <2> HIDE DEF Def
  <2> QED  BY <1>4
<1>6. Search(t, key) = at[N].current
  BY DEF Search
<1> HIDE DEF at
<1>7. \A n \in 0..N : at[n] = IF n = 0 THEN start ELSE SearchStep(t, at[n - 1], key[n])
  BY <1>5
<1>8. \A n \in 0..N : at[n] \in SearchState
  <2>1. \A n \in r.dom : n \in r.start => at[n] = r.first[n]
    BY <1>7
  <2>2. \A n \in r.dom \ r.start :
            at[r.prev[n]] \in r.type => at[n] = r.next[<<n, at[r.prev[n]]>>]
    BY <1>1, <1>7
  <2>3. r.dom = 0..N /\ r.type = SearchState
    OBVIOUS
  <2> HIDE DEF r
  <2> QED  BY <1>3, <2>1, <2>2, <2>3, RecursionTyped
<1>9. at \in [0..N -> SearchState]
  <2>1. at = [n \in 0..N |-> IF n = 0 THEN start ELSE SearchStep(t, at[n - 1], key[n])]
    BY <1>5
  <2>2. \A n \in 0..N : (IF n = 0 THEN start ELSE SearchStep(t, at[n - 1], key[n]))
                            \in SearchState
    BY <1>7, <1>8
  <2> QED  BY <2>1, <2>2
<1>10. at[0] = start
  <2>1. 0 \in 0..N
    BY <1>1
  <2> HIDE DEF start
  <2> QED  BY <1>7, <2>1
<1>11. \A i \in 1..N : i \in 0..N /\ i # 0
  BY <1>1
<1>12. \A i \in 1..N : at[i] = SearchStep(t, at[i - 1], key[i])
  BY <1>7, <1>11
<1> QED  BY <1>6, <1>9, <1>10, <1>12

\* Search returns a node of the tree or none.
LEMMA SearchType ==
    ASSUME NEW t \in Tree, NEW key \in Seq(Label)
    PROVE  Search(t, key) \in Name \cup {Root}
<1>1. PICK at \in [0..Len(key) -> SearchState] : Search(t, key) = at[Len(key)].current
  BY SearchRuns
<1>2. Len(key) \in 0..Len(key)
  BY LenProperties
<1>3. at[Len(key)] \in SearchState
  BY <1>2
<1> QED  BY <1>1, <1>3 DEF SearchState

\* A child is on the way to the key if its parent is and its label comes next.
LEMMA ChildPrefix ==
    ASSUME NEW n \in Name, NEW key \in Seq(Label), IsPrefix(Parent(n), key),
           Len(n) <= Len(key), Last(n) = key[Len(n)]
    PROVE  IsPrefix(n, key)
<1>1. /\ n \in Seq(Label) /\ Len(n) \in Nat \ {0} /\ Parent(n) \in Seq(Label)
      /\ Len(Parent(n)) = Len(n) - 1
  BY NameFacts
<1>2. \A i \in 1..(Len(n) - 1) : Parent(n)[i] = n[i] /\ Parent(n)[i] = key[i]
  <2>1. IsPrefix(Parent(n), n)
    BY <1>1, PrefixParent
  <2> QED  BY <1>1, <2>1, PrefixPointwise
<1>3. n[Len(n)] = key[Len(n)]
  BY DEF Last
<1>4. \A i \in 1..Len(n) : i = Len(n) \/ i \in 1..(Len(n) - 1)
  BY <1>1
<1>5. \A i \in 1..Len(n) : n[i] = key[i]
  BY <1>2, <1>3, <1>4
<1> QED  BY <1>1, <1>5, PrefixPointwise

\* Every name above a node has a node.
LEMMA AncestorsExist ==
    ASSUME NEW s, Closed(s), NEW n \in Name, Has(s, n), NEW m \in Name, IsPrefix(m, n)
    PROVE  Has(s, m)
<1> DEFINE T == {k \in Nat : \A a \in Name : IsPrefix(a, n) /\ Len(a) = Len(n) - k => Has(s, a)}
<1>1. n \in Seq(Label) /\ Len(n) \in Nat \ {0}
  BY NameFacts
<1>2. 0 \in T
  <2> SUFFICES ASSUME NEW a \in Name, IsPrefix(a, n), Len(a) = Len(n) - 0 PROVE Has(s, a)
    OBVIOUS
  <2>1. a \in Seq(Label) /\ Len(a) = Len(n) /\ IsPrefix(n, n)
    BY <1>1, NameFacts, PrefixReflexive
  <2>2. a = n
    BY <1>1, <2>1, PrefixUnique
  <2> QED  BY <2>2
<1>3. \A k \in Nat : k \in T => k + 1 \in T
  <2> SUFFICES ASSUME NEW k \in Nat, k \in T, NEW a \in Name, IsPrefix(a, n),
                      Len(a) = Len(n) - (k + 1)
               PROVE  Has(s, a)
    OBVIOUS
  <2>1. a \in Seq(Label) /\ Len(a) \in Nat \ {0} /\ Len(a) < Len(n) /\ Len(a) + 1 = Len(n) - k
    BY <1>1, NameFacts
  <2>2. IsStrictPrefix(a, n)
    BY <2>1 DEF IsStrictPrefix
  <2> DEFINE c == Toward(a, n)
  <2>3. c \in Name /\ IsPrefix(c, n) /\ Parent(c) = a
    BY <2>2, TowardFacts
  <2> HIDE DEF c
  <2>4. Len(c) = Len(n) - k
    <3>1. Len(c) \in Nat \ {0} /\ Len(a) = Len(c) - 1
      BY <2>3, NameFacts
    <3> QED  BY <1>1, <2>1, <3>1
  <2>5. Has(s, c)
    BY <2>3, <2>4
  <2>6. a # Root
    BY <2>1 DEF Root
  <2> QED  BY <2>3, <2>5, <2>6 DEF Closed
<1>4. Nat \subseteq T
  <2> HIDE DEF T
  <2> QED  BY <1>2, <1>3, SetInduction
<1>5. Len(n) - Len(m) \in Nat /\ Len(m) = Len(n) - (Len(n) - Len(m))
  BY <1>1, NameFacts, PrefixPointwise
<1> QED  BY <1>4, <1>5

\* What one label of the key leads to.
LEMMA SearchStepFacts ==
    ASSUME NEW t \in Tree, WellFormed(t), NEW s \in SearchState, NEW host
    PROVE  LET u == SearchStep(t, s, host) IN
           /\ u.stop => u.current = Root
           /\ ~u.stop => /\ ~s.stop /\ u.current \in Name
                         /\ Has(t.zone, u.current)
                         /\ Parent(u.current) = s.level
                         /\ Last(u.current) = host
                         /\ u.level = IF t.children[u.current] = << >> THEN s.level
                                      ELSE u.current
           /\ ~s.stop => \A m \in Name : Has(t.zone, m) /\ Parent(m) = s.level
                                        /\ Last(m) = host => ~u.stop
<1> DEFINE hits == {n \in Range(t.children[s.level]) : Last(n) = host}
           hit  == CHOOSE n \in hits : TRUE
           u    == SearchStep(t, s, host)
<1>1. s.level \in Name \cup {Root} /\ s.stop \in BOOLEAN
  BY DEF SearchState
<1>2. Range(t.children[s.level]) = {n \in Name : Has(t.zone, n) /\ Parent(n) = s.level}
  BY <1>1 DEF WellFormed
<1>3. hits = {n \in Name : Has(t.zone, n) /\ Parent(n) = s.level /\ Last(n) = host}
  BY <1>2
<1>4. hits # {} => hit \in hits
  OBVIOUS
<1>5. u = IF s.stop \/ hits = {} THEN [s EXCEPT !.current = Root, !.stop = TRUE]
          ELSE [s EXCEPT !.current = hit,
                         !.level = IF t.children[hit] = << >> THEN @ ELSE hit]
  BY DEF SearchStep
<1> HIDE DEF hit, hits, u
<1>6. CASE s.stop \/ hits = {}
  <2>1. u.stop /\ u.current = Root
    BY <1>5, <1>6 DEF SearchState
  <2>2. ~s.stop => \A m \in Name : ~(Has(t.zone, m) /\ Parent(m) = s.level /\ Last(m) = host)
    BY <1>3, <1>6
  <2> QED  BY <2>1, <2>2 DEF u
<1>7. CASE ~(s.stop \/ hits = {})
  <2>1. /\ u.stop = s.stop /\ u.current = hit
        /\ u.level = IF t.children[hit] = << >> THEN s.level ELSE hit
    BY <1>5, <1>7 DEF SearchState
  <2>2. hit \in Name /\ Has(t.zone, hit) /\ Parent(hit) = s.level /\ Last(hit) = host
    BY <1>3, <1>4, <1>7
  <2> QED  BY <1>7, <2>1, <2>2 DEF u
<1> QED  BY <1>6, <1>7

(* What Search finds: a zone, and one that has as many labels as the key   *)
(* only if it is the one that was meant.  A shorter one may be another: a  *)
(* node without children does not take the level down with it.             *)
LEMMA SearchFinds ==
    ASSUME NEW t \in Tree, WellFormed(t), NEW key \in Seq(Label), Search(t, key) # Root
    PROVE  /\ Search(t, key) \in Name
           /\ Has(t.zone, Search(t, key))
           /\ Len(Search(t, key)) <= Len(key)
           /\ Len(Search(t, key)) = Len(key) => Search(t, key) = key
<1> DEFINE N == Len(key)
<1>1. PICK at \in [0..N -> SearchState] :
        /\ at[0] = [level |-> Root, current |-> Root, stop |-> FALSE]
        /\ \A i \in 1..N : at[i] = SearchStep(t, at[i - 1], key[i])
        /\ Search(t, key) = at[N].current
  BY SearchRuns
<1>2. N \in Nat
  BY LenProperties
<1> DEFINE Near(n, i) == /\ n \in Seq(Label) /\ Len(n) \in Nat /\ Len(n) <= i
                         /\ Len(n) = i => IsPrefix(n, key)
           Good(i) == /\ at[i].stop => at[i].current = Root
                      /\ ~at[i].stop => Near(at[i].level, i) /\ Near(at[i].current, i)
                      /\ i > 0 /\ ~at[i].stop => Has(t.zone, at[i].current)
           T == {i \in 0..N : Good(i)}
<1>3. 0 \in T
  <2>1. Root \in Seq(Label) /\ Len(Root) = 0 /\ IsPrefix(Root, key)
    BY PrefixPointwise DEF Root
  <2>2. ~at[0].stop /\ at[0].level = Root /\ at[0].current = Root
    BY <1>1
  <2>3. Near(Root, 0)
    BY <2>1
  <2> HIDE DEF Near
  <2>4. Good(0) /\ 0 \in 0..N
    BY <1>2, <2>2, <2>3
  <2> QED  BY <2>4
<1>4. ASSUME NEW i \in 1..N, i - 1 \in T PROVE i \in T
  <2> DEFINE s == at[i - 1]
             u == at[i]
             n == u.current
  <2>1. i \in 0..N /\ i - 1 \in 0..N /\ i \in Nat \ {0}
    BY <1>2
  <2>2. s \in SearchState /\ u = SearchStep(t, s, key[i])
    BY <1>1, <2>1
  <2>3. Good(i - 1)
    BY <1>4
  <2> HIDE DEF Good
  <2>4. /\ u.stop => n = Root
        /\ ~u.stop => /\ ~s.stop /\ n \in Name /\ Has(t.zone, n) /\ Parent(n) = s.level
                      /\ Last(n) = key[i] /\ u.level \in {s.level, n}
    BY <2>2, SearchStepFacts
  <2>5. CASE u.stop
    BY <2>1, <2>4, <2>5 DEF Good
  <2>6. CASE ~u.stop
    <3>1. Near(s.level, i - 1)
      BY <2>3, <2>4, <2>6 DEF Good
    <3>2. /\ n \in Seq(Label) /\ Len(n) \in Nat \ {0} /\ Len(s.level) = Len(n) - 1
      BY <2>4, <2>6, NameFacts
    <3>3. Near(n, i)
      <4>1. Len(n) <= i
        BY <2>1, <3>1, <3>2
      <4>2. ASSUME Len(n) = i PROVE IsPrefix(n, key)
        <5>1. Len(s.level) = i - 1
          BY <3>2, <4>2
        <5>2. IsPrefix(Parent(n), key) /\ Len(n) <= Len(key) /\ Last(n) = key[Len(n)]
          BY <1>2, <2>4, <2>6, <3>1, <4>2, <5>1
        <5> QED  BY <2>4, <2>6, <5>2, ChildPrefix
      <4> QED  BY <3>2, <4>1, <4>2
    <3>4. Near(s.level, i)
      BY <2>1, <3>1
    <3>5. Near(u.level, i)
      BY <2>4, <2>6, <3>3, <3>4
    <3> HIDE DEF Near
    <3> QED  BY <2>1, <2>4, <2>6, <3>3, <3>5 DEF Good
  <2> QED  BY <2>5, <2>6
<1>5. 0..N \subseteq T
  <2> HIDE DEF T
  <2> QED  BY <1>2, <1>3, <1>4, BoundedInduction
<1>6. Good(N) /\ at[N] \in SearchState
  BY <1>2, <1>5
<1>7. ~at[N].stop /\ Search(t, key) \in Name
  BY <1>1, <1>6 DEF SearchState
<1>8. N > 0
  BY <1>1, <1>2
<1>9. Near(Search(t, key), N) /\ Has(t.zone, Search(t, key))
  BY <1>1, <1>6, <1>7, <1>8
<1>10. ASSUME Len(Search(t, key)) = Len(key) PROVE Search(t, key) = key
  <2>1. IsPrefix(Search(t, key), key) /\ IsPrefix(key, key)
    BY <1>9, <1>10, PrefixReflexive
  <2> QED  BY <1>9, <1>10, <2>1, PrefixUnique
<1> QED  BY <1>7, <1>9, <1>10

\* A zone that is there is found.
THEOREM SearchComplete ==
    ASSUME NEW t \in Tree, WellFormed(t), NEW key \in Name, Has(t.zone, key)
    PROVE  Search(t, key) = key
<1> DEFINE N == Len(key)
<1>1. key \in Seq(Label) /\ N \in Nat \ {0}
  BY NameFacts
<1>2. PICK at \in [0..N -> SearchState] :
        /\ at[0] = [level |-> Root, current |-> Root, stop |-> FALSE]
        /\ \A i \in 1..N : at[i] = SearchStep(t, at[i - 1], key[i])
        /\ Search(t, key) = at[N].current
  BY <1>1, SearchRuns
<1> DEFINE On(p, i) == p \in Name \cup {Root} /\ IsPrefix(p, key) /\ Len(p) = i
           Good(i) == /\ ~at[i].stop
                      /\ On(at[i].current, i)
                      /\ i < N => On(at[i].level, i)
           T == {i \in 0..N : Good(i)}
\* Above the key there is always a next node on the way.
<1>3. ASSUME NEW p, NEW i \in 0..N, On(p, i), i < N
      PROVE  /\ Toward(p, key) \in Name /\ Has(t.zone, Toward(p, key))
             /\ Parent(Toward(p, key)) = p /\ IsPrefix(Toward(p, key), key)
             /\ Len(Toward(p, key)) = i + 1 /\ Last(Toward(p, key)) = key[i + 1]
  <2>1. p # key
    BY <1>3
  <2>2. IsStrictPrefix(p, key)
    BY <1>3, <2>1 DEF IsStrictPrefix
  <2> DEFINE c == Toward(p, key)
  <2>3. c \in Name /\ IsPrefix(c, key) /\ Parent(c) = p
    BY <1>3, <2>2, TowardFacts
  <2> HIDE DEF c
  <2>4. c \in Seq(Label) /\ Len(c) = i + 1
    BY <1>1, <1>3, <2>3, NameFacts
  <2>5. Has(t.zone, c)
    BY <2>3, AncestorsExist DEF WellFormed
  <2>6. Last(c) = key[i + 1]
    BY <1>1, <1>3, <2>3, <2>4, PrefixPointwise DEF Last
  <2> QED  BY <2>3, <2>4, <2>5, <2>6 DEF c
<1>4. 0 \in T
  <2>1. Root \in Seq(Label) /\ Len(Root) = 0 /\ IsPrefix(Root, key)
    BY <1>1, PrefixPointwise DEF Root
  <2> QED  BY <1>1, <1>2, <2>1
<1>5. ASSUME NEW i \in 1..N, i - 1 \in T PROVE i \in T
  <2> DEFINE s == at[i - 1]
             u == at[i]
             n == u.current
             c == Toward(s.level, key)
  <2>1. i \in 0..N /\ i - 1 \in 0..N /\ i - 1 < N /\ i \in Nat /\ (i - 1) + 1 = i
    BY <1>1
  <2>2. s \in SearchState /\ u = SearchStep(t, s, key[i])
    BY <1>2, <2>1
  <2>3. Good(i - 1)
    BY <1>5
  <2>4. ~s.stop /\ On(s.level, i - 1)
    BY <2>1, <2>3
  <2> HIDE DEF Good
  <2>5. /\ c \in Name /\ Has(t.zone, c) /\ Parent(c) = s.level /\ IsPrefix(c, key)
        /\ Len(c) = i /\ Last(c) = key[i]
    <3> HIDE DEF On
    <3> QED  BY <1>3, <2>1, <2>4
  <2> HIDE DEF c
  <2>6. /\ ~u.stop /\ n \in Name /\ Has(t.zone, n) /\ Parent(n) = s.level
        /\ Last(n) = key[i] /\ u.level = IF t.children[n] = << >> THEN s.level ELSE n
    BY <2>2, <2>4, <2>5, SearchStepFacts
  <2>7. On(n, i)
    <3>1. n \in Seq(Label) /\ Len(n) = i
      BY <2>1, <2>4, <2>6, NameFacts
    <3>2. IsPrefix(Parent(n), key) /\ Len(n) <= Len(key) /\ Last(n) = key[Len(n)]
      BY <1>1, <2>4, <2>6, <3>1
    <3> QED  BY <1>1, <2>6, <3>1, <3>2, ChildPrefix
  <2>8. i < N => u.level = n
    <3> SUFFICES ASSUME i < N PROVE t.children[n] # << >>
      BY <2>6
    <3>1. Toward(n, key) \in Name /\ Has(t.zone, Toward(n, key)) /\ Parent(Toward(n, key)) = n
      <4> HIDE DEF On
      <4> QED  BY <1>3, <2>1, <2>7
    <3>2. Toward(n, key) \in Range(t.children[n])
      BY <2>6, <3>1 DEF WellFormed
    <3>3. DOMAIN << >> = {}
      OBVIOUS
    <3> QED  BY <3>2, <3>3 DEF Range
  <2> HIDE DEF On
  <2> QED  BY <2>1, <2>6, <2>7, <2>8 DEF Good
<1>6. 0..N \subseteq T
  <2> HIDE DEF T
  <2> QED  BY <1>1, <1>4, <1>5, BoundedInduction
<1>7. On(Search(t, key), N)
  BY <1>1, <1>2, <1>6
<1>8. Search(t, key) \in Seq(Label)
  BY <1>7, NameFacts, EmptySeq DEF Root
<1> QED  BY <1>1, <1>7, <1>8, PrefixUnique, PrefixReflexive

-----------------------------------------------------------------------------
(* The parent pointers.                                                    *)

\* The domain name a node has by its pointers is a name, unless they lead astray: its
\* label after the name of what the pointer leads to.
LEMMA GetDomainNameRuns ==
    ASSUME NEW t \in Sound
    PROVE  /\ \A n \in Name : GetDomainName(t, n) \in Seq(Label) \cup {Dangling}
           /\ \A n \in Name : GetDomainName(t, n) =
                CASE t.parent[n] = Root     -> <<Last(n)>>
                  [] t.parent[n] = Dangling -> Dangling
                  [] OTHER -> IF GetDomainName(t, t.parent[n]) = Dangling THEN Dangling
                              ELSE Append(GetDomainName(t, t.parent[n]), Last(n))
<1> DEFINE D == Seq(Label) \cup {Dangling}
           Top == {n \in Name : t.parent[n] \in {Root, Dangling}}
           Ends(n) == IF t.parent[n] = Root THEN <<Last(n)>> ELSE Dangling
           Goes(n, s) == IF s = Dangling THEN Dangling ELSE Append(s, Last(n))
           Def(f) == [n \in Name |->
                        CASE t.parent[n] = Root     -> <<Last(n)>>
                          [] t.parent[n] = Dangling -> Dangling
                          [] OTHER -> IF f[t.parent[n]] = Dangling THEN Dangling
                                      ELSE Append(f[t.parent[n]], Last(n))]
           name == CHOOSE f : f = Def(f)
           r == [dom |-> Name, start |-> Top, type |-> D,
                 rank |-> [n \in Name |-> Len(n)],
                 prev |-> [n \in Name |-> t.parent[n]],
                 first |-> [n \in Top |-> Ends(n)],
                 next |-> [x \in (Name \ Top) \X D |-> Goes(x[1], x[2])]]
<1>1. \A n \in Name : /\ Len(n) \in Nat \ {0}
                      /\ n \notin Top => /\ t.parent[n] \in Name
                                         /\ Len(t.parent[n]) < Len(n)
  <2> TAKE n \in Name
  <2>1. Len(n) \in Nat \ {0} /\ t.parent[n] \in Name \cup {Root, Dangling}
    BY NameFacts, TreeParts DEF Sound
  <2>2. t.parent[n] \in Name => Len(t.parent[n]) = Len(n) - 1
    BY DEF Sound, PointersUp
  <2> QED  BY <2>1, <2>2
<1>2. Root # Dangling
  BY MarkAssumption
<1>3. \A n \in Name : Last(n) \in Label
  <2> TAKE n \in Name
  <2>1. n \in Seq(Label) /\ Len(n) \in Nat \ {0}
    BY NameFacts
  <2> QED  BY <2>1, ElementOfSeq DEF Last
<1>4. \A n \in Name : Ends(n) \in D /\ \A s \in D : Goes(n, s) \in D
  <2> TAKE n \in Name
  <2>1. <<Last(n)>> \in Seq(Label)
    BY <1>3
  <2>2. \A s \in Seq(Label) : Append(s, Last(n)) \in Seq(Label)
    BY <1>3, AppendProperties
  <2> QED  BY <2>1, <2>2
<1>5. IsRecursion(r)
  <2>1. r.rank \in [r.dom -> Nat] /\ r.start \subseteq r.dom
    BY <1>1
  <2>2. \A n \in r.dom \ r.start : r.prev[n] \in r.dom /\ r.rank[r.prev[n]] < r.rank[n]
    BY <1>1
  <2> HIDE DEF Ends, Goes
  <2>3. r.type # {} /\ r.first \in [r.start -> r.type]
    BY <1>4
  <2>4. r.next \in [(r.dom \ r.start) \X r.type -> r.type]
    BY <1>4
  <2> HIDE DEF r
  <2> QED  BY <2>1, <2>2, <2>3, <2>4 DEF IsRecursion
<1>6. \A f : Def(f) = [n \in Name |-> IF n \in Top THEN Ends(n) ELSE Goes(n, f[t.parent[n]])]
  BY <1>2
<1> HIDE DEF Ends, Goes
<1>7. \E f : f = Def(f)
  <2>1. PICK f \in [Name -> D] : \A n \in Name : Obeys(f, n, r)
    <3>1. r.dom = Name /\ r.type = D
      OBVIOUS
    <3> HIDE DEF r
    <3> QED  BY <1>5, <3>1, RecursionExists
  <2>2. \A n \in Name : f[n] = IF n \in Top THEN Ends(n) ELSE Goes(n, f[t.parent[n]])
    <3> TAKE n \in Name
    <3>1. CASE n \in Top
      BY <2>1, <3>1 DEF Obeys
    <3>2. CASE n \notin Top
      <4>1. t.parent[n] \in Name /\ f[t.parent[n]] \in D
        BY <1>1, <3>2
      <4> QED  BY <2>1, <3>2, <4>1 DEF Obeys
    <3> QED  BY <3>1, <3>2
  <2> HIDE DEF Def
  <2>3. f = Def(f)
    BY <1>6, <2>2
  <2> QED  BY <2>3
<1>8. name = Def(name)
  <2> HIDE DEF Def
  <2> QED  BY <1>7
<1>9. \A n : GetDomainName(t, n) = name[n]
  BY DEF GetDomainName
<1> HIDE DEF name
<1>12. \A n \in Name : name[n] =
            CASE t.parent[n] = Root     -> <<Last(n)>>
              [] t.parent[n] = Dangling -> Dangling
              [] OTHER -> IF name[t.parent[n]] = Dangling THEN Dangling
                          ELSE Append(name[t.parent[n]], Last(n))
  BY <1>8
<1> HIDE DEF Def
<1>10. \A n \in Name : name[n] = IF n \in Top THEN Ends(n) ELSE Goes(n, name[t.parent[n]])
  BY <1>6, <1>8
<1>11. \A n \in Name : name[n] \in D
  <2>1. \A n \in r.dom : n \in r.start => name[n] = r.first[n]
    BY <1>10
  <2>2. \A n \in r.dom \ r.start :
            name[r.prev[n]] \in r.type => name[n] = r.next[<<n, name[r.prev[n]]>>]
    BY <1>10
  <2>3. r.dom = Name /\ r.type = D
    OBVIOUS
  <2> HIDE DEF r
  <2> QED  BY <1>5, <2>1, <2>2, <2>3, RecursionTyped
<1> QED  BY <1>9, <1>11, <1>12

\* The type of the result.
LEMMA GetDomainNameType ==
    ASSUME NEW t \in Sound, NEW node \in Name
    PROVE  GetDomainName(t, node) \in Seq(Label) \cup {Dangling}
BY GetDomainNameRuns

\* A fresh copy has its pointers right.
LEMMA InitIsSound ==
    ASSUME NEW i \in Image, WellFormed(i)
    PROVE  InitParents(i) \in Sound
<1>1. InitParents(i) \in Tree
  BY CopyZonesFacts
<1>2. WellFormed(InitParents(i))
  BY DEF WellFormed, InitParents
<1>3. PointersUp(InitParents(i))
  BY NameFacts DEF PointersUp, InitParents
<1> QED  BY <1>1, <1>2, <1>3 DEF Sound

\* A copy of a tree is one, whatever its pointers were.
LEMMA CopyIsSound ==
    ASSUME NEW t \in Tree, WellFormed(t)
    PROVE  CopyZones(t) \in Sound
<1>1. Serialized(t) \in Image
  BY CopyType
<1>2. WellFormed(Serialized(t))
  BY DEF WellFormed, Serialized
<1> QED  BY <1>1, <1>2, InitIsSound DEF CopyZones

\* Above a root zone there is no node.
LEMMA TopFacts ==
    ASSUME NEW n \in Name
    PROVE  Len(n) = 1 <=> Parent(n) = Root
<1>1. n \in Seq(Label) /\ Len(n) \in Nat \ {0} /\ Len(Parent(n)) = Len(n) - 1
      /\ Parent(n) \in Seq(Label)
  BY NameFacts
<1> QED  BY <1>1, EmptySeq DEF Root

\* Root is the name of no node.
LEMMA RootIsNoName == Root \notin Name
BY NameAssumption

\* The new node that CreateZone adds and the nodes that it moves: a pointer is as it
\* was or leads astray.
LEMMA InsertPointers ==
    ASSUME NEW t \in Sound, NEW n \in Name, NEW z
    PROVE  PointersUp(Insert(t, n, z))
<1>1. \A m \in Name : Insert(t, n, z).parent[m] \in {t.parent[m], Dangling}
  BY DEF Insert
<1>2. Dangling \notin Name \cup {Root}
  BY MarkAssumption
<1>3. ASSUME NEW m \in Name, Len(m) = 1 PROVE Insert(t, n, z).parent[m] = Root
  <2>1. Parent(m) = Root /\ ~Has(t.zone, Parent(m))
    BY <1>3, TopFacts, RootIsNoName DEF Has
  <2>2. Insert(t, n, z).parent[m] = t.parent[m]
    BY <2>1 DEF Insert
  <2> QED  BY <1>3, <2>2 DEF PointersUp, Sound
<1> QED  BY <1>1, <1>2, <1>3 DEF PointersUp, Sound

\* The slot that a pointer leads to after Delete holds a sibling of the parent, which
\* is as far up as the parent.
LEMMA ErasePointers ==
    ASSUME NEW t \in Sound, NEW n \in Name, Has(t.zone, n)
    PROVE  PointersUp(Erase(t, n))
<1> DEFINE siblings == t.children[Parent(n)]
           slot     == CHOOSE i \in DOMAIN siblings : siblings[i] = n
           After(s) == {i \in DOMAIN siblings : i > slot /\ siblings[i] = s}
<1> SUFFICES ASSUME NEW m \in Name
             PROVE  /\ Erase(t, n).parent[m] \in Name \cup {Root}
                            => Len(Erase(t, n).parent[m]) = Len(m) - 1
                    /\ Len(m) = 1 => Erase(t, n).parent[m] = Root
  BY DEF PointersUp
<1>1. Parent(n) \in Name \cup {Root} /\ t \in Tree /\ WellFormed(t) /\ PointersUp(t)
  BY NameFacts DEF Sound
<1>2. siblings \in Seq(Name)
  BY <1>1, TreeParts
<1>3. Range(siblings) = {k \in Name : Has(t.zone, k) /\ Parent(k) = Parent(n)}
  BY <1>1 DEF WellFormed
<1>4. Erase(t, n).parent[m] =
        IF After(Parent(m)) = {} THEN t.parent[m]
        ELSE LET i == CHOOSE i \in After(Parent(m)) : TRUE
             IN  IF i = Len(siblings) THEN Dangling ELSE siblings[i + 1]
  BY DEF Erase
<1>5. CASE After(Parent(m)) = {}
  BY <1>1, <1>4, <1>5 DEF PointersUp
<1>6. CASE After(Parent(m)) # {}
  <2>0. SUFFICES Erase(t, n).parent[m] \in Name \cup {Root} =>
                    Len(Erase(t, n).parent[m]) = Len(m) - 1
    <3>1. Parent(m) \in Range(siblings)
      <4> HIDE DEF slot, siblings
      <4> QED  BY <1>6 DEF Range
    <3>2. Parent(m) # Root
      BY <1>3, <3>1, RootIsNoName
    <3> QED  BY <3>2, TopFacts
  <2> SUFFICES ASSUME Erase(t, n).parent[m] \in Name \cup {Root}
               PROVE  Len(Erase(t, n).parent[m]) = Len(m) - 1
    BY <2>0
  <2>1. PICK i \in After(Parent(m)) :
            Erase(t, n).parent[m] = IF i = Len(siblings) THEN Dangling ELSE siblings[i + 1]
    BY <1>4, <1>6
  <2> HIDE DEF slot
  <2>2. i \in 1..Len(siblings) /\ siblings[i] = Parent(m) /\ Len(siblings) \in Nat
    BY <1>2, <2>1, LenProperties
  <2>3. i # Len(siblings)
    BY <2>1, MarkAssumption
  <2>4. i + 1 \in 1..Len(siblings) /\ Erase(t, n).parent[m] = siblings[i + 1]
    BY <2>1, <2>2, <2>3
  <2> HIDE DEF siblings
  <2>5. siblings[i] \in Range(siblings) /\ siblings[i + 1] \in Range(siblings)
    BY <1>2, <2>2, <2>4, LenProperties DEF Range
  <2>6. /\ Parent(m) \in Name /\ Parent(Parent(m)) = Parent(n)
        /\ siblings[i + 1] \in Name /\ Parent(siblings[i + 1]) = Parent(n)
    BY <1>3, <2>2, <2>5
  <2>7. /\ Len(Parent(siblings[i + 1])) = Len(siblings[i + 1]) - 1
        /\ Len(Parent(Parent(m))) = Len(Parent(m)) - 1
        /\ Len(Parent(m)) = Len(m) - 1
        /\ Len(m) \in Nat /\ Len(Parent(m)) \in Nat /\ Len(siblings[i + 1]) \in Nat
    BY <2>6, NameFacts
  <2> QED  BY <2>4, <2>6, <2>7
<1> QED  BY <1>5, <1>6

-----------------------------------------------------------------------------
(* The parent pointers, when none leads astray.                            *)

\* A name is its parent's with one more label.
LEMMA ParentAndLast ==
    ASSUME NEW n \in Name
    PROVE  n = Append(Parent(n), Last(n)) /\ Last(n) \in Label
<1>1. n \in Seq(Label) /\ Len(n) \in Nat \ {0}
  BY NameFacts
<1> QED  BY <1>1 DEF Parent, Front, Last

\* The node above a node exists.
LEMMA ParentExists ==
    ASSUME NEW t \in Sound, NEW n \in Name, Has(t.zone, n), Parent(n) # Root
    PROVE  Parent(n) \in Name /\ Has(t.zone, Parent(n)) /\ Len(Parent(n)) = Len(n) - 1
BY NameFacts DEF Sound, WellFormed, Closed

\* The climb from a node ends at its true name.
LEMMA IntactName ==
    ASSUME NEW t \in Sound, Intact(t), NEW node \in Name, Has(t.zone, node)
    PROVE  GetDomainName(t, node) = node
<1> DEFINE T == {k \in Nat : \A n \in Name : Has(t.zone, n) /\ Len(n) <= k
                                                => GetDomainName(t, n) = n}
<1>1. 0 \in T
  BY NameFacts
<1>2. ASSUME NEW k \in Nat, k \in T PROVE k + 1 \in T
  <2> SUFFICES ASSUME NEW n \in Name, Has(t.zone, n), Len(n) <= k + 1
               PROVE  GetDomainName(t, n) = n
    OBVIOUS
  <2> DEFINE p == Parent(n)
  <2>1. t.parent[n] = p /\ n = Append(p, Last(n)) /\ p \in Name \cup {Root}
    BY ParentAndLast, NameFacts DEF Intact
  <2>2. GetDomainName(t, n) =
          CASE p = Root     -> <<Last(n)>>
            [] p = Dangling -> Dangling
            [] OTHER -> IF GetDomainName(t, p) = Dangling THEN Dangling
                        ELSE Append(GetDomainName(t, p), Last(n))
    BY <2>1, GetDomainNameRuns
  <2>3. Dangling \notin Name \cup {Root}
    BY MarkAssumption
  <2> HIDE DEF p
  <2>4. CASE p = Root
    <3>1. GetDomainName(t, n) = <<Last(n)>>
      BY <2>2, <2>3, <2>4
    <3>2. Append(<< >>, Last(n)) = <<Last(n)>>
      OBVIOUS
    <3>3. n = Append(<< >>, Last(n))
      BY <2>1, <2>4 DEF Root
    <3> QED  BY <3>1, <3>2, <3>3, Zenon
  <2>5. CASE p # Root
    <3>1. p \in Name /\ Has(t.zone, p) /\ Len(p) <= k
      <4>1. p \in Name /\ Has(t.zone, p) /\ Len(p) = Len(n) - 1
        BY <2>5, ParentExists DEF p
      <4>2. Len(n) \in Nat
        BY NameFacts
      <4> QED  BY <4>1, <4>2
    <3>2. GetDomainName(t, p) = p
      BY <1>2, <3>1
    <3> QED  BY <2>1, <2>2, <2>3, <2>5, <3>1, <3>2
  <2> QED  BY <2>4, <2>5
<1>3. Nat \subseteq T
  <2> HIDE DEF T
  <2> QED  BY <1>1, <1>2, SetInduction
<1>4. Len(node) \in T
  BY <1>3, NameFacts
<1> QED  BY <1>4, NameFacts

-----------------------------------------------------------------------------
(* Names that are looked up.                                               *)

\* However stale the pointers, the name a node thinks it has is as long as its own.
LEMMA DomainNameLength ==
    ASSUME NEW t \in Sound, NEW node \in Name, GetDomainName(t, node) # Dangling
    PROVE  Len(GetDomainName(t, node)) = Len(node)
<1> DEFINE G(n) == GetDomainName(t, n)
           T == {k \in Nat : \A n \in Name : Len(n) <= k /\ G(n) # Dangling
                                                => Len(G(n)) = Len(n)}
<1>1. \A n \in Name : /\ n \in Seq(Label) /\ Len(n) \in Nat \ {0}
                      /\ G(n) \in Seq(Label) \cup {Dangling}
                      /\ t.parent[n] \in Name \cup {Root, Dangling}
                      /\ t.parent[n] \in Name \cup {Root} => Len(t.parent[n]) = Len(n) - 1
  <2> TAKE n \in Name
  <2>1. t.parent[n] \in Name \cup {Root, Dangling}
    BY TreeParts DEF Sound
  <2>2. t.parent[n] \in Name \cup {Root} => Len(t.parent[n]) = Len(n) - 1
    BY DEF Sound, PointersUp
  <2> QED  BY <2>1, <2>2, NameFacts, GetDomainNameRuns
<1>2. \A n \in Name : G(n) =
        CASE t.parent[n] = Root     -> <<Last(n)>>
          [] t.parent[n] = Dangling -> Dangling
          [] OTHER -> IF G(t.parent[n]) = Dangling THEN Dangling
                      ELSE Append(G(t.parent[n]), Last(n))
  BY GetDomainNameRuns
<1> HIDE DEF G
<1>3. 0 \in T
  BY <1>1
<1>4. \A k \in Nat : k \in T => k + 1 \in T
  <2> SUFFICES ASSUME NEW k \in Nat, k \in T, NEW n \in Name, Len(n) <= k + 1, G(n) # Dangling
               PROVE  Len(G(n)) = Len(n)
    OBVIOUS
  <2>1. CASE t.parent[n] = Root
    <3>1. G(n) = <<Last(n)>>
      BY <1>2, <2>1
    <3>2. Len(Root) = Len(n) - 1 /\ Len(Root) = 0
      BY <1>1, <2>1 DEF Root
    <3> QED  BY <1>1, <3>1, <3>2
  <2>2. CASE t.parent[n] # Root
    <3> DEFINE p == t.parent[n]
    <3>1. p # Dangling /\ G(p) # Dangling /\ G(n) = Append(G(p), Last(n))
      BY <1>2, <2>2
    <3>2. p \in Name /\ Len(p) = Len(n) - 1 /\ Len(p) <= k
      BY <1>1, <2>2, <3>1
    <3> HIDE DEF p
    <3>3. G(p) \in Seq(Label) /\ Len(G(p)) = Len(p)
      BY <1>1, <3>1, <3>2
    <3>4. Len(Append(G(p), Last(n))) = Len(G(p)) + 1
      <4>1. G(p) \in Seq(Label \cup {Last(n)}) /\ Last(n) \in Label \cup {Last(n)}
        BY <3>3
      <4> QED  BY <4>1, AppendProperties
    <3> QED  BY <1>1, <3>1, <3>2, <3>3, <3>4
  <2> QED  BY <2>1, <2>2
<1>5. Nat \subseteq T
  <2> HIDE DEF T
  <2> QED  BY <1>3, <1>4, SetInduction
<1> QED  BY <1>1, <1>5 DEF G

(* LookupName never mistakes one zone for another: Search may find another *)
(* zone, and stale pointers may give that zone another name, but never the *)
(* two together the name that was asked for.                               *)
THEOREM MatchIsReal ==
    ASSUME NEW t \in Sound, NEW key \in Name, "match" \in LookupName(t, key)
    PROVE  Has(t.zone, key) /\ Search(t, key) = key
<1> DEFINE node == Search(t, key)
           dn   == GetDomainName(t, node)
<1>1. t \in Tree /\ WellFormed(t) /\ key \in Seq(Label)
  BY NameFacts DEF Sound
<1>2. Has(t.zone, node) /\ (node = key \/ dn = key)
  <2>1. LookupName(t, key) =
          CASE ~Has(t.zone, node) -> {"none"}
            [] Has(t.zone, node) /\ dn = Dangling ->
                 {"mismatch", "died"} \cup {r \in {"match"} : node = key}
            [] OTHER -> {IF dn = key THEN "match" ELSE "mismatch"}
    BY DEF LookupName
  <2> HIDE DEF node, dn
  <2> QED  BY <2>1
<1>3. node \in Name
  BY <1>2 DEF Has
<1>4. ASSUME dn = key PROVE node = key
  <2>1. dn # Dangling
    BY <1>4, MarkAssumption
  <2>2. Len(node) = Len(key)
    BY <1>3, <1>4, <2>1, DomainNameLength
  <2>3. node # Root
    BY <1>3, NameAssumption
  <2> QED  BY <1>1, <2>2, <2>3, SearchFinds
<1> QED  BY <1>2, <1>4

-----------------------------------------------------------------------------
(* The three changes.                                                      *)

\* The serial moves no pointer.
LEMMA SerialPointers ==
    ASSUME NEW t \in Tree, NEW n \in Name, PointersUp(t)
    PROVE  PointersUp(WithSerial(t, n))
<1>1. WithSerial(t, n).parent = t.parent
  BY WithSerialFacts
<1> QED  BY <1>1 DEF PointersUp

\* What CreateZone commits.
LEMMA InsertIsSound ==
    ASSUME NEW t \in Tree, WellFormed(t), NEW n \in Name, ~Has(t.zone, n),
           NEW z \in ZoneData, Exclusive(z),
           Authorities(Insert(CopyZones(t), n, z).zone, n) # {}
    PROVE  WithSerial(Insert(CopyZones(t), n, z), n) \in Sound
<1> DEFINE c == CopyZones(t)
           u == Insert(c, n, z)
<1>1. WithSerial(u, n) \in Tree /\ WellFormed(WithSerial(u, n))
  BY InsertIsChange
<1>2. c \in Sound /\ c \in Tree /\ WellFormed(c) /\ ~Has(c.zone, n)
  BY CopyIsSound, CopyType DEF Sound
<1> HIDE DEF c
<1>3. u \in Tree /\ PointersUp(u)
  BY <1>2, InsertIsTree, InsertPointers
<1>4. PointersUp(WithSerial(u, n))
  <2> HIDE DEF u
  <2> QED  BY <1>3, SerialPointers
<1> QED  BY <1>1, <1>4 DEF Sound, c

\* What Update commits.
LEMMA AssignIsSound ==
    ASSUME NEW t \in Tree, WellFormed(t), NEW n \in Name, Has(t.zone, n),
           NEW z \in ZoneData, Exclusive(z),
           Authorities(Assign(CopyZones(t), n, z).zone, n) # {}
    PROVE  WithSerial(Assign(CopyZones(t), n, z), n) \in Sound
<1> DEFINE c == CopyZones(t)
           u == Assign(c, n, z)
<1>1. WithSerial(u, n) \in Tree /\ WellFormed(WithSerial(u, n))
  BY AssignIsChange
<1>2. c \in Tree /\ PointersUp(c)
  BY CopyIsSound DEF Sound
<1>3. u \in Tree /\ u.parent = c.parent
  <2> HIDE DEF c
  <2> QED  BY <1>2, AssignedType DEF Assign, Tree
<1>4. PointersUp(u)
  BY <1>2, <1>3 DEF PointersUp
<1>5. PointersUp(WithSerial(u, n))
  <2> HIDE DEF u
  <2> QED  BY <1>3, <1>4, SerialPointers
<1> QED  BY <1>1, <1>5 DEF Sound

\* What Delete commits.
LEMMA EraseIsSound ==
    ASSUME NEW t \in Tree, WellFormed(t), NEW n \in Name, Has(t.zone, n),
           Parent(n) # Root, Authorities(t.zone, n) # {}
    PROVE  Erase(WithSerial(CopyZones(t), n), n) \in Sound
<1> DEFINE c == CopyZones(t)
           s == WithSerial(c, n)
<1>1. Erase(s, n) \in Tree /\ WellFormed(Erase(s, n))
  BY EraseIsChange
<1>2. c \in Sound /\ c.zone = t.zone /\ c.zone \in ZoneMap
  BY CopyIsSound, CopyType
<1> HIDE DEF c
<1>3. s \in Sound /\ Has(s.zone, n)
  <2>1. c \in Tree /\ WellFormed(c) /\ PointersUp(c)
    BY <1>2 DEF Sound
  <2>2. /\ s \in Tree /\ WellFormed(s) /\ s.zone = IncrementSerial(c.zone, n)
        /\ PointersUp(s)
    BY <2>1, WithSerialFacts, SerialPointers
  <2>3. Has(s.zone, n)
    BY <1>2, <2>2, IncrementSerialFacts
  <2> QED  BY <2>2, <2>3 DEF Sound
<1>4. PointersUp(Erase(s, n))
  BY <1>3, ErasePointers
<1> QED  BY <1>1, <1>4 DEF Sound, c
=============================================================================
