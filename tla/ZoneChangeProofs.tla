-------------------------- MODULE ZoneChangeProofs --------------------------
(***************************************************************************)
(* Facts about the edits of ZoneTree, for any set of names: each one of    *)
(* them takes a tree to a tree that is one Change away.                    *)
(***************************************************************************)
EXTENDS ZoneChange, TLAPS, SequenceTheorems, WellFoundedInduction

ZoneMap == [Name -> ZoneData \cup {NoZone}]

-----------------------------------------------------------------------------
(* Names and prefixes.                                                     *)

\* A name is a nonempty sequence, and its parent is a name or the root.
LEMMA NameFacts ==
    ASSUME NEW n \in Name
    PROVE  /\ n \in Seq(Label)
           /\ Len(n) \in Nat \ {0}
           /\ Parent(n) \in Name \cup {Root}
           /\ Parent(n) \in Seq(Label)
           /\ Len(Parent(n)) = Len(n) - 1
           /\ Parent(n) # n
<1>1. n \in Seq(Label) /\ n # Root
  BY NameAssumption
<1>2. Len(n) \in Nat \ {0}
  BY <1>1 DEF Root
<1>3. CASE Len(n) = 1
  BY <1>1, <1>3 DEF Parent, Front, Root
<1>4. CASE Len(n) > 1
  <2>1. SubSeq(n, 1, Len(n) - 1) \in Name
    BY <1>2, <1>4, NameAssumption
  <2> QED  BY <1>1, <1>2, <1>4, <2>1 DEF Parent, Front
<1>5. Len(n) = 1 \/ Len(n) > 1
  BY <1>2
<1> QED  BY <1>3, <1>4, <1>5

\* IsPrefix compares label by label.
LEMMA PrefixPointwise ==
    ASSUME NEW m \in Seq(Label), NEW n \in Seq(Label)
    PROVE  IsPrefix(m, n) <=> Len(m) <= Len(n) /\ \A i \in 1..Len(m) : m[i] = n[i]
<1>1. ASSUME IsPrefix(m, n), NEW i \in 1..Len(m) PROVE m[i] = n[i]
  BY <1>1 DEF IsPrefix
<1>2. ASSUME Len(m) <= Len(n), \A i \in 1..Len(m) : m[i] = n[i]
      PROVE  SubSeq(m, 1, Len(m)) = SubSeq(n, 1, Len(m))
  BY <1>2
<1> QED  BY <1>1, <1>2 DEF IsPrefix

\* A name is a prefix of itself: IncrementSerial starts at the node itself.
LEMMA PrefixReflexive ==
    ASSUME NEW n \in Seq(Label) PROVE IsPrefix(n, n)
BY PrefixPointwise

\* What is above a name on the way up is above all below it.
LEMMA PrefixTransitive ==
    ASSUME NEW k \in Seq(Label), NEW m \in Seq(Label), NEW n \in Seq(Label),
           IsPrefix(k, m), IsPrefix(m, n)
    PROVE  IsPrefix(k, n)
BY PrefixPointwise

\* Two prefixes of a name with the same length are the same.
LEMMA PrefixUnique ==
    ASSUME NEW k \in Seq(Label), NEW m \in Seq(Label), NEW n \in Seq(Label),
           IsPrefix(k, n), IsPrefix(m, n), Len(k) = Len(m)
    PROVE  k = m
<1>1. \A i \in 1..Len(k) : k[i] = m[i]
  BY PrefixPointwise
<1> QED  BY <1>1

\* Prefixes of one name are ordered by length.
LEMMA PrefixOrdered ==
    ASSUME NEW k \in Seq(Label), NEW m \in Seq(Label), NEW n \in Seq(Label),
           IsPrefix(k, n), IsPrefix(m, n), Len(k) <= Len(m)
    PROVE  IsPrefix(k, m)
BY PrefixPointwise

\* A parent is a prefix of its child, and a proper prefix of it one of the parent.
LEMMA PrefixParent ==
    ASSUME NEW m \in Seq(Label), NEW n \in Name
    PROVE  /\ IsPrefix(Parent(n), n)
           /\ IsPrefix(m, n) /\ m # n => IsPrefix(m, Parent(n))
           /\ IsPrefix(m, Parent(n)) => IsPrefix(m, n) /\ m # n
<1>0. /\ n \in Seq(Label) /\ Parent(n) \in Seq(Label)
      /\ Len(n) \in Nat \ {0} /\ Len(Parent(n)) = Len(n) - 1
  BY NameFacts
<1>1. \A i \in 1..(Len(n) - 1) : Parent(n)[i] = n[i]
  BY <1>0 DEF Parent, Front
<1>2. IsPrefix(Parent(n), n)
  BY <1>0, <1>1, PrefixPointwise
<1>3. ASSUME IsPrefix(m, n), m # n PROVE IsPrefix(m, Parent(n))
  <2>1. Len(m) # Len(n)
    BY <1>0, <1>3, PrefixReflexive, PrefixUnique
  <2>2. Len(m) <= Len(Parent(n))
    BY <1>0, <1>3, <2>1, PrefixPointwise
  <2> QED  BY <1>0, <1>2, <1>3, <2>2, PrefixOrdered
<1>4. ASSUME IsPrefix(m, Parent(n)) PROVE IsPrefix(m, n) /\ m # n
  <2>1. Len(m) <= Len(n) - 1
    BY <1>0, <1>4, PrefixPointwise
  <2> QED  BY <1>0, <1>2, <1>4, <2>1, PrefixTransitive
<1> QED  BY <1>2, <1>3, <1>4

-----------------------------------------------------------------------------
(* IncrementSerial.                                                        *)

\* A serial that is incremented is a serial, also where it wraps.
LEMMA BumpedType ==
    ASSUME NEW z \in ZoneData, z.soa # NoSoa
    PROVE  /\ Bumped(z) \in ZoneData
           /\ Bumped(z).soa # NoSoa
           /\ Bumped(z).authorative = z.authorative
           /\ Exclusive(Bumped(z)) <=> Exclusive(z)
<1>1. z.soa \in 0..(SerialMod - 1) /\ SerialMod \in Nat \ {0}
  BY MarkAssumption DEF ZoneData
<1>2. (z.soa + 1) % SerialMod \in 0..(SerialMod - 1)
  BY <1>1
<1>3. (z.soa + 1) % SerialMod \in Nat /\ NoSoa \notin Nat
  BY <1>1, <1>2, MarkAssumption
<1> QED  BY <1>2, <1>3 DEF ZoneData, Bumped, Exclusive

\* There is one nearest authority whenever there is an authority.
LEMMA NearestUnique ==
    ASSUME NEW s \in ZoneMap, NEW n \in Name,
           NEW m \in Nearest(s, n), NEW k \in Nearest(s, n)
    PROVE  m = k
<1>1. /\ m \in Name /\ k \in Name /\ IsPrefix(m, n) /\ IsPrefix(k, n)
      /\ Len(m) <= Len(k) /\ Len(k) <= Len(m)
  BY DEF Nearest, Authorities
<1>2. Len(m) = Len(k)
  BY <1>1, NameFacts
<1> QED  BY <1>1, <1>2, NameFacts, PrefixUnique

\* When there is an authority at all, one of them is the nearest.
LEMMA NearestExists ==
    ASSUME NEW s \in ZoneMap, NEW n \in Name, Authorities(s, n) # {}
    PROVE  Nearest(s, n) # {}
<1> DEFINE Gap == {Len(n) - Len(m) : m \in Authorities(s, n)}
<1>1. \A m \in Authorities(s, n) : m \in Name /\ Len(m) \in Nat /\ Len(m) <= Len(n)
  BY NameFacts, PrefixPointwise DEF Authorities
<1>2. Gap \subseteq Nat /\ Gap # {}
  BY <1>1, NameFacts
<1>3. PICK g \in Gap : \A h \in Gap : ~(<<h, g>> \in OpToRel(<, Nat))
  <2> HIDE DEF Gap
  <2> QED  BY <1>2, NatLessThanWellFounded, WFMin
<1>4. \A h \in Gap : g <= h
  <2>1. ASSUME NEW h \in Nat, NEW i \in Nat, h < i PROVE <<h, i>> \in OpToRel(<, Nat)
    BY <2>1, Zenon DEF OpToRel
  <2>2. \A h \in Gap : ~(h < g)
    <3> HIDE DEF Gap
    <3> QED  BY <1>2, <1>3, <2>1, Zenon
  <2> QED  BY <1>2, <2>2
<1>5. PICK m \in Authorities(s, n) : g = Len(n) - Len(m)
  OBVIOUS
<1>6. \A k \in Authorities(s, n) : Len(k) <= Len(m)
  <2> TAKE k \in Authorities(s, n)
  <2>1. Len(n) - Len(m) <= Len(n) - Len(k)
    BY <1>4, <1>5
  <2> QED  BY <1>1, <2>1, NameFacts
<1> QED  BY <1>6 DEF Nearest

\* IncrementSerial changes at most the serial of the nearest authority.
LEMMA IncrementSerialFacts ==
    ASSUME NEW s \in ZoneMap, NEW n \in Name
    PROVE  /\ IncrementSerial(s, n) \in ZoneMap
           /\ \A m \in Name : Has(IncrementSerial(s, n), m) <=> Has(s, m)
           /\ \A m \in Name : Has(s, m) =>
                (Exclusive(IncrementSerial(s, n)[m]) <=> Exclusive(s[m]))
           /\ \A m \in Name : IncrementSerial(s, n)[m] =
                IF m \in Nearest(s, n) THEN Bumped(s[m]) ELSE s[m]
           /\ \A k : Authorities(IncrementSerial(s, n), k) = Authorities(s, k)
<1> DEFINE t == IncrementSerial(s, n)
<1>1. \A m \in Name : t[m] = IF m \in Nearest(s, n) THEN Bumped(s[m]) ELSE s[m]
  BY DEF IncrementSerial
<1>2. \A m \in Nearest(s, n) : s[m] \in ZoneData /\ s[m].soa # NoSoa
  BY DEF Nearest, Authorities, Has, ZoneMap
<1>3. \A m \in Name :
        /\ t[m] \in ZoneData \cup {NoZone}
        /\ Has(t, m) <=> Has(s, m)
        /\ Has(s, m) => /\ t[m].soa # NoSoa <=> s[m].soa # NoSoa
                        /\ t[m].authorative <=> s[m].authorative
                        /\ Exclusive(t[m]) <=> Exclusive(s[m])
  <2> TAKE m \in Name
  <2>1. CASE m \in Nearest(s, n)
    BY <1>1, <1>2, <2>1, BumpedType, NoZoneAssumption DEF Has
  <2>2. CASE m \notin Nearest(s, n)
    BY <1>1, <2>2 DEF Has, ZoneMap
  <2> QED  BY <2>1, <2>2
<1>4. t \in ZoneMap
  BY <1>3 DEF ZoneMap, IncrementSerial
<1>5. ASSUME NEW k PROVE Authorities(t, k) = Authorities(s, k)
  BY <1>3 DEF Authorities
<1> QED  BY <1>1, <1>3, <1>4, <1>5

\* Seen from a Change: its serial moves, and no other one.
LEMMA IncrementSerialMoves ==
    ASSUME NEW s \in ZoneMap, NEW n \in Name, Authorities(s, n) # {}
    PROVE  /\ \E m \in Authorities(s, n) : SerialMoved(s, IncrementSerial(s, n), n, m)
           /\ \A m \in Name : \/ IncrementSerial(s, n)[m] = s[m]
                              \/ SerialMoved(s, IncrementSerial(s, n), n, m)
           /\ \A m, k \in Name : IncrementSerial(s, n)[m] # s[m]
                /\ IncrementSerial(s, n)[k] # s[k] => m = k
<1>1. \A m \in Nearest(s, n) : /\ m \in Authorities(s, n)
                               /\ SerialMoved(s, IncrementSerial(s, n), n, m)
  BY IncrementSerialFacts DEF SerialMoved, Nearest, Authorities
<1>2. \A m \in Name : IncrementSerial(s, n)[m] # s[m] => m \in Nearest(s, n)
  BY IncrementSerialFacts
<1> QED  BY <1>1, <1>2, NearestExists, NearestUnique

-----------------------------------------------------------------------------
(* Child vectors.                                                          *)

\* emplace_back of a new child adds just that child.
LEMMA AppendFacts ==
    ASSUME NEW S, NEW q \in Seq(S), NEW x \in S, IsInjective(q), x \notin Range(q)
    PROVE  /\ Append(q, x) \in Seq(S)
           /\ IsInjective(Append(q, x))
           /\ Range(Append(q, x)) = Range(q) \cup {x}
<1> DEFINE r == Append(q, x)
<1>1. /\ r \in Seq(S) /\ Len(r) = Len(q) + 1 /\ Len(q) \in Nat
      /\ \A i \in 1..Len(q) : r[i] = q[i]
      /\ r[Len(q) + 1] = x
      /\ DOMAIN r = 1..(Len(q) + 1) /\ DOMAIN q = 1..Len(q)
  OBVIOUS
<1> HIDE DEF r
<1>2. Range(r) = Range(q) \cup {x}
  <2>1. ASSUME NEW i \in DOMAIN r PROVE r[i] \in Range(q) \cup {x}
    BY <1>1 DEF Range
  <2>2. ASSUME NEW y \in Range(q) \cup {x} PROVE \E i \in DOMAIN r : r[i] = y
    BY <1>1 DEF Range
  <2> QED  BY <2>1, <2>2 DEF Range
<1>3. IsInjective(r)
  <2> SUFFICES ASSUME NEW i \in DOMAIN r, NEW j \in DOMAIN r, r[i] = r[j]
               PROVE  i = j
    BY DEF IsInjective
  <2>1. CASE i \in 1..Len(q) /\ j \in 1..Len(q)
    BY <1>1, <2>1 DEF IsInjective
  <2>2. CASE i = Len(q) + 1 \/ j = Len(q) + 1
    BY <1>1, <2>2 DEF Range
  <2> QED  BY <1>1, <2>1, <2>2
<1> QED  BY <1>1, <1>2, <1>3 DEF r

\* erase of a slot removes just that child.
LEMMA RemoveAtFacts ==
    ASSUME NEW S, NEW q \in Seq(S), NEW k \in DOMAIN q, IsInjective(q)
    PROVE  /\ RemoveAt(q, k) \in Seq(S)
           /\ IsInjective(RemoveAt(q, k))
           /\ Range(RemoveAt(q, k)) = Range(q) \ {q[k]}
<1> DEFINE r == RemoveAt(q, k)
<1>0. k \in 1..Len(q) /\ Len(q) \in Nat /\ DOMAIN q = 1..Len(q)
  OBVIOUS
<1> DEFINE before == SubSeq(q, 1, k - 1)
           after  == SubSeq(q, k + 1, Len(q))
<1>1. /\ before \in Seq(S) /\ Len(before) = k - 1
      /\ \A i \in 1..(k - 1) : before[i] = q[i]
  BY <1>0
<1>2. /\ after \in Seq(S) /\ Len(after) = Len(q) - k
      /\ \A i \in 1..(Len(q) - k) : after[i] = q[k + i]
  BY <1>0
<1>3. /\ r \in Seq(S) /\ Len(r) = Len(q) - 1 /\ DOMAIN r = 1..(Len(q) - 1)
      /\ \A i \in 1..(Len(q) - 1) : r[i] = q[IF i < k THEN i ELSE i + 1]
  <2> HIDE DEF before, after
  <2>1. r = before \o after
    BY DEF RemoveAt, before, after
  <2> HIDE DEF r
  <2>0. /\ before \o after \in Seq(S)
        /\ Len(before \o after) = Len(before) + Len(after)
        /\ \A i \in 1..(Len(before) + Len(after)) : (before \o after)[i] =
             IF i <= Len(before) THEN before[i] ELSE after[i - Len(before)]
    BY <1>1, <1>2, ConcatProperties
  <2>2. r \in Seq(S) /\ Len(r) = Len(q) - 1 /\ DOMAIN r = 1..(Len(q) - 1)
    <3>1. r \in Seq(S) /\ Len(r) = Len(before) + Len(after)
      BY <2>0, <2>1
    <3>2. Len(before) + Len(after) = Len(q) - 1
      BY <1>0, <1>1, <1>2
    <3> QED  BY <3>1, <3>2
  <2>3. ASSUME NEW i \in 1..(Len(q) - 1), i < k PROVE r[i] = q[i]
    BY <1>0, <1>1, <1>2, <2>0, <2>1, <2>3
  <2>4. ASSUME NEW i \in 1..(Len(q) - 1), ~(i < k) PROVE r[i] = q[i + 1]
    <3>1. r[i] = after[i - (k - 1)]
      BY <1>0, <1>1, <1>2, <2>0, <2>1, <2>4, SMTT(30)
    <3>2. i - (k - 1) \in 1..(Len(q) - k) /\ k + (i - (k - 1)) = i + 1
      BY <1>0, <2>4
    <3> QED  BY <1>2, <3>1, <3>2
  <2> QED  BY <2>2, <2>3, <2>4
<1> HIDE DEF r, before, after
<1>6. IsInjective(r)
  <2> SUFFICES ASSUME NEW i \in DOMAIN r, NEW j \in DOMAIN r, r[i] = r[j]
               PROVE  i = j
    BY DEF IsInjective
  <2> DEFINE f(x) == IF x < k THEN x ELSE x + 1
  <2>1. f(i) \in DOMAIN q /\ f(j) \in DOMAIN q /\ r[i] = q[f(i)] /\ r[j] = q[f(j)]
    BY <1>0, <1>3
  <2>2. f(i) = f(j)
    BY <2>1 DEF IsInjective
  <2> QED  BY <1>0, <1>3, <2>2
<1>4. ASSUME NEW i \in DOMAIN r PROVE r[i] \in Range(q) \ {q[k]}
  <2>1. CASE i < k
    BY <1>0, <1>3, <2>1 DEF Range, IsInjective
  <2>2. CASE ~(i < k)
    BY <1>0, <1>3, <2>2 DEF Range, IsInjective
  <2> QED  BY <2>1, <2>2
<1>5. ASSUME NEW y \in Range(q) \ {q[k]} PROVE \E i \in DOMAIN r : r[i] = y
  <2>1. PICK j \in 1..Len(q) : q[j] = y /\ j # k
    BY <1>0 DEF Range
  <2>2. CASE j < k
    BY <1>0, <1>3, <2>1, <2>2
  <2>3. CASE j > k
    <3>1. j - 1 \in DOMAIN r /\ r[j - 1] = q[j]
      BY <1>0, <1>3, <2>1, <2>3
    <3> QED  BY <2>1, <3>1
  <2> QED  BY <1>0, <2>1, <2>2, <2>3
<1> QED  BY <1>3, <1>6, <1>4, <1>5, ZenonT(30) DEF r, Range

-----------------------------------------------------------------------------
(* The copy that an edit starts from.                                      *)

\* Init gives every node of an image its parent.
LEMMA CopyZonesFacts ==
    ASSUME NEW i \in Image
    PROVE  InitParents(i) \in Tree
<1>1. \A n \in Name : Parent(n) \in Name \cup {Root, Dangling}
  BY NameFacts
<1> QED  BY <1>1 DEF InitParents, Tree, Image

\* CopyZones keeps the nodes and the child vectors.
LEMMA CopyType ==
    ASSUME NEW t \in Tree
    PROVE  /\ CopyZones(t) \in Tree
           /\ Serialized(t) \in Image
           /\ CopyZones(t).zone = t.zone
           /\ CopyZones(t).children = t.children
           /\ t.zone \in ZoneMap
<1>1. Serialized(t) \in Image /\ t.zone \in ZoneMap
  BY DEF Serialized, Image, Tree, ZoneMap
<1> QED  BY <1>1, CopyZonesFacts DEF CopyZones, InitParents, Serialized

\* Giving the tree its new serial keeps it a tree.
LEMMA WithSerialFacts ==
    ASSUME NEW t \in Tree, NEW n \in Name
    PROVE  /\ WithSerial(t, n) \in Tree
           /\ WithSerial(t, n).zone = IncrementSerial(t.zone, n)
           /\ WithSerial(t, n).children = t.children
           /\ WithSerial(t, n).parent = t.parent
           /\ WellFormed(t) => WellFormed(WithSerial(t, n))
<1>1. t.zone \in ZoneMap
  BY CopyType
<1>2. /\ WithSerial(t, n) \in Tree
      /\ WithSerial(t, n).zone = IncrementSerial(t.zone, n)
      /\ WithSerial(t, n).children = t.children
      /\ WithSerial(t, n).parent = t.parent
  BY <1>1, IncrementSerialFacts DEF WithSerial, Tree, ZoneMap
<1>3. \A m : Has(IncrementSerial(t.zone, n), m) <=> Has(t.zone, m)
  BY <1>1, IncrementSerialFacts DEF Has
<1> QED  BY <1>2, <1>3 DEF WellFormed, Closed

\* assign keeps the type, and makes no zone break the rule about cnames.
LEMMA AssignedType ==
    ASSUME NEW z \in ZoneData
    PROVE  /\ Assigned(z) \in ZoneData
           /\ Exclusive(z) => Exclusive(Assigned(z))
BY MarkAssumption, ZenonT(30) DEF ZoneData, Assigned, StringOf, Opt, Exclusive

-----------------------------------------------------------------------------
(* Update.                                                                 *)

\* What Update commits is a tree, one change away from the tree it copied.
LEMMA AssignIsChange ==
    ASSUME NEW t \in Tree, WellFormed(t), NEW n \in Name, Has(t.zone, n),
           NEW z \in ZoneData, Exclusive(z),
           Authorities(Assign(CopyZones(t), n, z).zone, n) # {}
    PROVE  /\ WithSerial(Assign(CopyZones(t), n, z), n) \in Tree
           /\ WellFormed(WithSerial(Assign(CopyZones(t), n, z), n))
           /\ Change(t.zone, WithSerial(Assign(CopyZones(t), n, z), n).zone)
<1> DEFINE u == Assign(CopyZones(t), n, z)
           v == IncrementSerial(u.zone, n)
<1>1. /\ u \in Tree /\ u.zone \in ZoneMap /\ u.children = t.children
      /\ u.zone[n] = Assigned(z)
      /\ \A m \in Name \ {n} : u.zone[m] = t.zone[m]
  <2>1. /\ CopyZones(t) \in Tree /\ CopyZones(t).zone = t.zone
        /\ CopyZones(t).children = t.children /\ Assigned(z) \in ZoneData
    BY CopyType, AssignedType
  <2> QED  BY <2>1 DEF Assign, Tree, ZoneMap
<1> HIDE DEF u
<1>2. \A m : Has(u.zone, m) <=> Has(t.zone, m)
  BY <1>1, AssignedType, NoZoneAssumption DEF Has
<1>3. WellFormed(u)
  BY <1>1, <1>2 DEF WellFormed, Closed
<1>4. /\ WithSerial(u, n) \in Tree /\ WithSerial(u, n).zone = v
      /\ WellFormed(WithSerial(u, n))
  BY <1>1, <1>3, WithSerialFacts
<1>5. /\ \E m \in Authorities(u.zone, n) : SerialMoved(u.zone, v, n, m)
      /\ \A m \in Name : v[m] = u.zone[m] \/ SerialMoved(u.zone, v, n, m)
      /\ \A m, k \in Name : v[m] # u.zone[m] /\ v[k] # u.zone[k] => m = k
      /\ Authorities(v, n) = Authorities(u.zone, n)
      /\ Has(v, n)
      /\ Exclusive(v[n])
  <2>1. Authorities(u.zone, n) # {}
    BY DEF u
  <2>2. /\ \E m \in Authorities(u.zone, n) : SerialMoved(u.zone, v, n, m)
        /\ \A m \in Name : v[m] = u.zone[m] \/ SerialMoved(u.zone, v, n, m)
        /\ \A m, k \in Name : v[m] # u.zone[m] /\ v[k] # u.zone[k] => m = k
    BY <1>1, <2>1, IncrementSerialMoves
  <2>3. Authorities(v, n) = Authorities(u.zone, n) /\ Has(v, n)
    BY <1>1, <1>2, IncrementSerialFacts
  <2>4. Exclusive(v[n])
    BY <1>1, <1>2, AssignedType, IncrementSerialFacts
  <2> QED  BY <2>2, <2>3, <2>4
<1> HIDE DEF v
<1>6. \A m \in Name \ {n} : SerialMoved(u.zone, v, n, m) => SerialMoved(t.zone, v, n, m)
  BY <1>1, <1>2 DEF SerialMoved
<1>7. Written(t.zone, v, n)
  <2>1. \E m \in Authorities(v, n) : m = n \/ SerialMoved(t.zone, v, n, m)
    BY <1>5, <1>6 DEF Authorities
  <2>2. \A m \in Name \ {n} : v[m] = t.zone[m] \/ SerialMoved(t.zone, v, n, m)
    BY <1>1, <1>5, <1>6
  <2>3. OneSerial(t.zone, v, n)
    BY <1>1, <1>5 DEF OneSerial
  <2> QED  BY <1>5, <2>1, <2>2, <2>3 DEF Written
<1>8. Change(t.zone, v)
  BY <1>4, <1>7 DEF Change, WellFormed
<1> QED  BY <1>4, <1>8 DEF u

-----------------------------------------------------------------------------
(* CreateZone.                                                             *)

\* The child of p towards n is a name; the prefixes of n below p are those.
LEMMA TowardFacts ==
    ASSUME NEW n \in Name, NEW p \in Name \cup {Root}
    PROVE  /\ IsStrictPrefix(p, n) =>
                /\ Toward(p, n) \in Name
                /\ IsPrefix(Toward(p, n), n)
                /\ Parent(Toward(p, n)) = p
           /\ \A m \in Name : IsPrefix(m, n) /\ Parent(m) = p
                => IsStrictPrefix(p, n) /\ m = Toward(p, n)
<1>0. /\ n \in Seq(Label) /\ p \in Seq(Label) /\ Len(n) \in Nat \ {0} /\ Len(p) \in Nat
  <2>1. Root \in Seq(Label) /\ Len(Root) = 0
    BY DEF Root
  <2>2. n \in Seq(Label) /\ Len(n) \in Nat \ {0}
    BY NameFacts
  <2>3. CASE p \in Name
    BY <2>2, <2>3, NameFacts
  <2>4. CASE p = Root
    BY <2>1, <2>2, <2>4
  <2> QED  BY <2>3, <2>4
<1>1. ASSUME IsStrictPrefix(p, n)
      PROVE  /\ Toward(p, n) \in Name
             /\ IsPrefix(Toward(p, n), n)
             /\ Parent(Toward(p, n)) = p
  <2>1. Len(p) < Len(n)
    <3>1. Len(p) <= Len(n)
      BY <1>0, <1>1, PrefixPointwise DEF IsStrictPrefix
    <3>2. Len(p) # Len(n)
      BY <1>0, <1>1, PrefixUnique, PrefixReflexive DEF IsStrictPrefix
    <3> QED  BY <1>0, <3>1, <3>2
  <2>2. Toward(p, n) \in Name /\ Toward(p, n) \in Seq(Label) /\ Len(Toward(p, n)) = Len(p) + 1
    BY <1>0, <2>1, NameAssumption DEF Toward
  <2>3. IsPrefix(Toward(p, n), n)
    <3>1. \A i \in 1..(Len(p) + 1) : Toward(p, n)[i] = n[i]
      BY <1>0, <2>1 DEF Toward
    <3> QED  BY <1>0, <2>1, <2>2, <3>1, PrefixPointwise
  <2>4. Parent(Toward(p, n)) = p
    <3>1. /\ Parent(Toward(p, n)) \in Seq(Label)
          /\ Len(Parent(Toward(p, n))) = Len(p)
          /\ IsPrefix(Parent(Toward(p, n)), Toward(p, n))
      BY <1>0, <2>2, NameFacts, PrefixParent
    <3>2. IsPrefix(Parent(Toward(p, n)), n)
      BY <1>0, <2>2, <2>3, <3>1, PrefixTransitive
    <3> QED  BY <1>0, <1>1, <3>1, <3>2, PrefixUnique DEF IsStrictPrefix
  <2> QED  BY <2>2, <2>3, <2>4
<1>2. ASSUME NEW m \in Name, IsPrefix(m, n), Parent(m) = p
      PROVE  IsStrictPrefix(p, n) /\ m = Toward(p, n)
  <2>1. /\ m \in Seq(Label) /\ Len(m) \in Nat /\ Len(p) = Len(m) - 1 /\ IsPrefix(p, m)
    BY <1>2, NameFacts, PrefixParent
  <2>2. IsPrefix(p, n) /\ Len(p) < Len(n)
    BY <1>0, <1>2, <2>1, PrefixTransitive, PrefixPointwise
  <2>3. IsStrictPrefix(p, n)
    BY <1>0, <2>2 DEF IsStrictPrefix
  <2>4. /\ Toward(p, n) \in Seq(Label) /\ Len(Toward(p, n)) = Len(m)
        /\ IsPrefix(Toward(p, n), n)
    BY <1>0, <1>1, <2>1, <2>2, <2>3 DEF Toward
  <2> QED  BY <1>0, <1>2, <2>1, <2>3, <2>4, PrefixUnique
<1> QED  BY <1>1, <1>2

\* CreateZone's walk keeps the tree well formed and writes only what is missing.
LEMMA InsertIsTree ==
    ASSUME NEW t \in Tree, WellFormed(t), NEW n \in Name, ~Has(t.zone, n),
           NEW z \in ZoneData
    PROVE  /\ Insert(t, n, z) \in Tree
           /\ WellFormed(Insert(t, n, z))
           /\ \A m \in Name : Insert(t, n, z).zone[m] =
                IF m = n THEN Assigned(z)
                ELSE IF IsPrefix(m, n) /\ t.zone[m] = NoZone THEN Blank
                ELSE t.zone[m]
<1> DEFINE u == Insert(t, n, z)
           New(p) == IsStrictPrefix(p, n) /\ ~Has(t.zone, Toward(p, n))
<1>1. Assigned(z) \in ZoneData /\ Blank \in ZoneData
  BY AssignedType DEF Blank, ZoneData, Opt
<1>2. \A m \in Name : u.zone[m] =
        IF m = n THEN Assigned(z)
        ELSE IF IsPrefix(m, n) /\ t.zone[m] = NoZone THEN Blank
        ELSE t.zone[m]
  BY DEF Insert
<1>3. \A p \in Name \cup {Root} : u.children[p] =
        IF New(p) THEN Append(t.children[p], Toward(p, n)) ELSE t.children[p]
  BY DEF Insert
<1>4. \A m \in Name : Has(u.zone, m) <=> Has(t.zone, m) \/ IsPrefix(m, n)
  BY <1>1, <1>2, NameFacts, PrefixReflexive, NoZoneAssumption DEF Has
<1>5. ASSUME NEW p \in Name \cup {Root}
      PROVE  /\ u.children[p] \in Seq(Name)
             /\ IsInjective(u.children[p])
             /\ Range(u.children[p]) = {m \in Name : Has(u.zone, m) /\ Parent(m) = p}
  <2>1. /\ t.children[p] \in Seq(Name) /\ IsInjective(t.children[p])
        /\ Range(t.children[p]) = {m \in Name : Has(t.zone, m) /\ Parent(m) = p}
    BY DEF Tree, WellFormed
  <2>2. CASE New(p)
    <3>1. /\ Toward(p, n) \in Name /\ Parent(Toward(p, n)) = p
          /\ IsPrefix(Toward(p, n), n) /\ Toward(p, n) \notin Range(t.children[p])
      BY <2>1, <2>2, TowardFacts
    <3>2. {m \in Name : Has(u.zone, m) /\ Parent(m) = p}
            = {m \in Name : Has(t.zone, m) /\ Parent(m) = p} \cup {Toward(p, n)}
      BY <1>4, <3>1, TowardFacts
    <3>3. u.children[p] = Append(t.children[p], Toward(p, n))
      BY <1>3, <2>2
    <3>4. /\ Append(t.children[p], Toward(p, n)) \in Seq(Name)
          /\ IsInjective(Append(t.children[p], Toward(p, n)))
          /\ Range(Append(t.children[p], Toward(p, n)))
                = Range(t.children[p]) \cup {Toward(p, n)}
      BY <2>1, <3>1, AppendFacts
    <3> HIDE DEF u
    <3> QED  BY <2>1, <3>2, <3>3, <3>4
  <2>3. CASE ~New(p)
    <3>1. \A m \in Name : Has(u.zone, m) /\ Parent(m) = p => Has(t.zone, m)
      BY <1>4, <2>3, TowardFacts
    <3>2. {m \in Name : Has(u.zone, m) /\ Parent(m) = p}
            = {m \in Name : Has(t.zone, m) /\ Parent(m) = p}
      BY <1>4, <3>1
    <3> QED  BY <1>3, <2>1, <2>3, <3>2
  <2> QED  BY <2>2, <2>3
<1>6. u \in Tree
  <2>1. u.zone \in [Name -> ZoneData \cup {NoZone}]
    <3>1. \A m \in Name : u.zone[m] \in ZoneData \cup {NoZone}
      BY <1>1, <1>2 DEF Tree
    <3> QED  BY <3>1 DEF Insert
  <2>2. u.children \in [Name \cup {Root} -> Seq(Name)]
    BY <1>5 DEF Insert
  <2>3. u.parent \in [Name -> Name \cup {Root, Dangling}]
    BY DEF Insert, Tree
  <2>4. u = [zone |-> u.zone, children |-> u.children, parent |-> u.parent]
    BY DEF Insert
  <2> HIDE DEF u
  <2> QED  BY <2>1, <2>2, <2>3, <2>4 DEF Tree
<1>7. Closed(u.zone)
  <2> SUFFICES ASSUME NEW m \in Name, Has(u.zone, m), Parent(m) # Root
               PROVE  Has(u.zone, Parent(m))
    BY DEF Closed
  <2>1. /\ Parent(m) \in Name /\ m \in Seq(Label) /\ Parent(m) \in Seq(Label)
        /\ n \in Seq(Label) /\ IsPrefix(Parent(m), m)
    BY NameFacts, PrefixParent
  <2>2. CASE IsPrefix(m, n)
    BY <1>4, <2>1, <2>2, PrefixTransitive
  <2>3. CASE Has(t.zone, m)
    BY <1>4, <2>1, <2>3 DEF WellFormed, Closed
  <2> QED  BY <1>4, <2>2, <2>3
<1>8. WellFormed(u)
  BY <1>5, <1>7 DEF WellFormed
<1> QED  BY <1>2, <1>6, <1>8

\* What CreateZone commits is a tree, one change away from the tree it copied.
LEMMA InsertIsChange ==
    ASSUME NEW t \in Tree, WellFormed(t), NEW n \in Name, ~Has(t.zone, n),
           NEW z \in ZoneData, Exclusive(z),
           Authorities(Insert(CopyZones(t), n, z).zone, n) # {}
    PROVE  /\ WithSerial(Insert(CopyZones(t), n, z), n) \in Tree
           /\ WellFormed(WithSerial(Insert(CopyZones(t), n, z), n))
           /\ Change(t.zone, WithSerial(Insert(CopyZones(t), n, z), n).zone)
<1> DEFINE c == CopyZones(t)
           u == Insert(c, n, z)
           v == IncrementSerial(u.zone, n)
<1>1. c \in Tree /\ WellFormed(c) /\ c.zone = t.zone
  BY CopyType DEF WellFormed
<1>2. /\ u \in Tree /\ WellFormed(u)
      /\ \A m \in Name : u.zone[m] =
            IF m = n THEN Assigned(z)
            ELSE IF IsPrefix(m, n) /\ t.zone[m] = NoZone THEN Blank
            ELSE t.zone[m]
  <2> HIDE DEF c
  <2> QED  BY <1>1, InsertIsTree
<1>3. u.zone \in ZoneMap /\ Authorities(u.zone, n) # {}
  BY <1>2, CopyType
<1> HIDE DEF c, u
<1>4. /\ WithSerial(u, n) \in Tree /\ WithSerial(u, n).zone = v
      /\ WellFormed(WithSerial(u, n))
  BY <1>2, WithSerialFacts
<1>5. /\ \E m \in Authorities(u.zone, n) : SerialMoved(u.zone, v, n, m)
      /\ \A m \in Name : v[m] = u.zone[m] \/ SerialMoved(u.zone, v, n, m)
      /\ \A m, k \in Name : v[m] # u.zone[m] /\ v[k] # u.zone[k] => m = k
  BY <1>3, IncrementSerialMoves
<1>6. Authorities(v, n) = Authorities(u.zone, n)
  BY <1>3, IncrementSerialFacts
<1>7. Has(v, n) /\ Exclusive(v[n])
  <2>1. Has(u.zone, n) /\ Exclusive(u.zone[n])
    BY <1>2, AssignedType, NoZoneAssumption DEF Has
  <2> QED  BY <1>3, <2>1, IncrementSerialFacts
<1> HIDE DEF v
<1>8. \A m \in Name \ {n} : SerialMoved(u.zone, v, n, m) => SerialMoved(t.zone, v, n, m)
  <2> SUFFICES ASSUME NEW m \in Name \ {n}, SerialMoved(u.zone, v, n, m)
               PROVE  SerialMoved(t.zone, v, n, m)
    OBVIOUS
  <2>1. u.zone[m] # Blank
    BY DEF SerialMoved, Blank
  <2>2. u.zone[m] = t.zone[m]
    BY <1>2, <2>1
  <2> QED  BY <2>2 DEF SerialMoved, Has
<1>9. Written(t.zone, v, n)
  <2>1. \E m \in Authorities(v, n) : m = n \/ SerialMoved(t.zone, v, n, m)
    BY <1>5, <1>6, <1>8 DEF Authorities
  <2>2. \A m \in Name \ {n} : \/ v[m] = t.zone[m]
                              \/ IsPrefix(m, n) /\ t.zone[m] = NoZone /\ v[m] = Blank
                              \/ SerialMoved(t.zone, v, n, m)
    BY <1>2, <1>5, <1>8
  <2>3. OneSerial(t.zone, v, n)
    <3>1. \A m \in Name \ {n} : Has(t.zone, m) => u.zone[m] = t.zone[m]
      BY <1>2 DEF Has
    <3> QED  BY <1>5, <3>1 DEF OneSerial
  <2> QED  BY <1>7, <2>1, <2>2, <2>3 DEF Written
<1>10. Change(t.zone, v)
  BY <1>4, <1>9 DEF Change, WellFormed
<1> QED  BY <1>4, <1>10 DEF u, c

-----------------------------------------------------------------------------
(* Delete.                                                                 *)

\* Delete's erase keeps the tree well formed and removes one subtree.
LEMMA EraseIsTree ==
    ASSUME NEW t \in Tree, WellFormed(t), NEW n \in Name, Has(t.zone, n), Parent(n) # Root
    PROVE  /\ Erase(t, n) \in Tree
           /\ WellFormed(Erase(t, n))
           /\ \A m \in Name : Erase(t, n).zone[m] =
                IF IsPrefix(n, m) THEN NoZone ELSE t.zone[m]
<1> DEFINE u        == Erase(t, n)
           siblings == t.children[Parent(n)]
           slot     == CHOOSE i \in DOMAIN siblings : siblings[i] = n
           After(s) == {i \in DOMAIN siblings : i > slot /\ siblings[i] = s}
<1>0. /\ Parent(n) \in Name /\ n \in Seq(Label) /\ Parent(n) # n
      /\ ~IsPrefix(n, Parent(n))
  BY NameFacts, PrefixParent
<1>1. \A p \in Name \cup {Root} :
        /\ t.children[p] \in Seq(Name) /\ IsInjective(t.children[p])
        /\ Range(t.children[p]) = {m \in Name : Has(t.zone, m) /\ Parent(m) = p}
  BY DEF Tree, WellFormed
<1>2. slot \in DOMAIN siblings /\ siblings[slot] = n
  <2>1. n \in Range(siblings)
    BY <1>0, <1>1
  <2> QED  BY <2>1 DEF Range
<1>3. \A m \in Name : u.zone[m] = IF IsPrefix(n, m) THEN NoZone ELSE t.zone[m]
  BY DEF Erase
<1>4. /\ \A p \in Name \cup {Root} : IsPrefix(n, p) => u.children[p] = << >>
      /\ u.children[Parent(n)] = RemoveAt(siblings, slot)
      /\ \A p \in Name \cup {Root} : ~IsPrefix(n, p) /\ p # Parent(n)
            => u.children[p] = t.children[p]
  BY <1>0 DEF Erase
<1>5. \A m \in Name : Has(u.zone, m) <=> Has(t.zone, m) /\ ~IsPrefix(n, m)
  BY <1>3 DEF Has
<1>6. \A m \in Name : u.parent[m] \in Name \cup {Root, Dangling}
  <2> SUFFICES ASSUME NEW m \in Name PROVE u.parent[m] \in Name \cup {Root, Dangling}
    OBVIOUS
  <2>1. u.parent[m] = IF After(Parent(m)) = {} THEN t.parent[m]
                      ELSE LET i == CHOOSE i \in After(Parent(m)) : TRUE
                           IN  IF i = Len(siblings) THEN Dangling ELSE siblings[i + 1]
    BY DEF Erase
  <2>2. CASE After(Parent(m)) = {}
    BY <2>1, <2>2 DEF Tree
  <2>3. CASE After(Parent(m)) # {}
    <3> DEFINE i == CHOOSE i \in After(Parent(m)) : TRUE
    <3>1. i \in DOMAIN siblings
      BY <2>3
    <3>2. siblings \in Seq(Name)
      BY <1>0, <1>1
    <3> HIDE DEF i
    <3>3. i # Len(siblings) => siblings[i + 1] \in Name
      BY <3>1, <3>2
    <3> QED  BY <2>1, <2>3, <3>3 DEF i
  <2> QED  BY <2>2, <2>3
<1>7. u = [zone |-> u.zone, children |-> u.children, parent |-> u.parent]
      /\ u.zone = [m \in Name |-> u.zone[m]]
      /\ u.children = [p \in Name \cup {Root} |-> u.children[p]]
      /\ u.parent = [m \in Name |-> u.parent[m]]
  BY DEF Erase
<1> HIDE DEF u, slot
<1>8. ASSUME NEW p \in Name \cup {Root}
      PROVE  /\ u.children[p] \in Seq(Name)
             /\ IsInjective(u.children[p])
             /\ Range(u.children[p]) = {m \in Name : Has(u.zone, m) /\ Parent(m) = p}
  <2>1. CASE IsPrefix(n, p)
    <3>1. \A m \in Name : Parent(m) = p => ~Has(u.zone, m)
      BY <1>0, <1>5, <2>1, PrefixParent
    <3>2. /\ << >> \in Seq(Name) /\ IsInjective(<< >>) /\ Range(<< >>) = {}
      BY DEF IsInjective, Range
    <3> QED  BY <1>4, <2>1, <3>1, <3>2
  <2>2. CASE p = Parent(n)
    <3>1. /\ RemoveAt(siblings, slot) \in Seq(Name)
          /\ IsInjective(RemoveAt(siblings, slot))
          /\ Range(RemoveAt(siblings, slot)) = Range(siblings) \ {n}
      BY <1>0, <1>1, <1>2, RemoveAtFacts
    <3>2. \A m \in Name : Parent(m) = p => (Has(u.zone, m) <=> Has(t.zone, m) /\ m # n)
      BY <1>0, <1>5, <2>2, PrefixParent, PrefixReflexive
    <3>3. {m \in Name : Has(u.zone, m) /\ Parent(m) = p} = Range(siblings) \ {n}
      BY <1>0, <1>1, <2>2, <3>2
    <3> QED  BY <1>4, <2>2, <3>1, <3>3
  <2>3. CASE ~IsPrefix(n, p) /\ p # Parent(n)
    <3>1. \A m \in Name : Parent(m) = p => ~IsPrefix(n, m)
      BY <1>0, <2>3, PrefixParent
    <3>2. {m \in Name : Has(u.zone, m) /\ Parent(m) = p} = Range(t.children[p])
      BY <1>1, <1>5, <3>1
    <3> QED  BY <1>1, <1>4, <2>3, <3>2
  <2> QED  BY <2>1, <2>2, <2>3
<1>9. u \in Tree
  <2>1. \A m \in Name : u.zone[m] \in ZoneData \cup {NoZone}
    BY <1>3 DEF Tree
  <2>2. u.zone \in [Name -> ZoneData \cup {NoZone}]
    BY <1>7, <2>1
  <2>3. u.children \in [Name \cup {Root} -> Seq(Name)]
    BY <1>7, <1>8
  <2>4. u.parent \in [Name -> Name \cup {Root, Dangling}]
    BY <1>6, <1>7
  <2> QED  BY <1>7, <2>2, <2>3, <2>4 DEF Tree
<1>10. Closed(u.zone)
  <2> SUFFICES ASSUME NEW m \in Name, Has(u.zone, m), Parent(m) # Root
               PROVE  Has(u.zone, Parent(m))
    BY DEF Closed
  <2>1. Has(t.zone, Parent(m)) /\ Parent(m) \in Name
    BY <1>5, NameFacts DEF WellFormed, Closed
  <2>2. ~IsPrefix(n, Parent(m))
    BY <1>0, <1>5, PrefixParent
  <2> QED  BY <1>5, <2>1, <2>2
<1> QED  BY <1>3, <1>8, <1>9, <1>10 DEF WellFormed, u

\* What Delete commits is a tree, one change away from the tree it copied.
LEMMA EraseIsChange ==
    ASSUME NEW t \in Tree, WellFormed(t), NEW n \in Name, Has(t.zone, n),
           Parent(n) # Root, Authorities(t.zone, n) # {}
    PROVE  /\ Erase(WithSerial(CopyZones(t), n), n) \in Tree
           /\ WellFormed(Erase(WithSerial(CopyZones(t), n), n))
           /\ Change(t.zone, Erase(WithSerial(CopyZones(t), n), n).zone)
<1> DEFINE c == WithSerial(CopyZones(t), n)
           u == Erase(c, n)
<1>1. CopyZones(t) \in Tree /\ CopyZones(t).zone = t.zone /\ WellFormed(CopyZones(t))
      /\ t.zone \in ZoneMap
  BY CopyType DEF WellFormed
<1>2. c \in Tree /\ WellFormed(c) /\ c.zone = IncrementSerial(t.zone, n)
  BY <1>1, WithSerialFacts
<1>3. Has(c.zone, n)
  BY <1>1, <1>2, IncrementSerialFacts
<1> HIDE DEF c
<1>4. /\ u \in Tree /\ WellFormed(u)
      /\ \A m \in Name : u.zone[m] = IF IsPrefix(n, m) THEN NoZone ELSE c.zone[m]
  BY <1>2, <1>3, EraseIsTree
<1> HIDE DEF u
<1>5. /\ \E m \in Authorities(t.zone, n) : SerialMoved(t.zone, c.zone, n, m)
      /\ \A m \in Name : c.zone[m] = t.zone[m] \/ SerialMoved(t.zone, c.zone, n, m)
      /\ \A m, k \in Name : c.zone[m] # t.zone[m] /\ c.zone[k] # t.zone[k] => m = k
  BY <1>1, <1>2, IncrementSerialMoves
<1>6. \A m \in Name : ~IsPrefix(n, m) /\ SerialMoved(t.zone, c.zone, n, m)
        => SerialMoved(t.zone, u.zone, n, m)
  BY <1>4 DEF SerialMoved
<1>7. \A m \in Name : IsPrefix(m, n) /\ IsPrefix(n, m) => m = n
  <2> SUFFICES ASSUME NEW m \in Name, IsPrefix(m, n), IsPrefix(n, m) PROVE m = n
    OBVIOUS
  <2>1. m \in Seq(Label) /\ n \in Seq(Label) /\ Len(m) = Len(n)
    BY NameFacts, PrefixPointwise
  <2> QED  BY <2>1, PrefixReflexive, PrefixUnique
<1>8. Removed(t.zone, u.zone, n)
  <2>1. \E m \in Authorities(t.zone, n) : m = n \/ SerialMoved(t.zone, u.zone, n, m)
    BY <1>5, <1>6, <1>7 DEF Authorities
  <2>2. \A m \in Name : IF IsPrefix(n, m) THEN u.zone[m] = NoZone
                        ELSE u.zone[m] = t.zone[m] \/ SerialMoved(t.zone, u.zone, n, m)
    BY <1>4, <1>5, <1>6
  <2>3. OneSerial(t.zone, u.zone, n)
    BY <1>4, <1>5 DEF OneSerial
  <2> QED  BY <2>1, <2>2, <2>3 DEF Removed
<1>9. Change(t.zone, u.zone)
  BY <1>4, <1>8 DEF Change, WellFormed
<1> QED  BY <1>4, <1>9 DEF u, c

-----------------------------------------------------------------------------
(* What any Change keeps.                                                  *)

\* A zone that exists after the change and had an authority still has one.
THEOREM ChangeKeepsCoverage ==
    ASSUME NEW s \in ZoneMap, NEW t \in ZoneMap, Change(s, t),
           NEW k \in Name, Has(t, k), Authorities(s, k) # {}
    PROVE  Authorities(t, k) # {}
<1>1. PICK n \in Name : Written(s, t, n) \/ Removed(s, t, n)
  BY DEF Change
<1>2. PICK m \in Authorities(s, k) : TRUE
  OBVIOUS
<1>3. /\ m \in Name /\ IsPrefix(m, k) /\ Has(s, m) /\ s[m] \in ZoneData
      /\ s[m].soa # NoSoa /\ s[m].authorative
  BY <1>2 DEF Authorities, Has, ZoneMap
<1>4. ASSUME t[m] = s[m] \/ SerialMoved(s, t, n, m) PROVE m \in Authorities(t, k)
  <2>1. /\ Bumped(s[m]) \in ZoneData /\ Bumped(s[m]).soa # NoSoa
        /\ Bumped(s[m]).authorative
    BY <1>3, BumpedType
  <2> QED  BY <1>3, <1>4, <2>1, NoZoneAssumption DEF Authorities, SerialMoved, Has
<1>5. CASE Written(s, t, n)
  <2>1. CASE m = n
    <3>1. PICK c \in Authorities(t, n) : TRUE
      BY <1>5 DEF Written
    <3>2. IsPrefix(c, n) /\ IsPrefix(n, k) /\ c \in Name
      BY <1>3, <2>1, <3>1 DEF Authorities
    <3>3. IsPrefix(c, k)
      BY <3>2, NameFacts, PrefixTransitive
    <3>4. c \in Authorities(t, k)
      BY <3>1, <3>3 DEF Authorities
    <3> QED  BY <3>4
  <2>2. CASE m # n
    BY <1>3, <1>4, <1>5, <2>2 DEF Written, Has
  <2> QED  BY <2>1, <2>2
<1>6. CASE Removed(s, t, n)
  <2>1. ~IsPrefix(n, m)
    <3>1. IsPrefix(n, m) => IsPrefix(n, k)
      BY <1>3, NameFacts, PrefixTransitive
    <3> QED  BY <1>6, <3>1 DEF Removed, Has
  <2> QED  BY <1>3, <1>4, <1>6, <2>1 DEF Removed
<1> QED  BY <1>1, <1>5, <1>6

\* No change gives a zone a cname next to addresses.
THEOREM ChangeKeepsExclusive ==
    ASSUME NEW s \in ZoneMap, NEW t \in ZoneMap, Change(s, t), AllExclusive(s)
    PROVE  AllExclusive(t)
<1>1. PICK n \in Name : Written(s, t, n) \/ Removed(s, t, n)
  BY DEF Change
<1> SUFFICES ASSUME NEW m \in Name, Has(t, m) PROVE Exclusive(t[m])
  BY DEF AllExclusive
<1>2. ASSUME t[m] = s[m] PROVE Exclusive(t[m])
  BY <1>2 DEF AllExclusive, Has
<1>3. ASSUME SerialMoved(s, t, n, m) PROVE Exclusive(t[m])
  <2>1. s[m] \in ZoneData /\ s[m].soa # NoSoa /\ Has(s, m) /\ t[m] = Bumped(s[m])
    BY <1>3 DEF SerialMoved, Has, ZoneMap
  <2> QED  BY <2>1, BumpedType DEF AllExclusive
<1>4. Exclusive(Blank)
  BY MarkAssumption DEF Exclusive, Blank
<1>5. CASE Written(s, t, n)
  BY <1>2, <1>3, <1>4, <1>5 DEF Written
<1>6. CASE Removed(s, t, n)
  BY <1>2, <1>3, <1>6 DEF Removed, Has
<1> QED  BY <1>1, <1>5, <1>6
=============================================================================
