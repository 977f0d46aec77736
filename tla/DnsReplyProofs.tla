--------------------------- MODULE DnsReplyProofs ---------------------------
(***************************************************************************)
(* Proof about DnsDaemon that a query which no commit disturbs gets what   *)
(* the zones hold: what is written and what is still planned, put          *)
(* together, is what the section should have, from the first lookup to the *)
(* last record.                                                            *)
(***************************************************************************)
EXTENDS DnsDaemonProofs

-----------------------------------------------------------------------------
(* The climb to a Soa, when no parent pointer leads astray.                *)

\* The one that the climb to a Soa ends at, if any.
SoaOf(t, n) == {m \in {GetSoaZone(t, n)} : m # Root}

\* The climb from a node ends at its true Soa, or at the top.
LEMMA IntactSoa ==
    ASSUME NEW t \in Sound, Intact(t), NEW node \in Name, Has(t.zone, node)
    PROVE  /\ TrueSoa(t.zone, node) = SoaOf(t, node)
           /\ GetSoaZone(t, node) \in Name \cup {Root}
           /\ \A m \in SoaOf(t, node) : m \in Name /\ Has(t.zone, m)
<1> DEFINE s == t.zone
           Right(n) == /\ TrueSoa(s, n) = SoaOf(t, n)
                       /\ GetSoaZone(t, n) \in Name \cup {Root}
           T == {k \in Nat : \A n \in Name : Has(s, n) /\ Len(n) <= k => Right(n)}
<1>0. \A n \in Name : /\ n \in Seq(Label) /\ Len(n) \in Nat \ {0} /\ n # Root
                      /\ Parent(n) \in Name \cup {Root} /\ Len(Parent(n)) = Len(n) - 1
  BY NameFacts, NameAssumption
<1>1. 0 \in T
  BY <1>0
<1>2. ASSUME NEW k \in Nat, k \in T PROVE k + 1 \in T
  <2> SUFFICES ASSUME NEW n \in Name, Has(s, n), Len(n) <= k + 1 PROVE Right(n)
    OBVIOUS
  <2> DEFINE p == Parent(n)
  <2>1. /\ t.parent[n] = p
        /\ GetSoaZone(t, n) = IF s[n].soa # NoSoa THEN n ELSE GetSoaZone(t, p)
        /\ GetSoaZone(t, Root) = Root
    BY GetSoaZoneRuns DEF Intact
  <2>2. \A m \in Name : IsPrefix(m, n) /\ m # n <=> IsPrefix(m, p)
    <3> TAKE m \in Name
    <3> QED  BY <1>0, PrefixParent
  <2>3. \A m \in Name : IsPrefix(m, n) /\ m # n => Len(m) < Len(n)
    <3> SUFFICES ASSUME NEW m \in Name, IsPrefix(m, n), m # n PROVE Len(m) < Len(n)
      OBVIOUS
    <3>1. Len(m) <= Len(n)
      BY <1>0, PrefixPointwise
    <3>2. Len(m) # Len(n)
      BY <1>0, PrefixReflexive, PrefixUnique
    <3> QED  BY <1>0, <3>1, <3>2
  <2>4. IsPrefix(n, n)
    BY <1>0, PrefixReflexive
  <2>5. p \in Name \cup {Root} /\ (p = Root => \A m \in Name : ~IsPrefix(m, p))
    <3>1. p = Root => \A m \in Name : ~IsPrefix(m, p)
      <4> SUFFICES ASSUME p = Root, NEW m \in Name, IsPrefix(m, p) PROVE FALSE
        OBVIOUS
      <4>1. Len(m) < Len(n) /\ Len(p) = 0 /\ Len(p) = Len(n) - 1
        BY <1>0, <2>2, <2>3 DEF Root
      <4> QED  BY <1>0, <4>1
    <3> QED  BY <1>0, <3>1
  <2> HIDE DEF p
  <2>6. CASE s[n].soa # NoSoa
    <3>1. TrueSoa(s, n) = {n}
      <4>1. ASSUME NEW m \in TrueSoa(s, n) PROVE m = n
        <5>1. /\ m \in Name /\ IsPrefix(m, n)
              /\ IsPrefix(n, n) /\ Len(n) > Len(m) => s[n].soa = NoSoa
          BY <4>1 DEF TrueSoa
        <5> QED  BY <2>3, <2>4, <2>6, <5>1, <1>0
      <4>2. n \in TrueSoa(s, n)
        <5>1. ASSUME NEW m \in Name, IsPrefix(m, n), Len(m) > Len(n) PROVE FALSE
          BY <1>0, <2>3, <5>1
        <5> QED  BY <2>4, <2>6, <5>1 DEF TrueSoa
      <4> QED  BY <4>1, <4>2
    <3>2. SoaOf(t, n) = {n}
      BY <1>0, <2>1, <2>6 DEF SoaOf
    <3> QED  BY <2>1, <2>6, <3>1, <3>2
  <2>7. CASE s[n].soa = NoSoa
    <3>1. TrueSoa(s, n) = {m \in Name : /\ IsPrefix(m, p) /\ s[m].soa # NoSoa
                                        /\ \A j \in Name : IsPrefix(j, p) /\ Len(j) > Len(m)
                                                                => s[j].soa = NoSoa}
      <4>1. \A m \in Name : s[m].soa # NoSoa /\ IsPrefix(m, n) => m # n
        BY <2>7
      <4>2. \A j, m \in Name : IsPrefix(j, n) /\ Len(j) > Len(m) /\ ~IsPrefix(j, p)
                                    => s[j].soa = NoSoa
        BY <2>2, <2>7
      <4> QED  BY <2>2, <4>1, <4>2 DEF TrueSoa
    <3>2. CASE p = Root
      <4>1. TrueSoa(s, n) = {}
        BY <2>5, <3>1, <3>2
      <4>2. GetSoaZone(t, n) = Root
        BY <2>1, <2>7, <3>2
      <4> QED  BY <4>1, <4>2 DEF SoaOf
    <3>3. CASE p # Root
      <4>1. p \in Name /\ Has(s, p) /\ Len(p) <= k
        <5>1. p \in Name /\ Has(s, p) /\ Len(p) = Len(n) - 1
          BY <3>3, ParentExists DEF p
        <5> QED  BY <1>0, <5>1
      <4>2. Right(p)
        BY <1>2, <4>1
      <4>3. TrueSoa(s, n) = TrueSoa(s, p)
        BY <3>1 DEF TrueSoa
      <4>4. GetSoaZone(t, n) = GetSoaZone(t, p)
        BY <2>1, <2>7
      <4> QED  BY <4>2, <4>3, <4>4 DEF SoaOf
    <3> QED  BY <3>2, <3>3
  <2> QED  BY <2>6, <2>7
<1>3. Nat \subseteq T
  <2> HIDE DEF T
  <2> QED  BY <1>1, <1>2, SetInduction
<1>4. Right(node)
  <2>1. Len(node) \in T
    BY <1>0, <1>3
  <2> QED  BY <1>0, <2>1
<1>5. ASSUME NEW m \in SoaOf(t, node) PROVE m \in Name /\ Has(s, m)
  <2>1. m \in TrueSoa(s, node)
    BY <1>4, <1>5
  <2>2. m \in Name /\ IsPrefix(m, node)
    BY <2>1 DEF TrueSoa
  <2> QED  BY <2>2, AncestorsExist DEF Sound, WellFormed
<1> QED  BY <1>4, <1>5

\* The target of a cname is completed with the true name above it.
LEMMA IntactCname ==
    ASSUME NEW t \in Sound, Intact(t), NEW n \in Name, Has(t.zone, n), t.zone[n].cname \in Value
    PROVE  /\ FullCname(t, n) = TrueCname(t.zone, n)
           /\ FullCname(t, n) \in Seq(Label)
<1> DEFINE target == Entries(t.zone[n].cname)[1]
           p == Parent(n)
<1>1. t.parent[n] = p /\ p \in Name \cup {Root} /\ p \in Seq(Label)
  BY NameFacts DEF Intact
<1>2. target.name \in Seq(Label)
  BY EntriesType DEF Item
<1>3. p # Root => GetDomainName(t, p) = p
  BY ParentExists, IntactName
<1>4. p # Dangling
  BY <1>1, MarkAssumption
<1>5. FullCname(t, n) =
        CASE target.absolute -> target.name
          [] p = Dangling    -> Dangling
          [] p = Root        -> target.name
          [] OTHER -> IF GetDomainName(t, p) = Dangling THEN Dangling
                      ELSE GetDomainName(t, p) \o target.name
  BY <1>1 DEF FullCname
<1>6. TrueCname(t.zone, n) = IF target.absolute THEN target.name ELSE p \o target.name
  BY DEF TrueCname
<1> HIDE DEF target, p
<1>7. p = Root => p \o target.name = target.name
  BY <1>2 DEF Root
<1>8. p \o target.name \in Seq(Label)
  BY <1>1, <1>2, ConcatProperties
<1>9. FullCname(t, n) = IF target.absolute THEN target.name ELSE p \o target.name
  BY <1>3, <1>4, <1>5, <1>7
<1> QED  BY <1>2, <1>6, <1>8, <1>9

-----------------------------------------------------------------------------
(* Lookup.                                                                 *)

\* A label that is taken off again.
LEMMA AppendedName ==
    ASSUME NEW p \in Name \cup {Root}, NEW l \in Label
    PROVE  /\ Append(p, l) \in Seq(Label) /\ Len(Append(p, l)) = Len(p) + 1
           /\ Append(p, l)[Len(p) + 1] = l
           /\ \A j \in 1..Len(p) : Append(p, l)[j] = p[j]
           /\ Parent(Append(p, l)) = p
           /\ p \in Seq(Label) /\ Len(p) \in Nat
<1>1. p \in Seq(Label) /\ Len(p) \in Nat
  BY NameFacts, EmptySeq, LenProperties DEF Root
<1> QED  BY <1>1 DEF Parent, Front

\* The node that one level of Lookup goes to.
NextNode(t, p, host) ==
    IF Has(t.zone, Append(p, host)) THEN Append(p, host) ELSE Append(p, Wildcard)

\* One level of Lookup takes the node of the label, or else that of the empty label.
LEMMA LookupStepFacts ==
    ASSUME NEW t \in Sound, NEW s \in LookupState, NEW host \in Label
    PROVE  LookupStep(t, s, host) =
             IF s.stop \/ ~Has(t.zone, NextNode(t, s.node, host)) THEN [s EXCEPT !.stop = TRUE]
             ELSE [node |-> NextNode(t, s.node, host),
                   authorative |-> t.zone[NextNode(t, s.node, host)].authorative,
                   stop |-> FALSE]
<1> DEFINE p == s.node
           full == Append(p, host)
           wild == Append(p, Wildcard)
<1>1. p \in Name \cup {Root} /\ Wildcard \in Label /\ WellFormed(t)
  BY WildcardAssumption DEF LookupState, Sound
<1>2. Range(t.children[p]) = {n \in Name : Has(t.zone, n) /\ Parent(n) = p}
  BY <1>1 DEF WellFormed
<1>3. Parent(full) = p /\ Parent(wild) = p
  BY <1>1, AppendedName
<1> DEFINE next == IF full \in Range(t.children[p]) THEN full ELSE wild
<1>4. LookupStep(t, s, host) =
        IF s.stop \/ next \notin Range(t.children[p]) THEN [s EXCEPT !.stop = TRUE]
        ELSE [node |-> next, authorative |-> t.zone[next].authorative, stop |-> FALSE]
  BY DEF LookupStep
<1> HIDE DEF full, wild
<1>5. full \in Range(t.children[p]) <=> Has(t.zone, full)
  BY <1>2, <1>3 DEF Has
<1>6. wild \in Range(t.children[p]) <=> Has(t.zone, wild)
  BY <1>2, <1>3 DEF Has
<1>7. NextNode(t, p, host) = next
  BY <1>5 DEF NextNode, full, wild
<1>8. Has(t.zone, next) <=> next \in Range(t.children[p])
  BY <1>5, <1>6
<1> HIDE DEF next, p
<1>9. LookupStep(t, s, host) =
        IF s.stop \/ ~Has(t.zone, next) THEN [s EXCEPT !.stop = TRUE]
        ELSE [node |-> next, authorative |-> t.zone[next].authorative, stop |-> FALSE]
  BY <1>4, <1>8
<1>10. NextNode(t, s.node, host) = next
  BY <1>7 DEF p
<1> QED  BY <1>9, <1>10

\* The label of n at j is that of the key, or empty if there is no node for that.
FitsAt(t, n, key, j) ==
    \/ n[j] = key[j]
    \/ n[j] = Wildcard /\ ~Has(t.zone, Append(SubSeq(n, 1, j - 1), key[j]))

\* Lookup has come through i labels and stands at a node that fits with them.
Stands(t, s, key, i) ==
    /\ Len(s.node) = i
    /\ i # 0 => Has(t.zone, s.node)
    /\ \A j \in 1..i : FitsAt(t, s.node, key, j)

\* The next node fits as well.
LEMMA StandsOn ==
    ASSUME NEW t \in Sound, NEW s \in LookupState, NEW key \in Seq(Label),
           NEW i \in 1..Len(key), Stands(t, s, key, i - 1),
           NEW u, u.node = NextNode(t, s.node, key[i]), Has(t.zone, u.node)
    PROVE  Stands(t, u, key, i)
<1> DEFINE p == s.node
           n == u.node
<1>1. i \in Nat \ {0} /\ key[i] \in Label /\ Wildcard \in Label /\ p \in Name \cup {Root}
  BY WildcardAssumption, ElementOfSeq, LenProperties DEF LookupState
<1>2. /\ Len(p) = i - 1
      /\ \A j \in 1..(i - 1) : FitsAt(t, p, key, j)
  BY DEF Stands
<1>3. PICK l \in Label :
        /\ n = Append(p, l)
        /\ l = key[i] \/ (l = Wildcard /\ ~Has(t.zone, Append(p, key[i])))
  BY <1>1 DEF NextNode
<1> HIDE DEF n, p
<1>4. /\ n \in Seq(Label) /\ p \in Seq(Label) /\ Len(n) = i /\ n[i] = l
      /\ \A j \in 1..(i - 1) : n[j] = p[j]
  <2>1. /\ Len(n) = Len(p) + 1 /\ n[Len(p) + 1] = l /\ n \in Seq(Label) /\ p \in Seq(Label)
        /\ \A j \in 1..Len(p) : n[j] = p[j]
    BY <1>1, <1>3, AppendedName
  <2>2. Len(p) + 1 = i
    BY <1>1, <1>2
  <2> QED  BY <1>2, <2>1, <2>2
<1>5. SubSeq(n, 1, i - 1) = p
  BY <1>1, <1>2, <1>4
<1>6. ASSUME NEW j \in 1..(i - 1) PROVE SubSeq(n, 1, j - 1) = SubSeq(p, 1, j - 1)
  BY <1>1, <1>2, <1>4
<1>7. ASSUME NEW j \in 1..i PROVE FitsAt(t, n, key, j)
  <2>1. CASE j = i
    BY <1>3, <1>4, <1>5, <2>1 DEF FitsAt
  <2>2. CASE j # i
    <3>1. j \in 1..(i - 1)
      BY <1>1, <2>2
    <3>2. FitsAt(t, p, key, j) /\ n[j] = p[j] /\ SubSeq(n, 1, j - 1) = SubSeq(p, 1, j - 1)
      BY <1>2, <1>4, <1>6, <3>1
    <3> QED  BY <3>2 DEF FitsAt
  <2> QED  BY <2>1, <2>2
<1> QED  BY <1>4, <1>7 DEF Stands, n

\* Wherever Lookup has not stopped, it stands at a node that fits.
LEMMA RunStands ==
    ASSUME NEW t \in Sound, NEW key \in Seq(Label), NEW at, LookupRun(at, t, key)
    PROVE  \A i \in 0..Len(key) : ~at[i].stop => Stands(t, at[i], key, i)
<1> DEFINE N == Len(key)
           T == {i \in 0..N : ~at[i].stop => Stands(t, at[i], key, i)}
<1>1. /\ N \in Nat /\ \A i \in 0..N : at[i] \in LookupState
      /\ at[0] = [node |-> Root, authorative |-> FALSE, stop |-> FALSE]
      /\ \A i \in 1..N : at[i] = LookupStep(t, at[i - 1], key[i]) /\ key[i] \in Label
  BY LenProperties, ElementOfSeq DEF LookupRun
<1>2. 0 \in T
  <2>1. Stands(t, at[0], key, 0)
    BY <1>1 DEF Stands, Root
  <2> QED  BY <1>1, <2>1
<1>3. ASSUME NEW i \in 1..N, i - 1 \in T PROVE i \in T
  <2> SUFFICES ASSUME ~at[i].stop PROVE Stands(t, at[i], key, i)
    BY <1>1
  <2> DEFINE s == at[i - 1]
             next == NextNode(t, s.node, key[i])
  <2>1. s \in LookupState /\ key[i] \in Label /\ at[i] = LookupStep(t, s, key[i])
    BY <1>1
  <2>2. at[i] = IF s.stop \/ ~Has(t.zone, next) THEN [s EXCEPT !.stop = TRUE]
                ELSE [node |-> next, authorative |-> t.zone[next].authorative, stop |-> FALSE]
    BY <2>1, LookupStepFacts
  <2>3. s.stop \in BOOLEAN
    BY <2>1 DEF LookupState
  <2>4. Stands(t, s, key, i - 1) \/ s.stop
    BY <1>3
  <2> HIDE DEF next, s
  <2>5. ~s.stop /\ Has(t.zone, next) /\ at[i].node = next
    <3>1. CASE s.stop \/ ~Has(t.zone, next)
      <4>1. at[i] = [s EXCEPT !.stop = TRUE]
        BY <2>2, <3>1
      <4> QED  BY <2>1, <4>1 DEF LookupState
    <3>2. CASE ~(s.stop \/ ~Has(t.zone, next))
      BY <2>2, <3>2
    <3> QED  BY <3>1, <3>2
  <2> HIDE DEF N, T
  <2> QED  BY <2>1, <2>4, <2>5, StandsOn DEF next, N
<1>4. 0..N \subseteq T
  <2> HIDE DEF T, N
  <2> QED  BY <1>1, <1>2, <1>3, BoundedInduction
<1> QED  BY <1>4

\* Lookup follows the labels of a node that fits.
LEMMA RunFollows ==
    ASSUME NEW t \in Sound, NEW key \in Seq(Label), NEW at, LookupRun(at, t, key),
           NEW n \in Name, Has(t.zone, n), Len(n) = Len(key),
           \A j \in 1..Len(key) : FitsAt(t, n, key, j)
    PROVE  ~at[Len(key)].stop /\ at[Len(key)].node = n
<1> DEFINE N == Len(key)
           upTo(i) == SubSeq(n, 1, i)
           T == {i \in 0..N : ~at[i].stop /\ at[i].node = upTo(i)}
<1>1. /\ N \in Nat /\ \A i \in 0..N : at[i] \in LookupState
      /\ at[0] = [node |-> Root, authorative |-> FALSE, stop |-> FALSE]
      /\ \A i \in 1..N : at[i] = LookupStep(t, at[i - 1], key[i]) /\ key[i] \in Label
      /\ n \in Seq(Label)
  BY LenProperties, ElementOfSeq, NameFacts DEF LookupRun
<1>2. 0 \in T
  <2>1. SubSeq(n, 1, 0) = << >>
    BY <1>1
  <2>2. 0 \in 0..N /\ ~at[0].stop /\ at[0].node = << >>
    BY <1>1 DEF Root
  <2> QED  BY <2>1, <2>2
<1>3. ASSUME NEW i \in 1..N, i - 1 \in T PROVE i \in T
  <2> DEFINE s == at[i - 1]
             p == upTo(i - 1)
             m == upTo(i)
  <2>1. s \in LookupState /\ key[i] \in Label /\ at[i] = LookupStep(t, s, key[i])
    BY <1>1
  <2>2. ~s.stop /\ s.node = p
    BY <1>3
  <2>3. at[i] = IF s.stop \/ ~Has(t.zone, NextNode(t, s.node, key[i]))
                THEN [s EXCEPT !.stop = TRUE]
                ELSE [node |-> NextNode(t, s.node, key[i]),
                      authorative |-> t.zone[NextNode(t, s.node, key[i])].authorative,
                      stop |-> FALSE]
    BY <2>1, LookupStepFacts
  <2>4. m = Append(p, n[i])
    BY <1>1
  <2>5. m \in Name /\ Has(t.zone, m)
    <3>1. m \in Name
      <4>1. i \in 1..Len(n)
        OBVIOUS
      <4> QED  BY <4>1, NameAssumption
    <3>2. IsPrefix(m, n)
      <4>1. Len(m) <= Len(n) /\ \A j \in 1..Len(m) : m[j] = n[j]
        BY <1>1
      <4>2. m \in Seq(Label) /\ n \in Seq(Label)
        BY <1>1, <3>1, NameFacts
      <4> HIDE DEF m
      <4> QED  BY <4>1, <4>2, PrefixPointwise
    <3> QED  BY <3>1, <3>2, AncestorsExist DEF Sound, WellFormed
  <2>6. n[i] = key[i] \/ (n[i] = Wildcard /\ ~Has(t.zone, Append(p, key[i])))
    BY DEF FitsAt
  <2> HIDE DEF m, p, s
  <2>7. NextNode(t, p, key[i]) = m
    BY <2>4, <2>5, <2>6 DEF NextNode
  <2>8. at[i] = [node |-> m, authorative |-> t.zone[m].authorative, stop |-> FALSE]
    BY <2>2, <2>3, <2>5, <2>7
  <2>9. ~at[i].stop /\ at[i].node = m
    BY <2>8
  <2> QED  BY <1>1, <2>9 DEF m
<1>4. 0..N \subseteq T
  <2> HIDE DEF T, N
  <2> QED  BY <1>1, <1>2, <1>3, BoundedInduction
<1>5. N \in T
  BY <1>1, <1>4
<1>6. SubSeq(n, 1, Len(n)) = n
  BY <1>1
<1> QED  BY <1>5, <1>6

\* Where Lookup comes to is the node that answers for the name.
LEMMA AnsweringRun ==
    ASSUME NEW t \in Sound, NEW key \in Seq(Label), NEW at, LookupRun(at, t, key)
    PROVE  Answering("memory", t, key) =
             IF key = << >> \/ at[Len(key)].stop THEN {} ELSE {at[Len(key)].node}
<1> DEFINE N == Len(key)
           s == at[N]
<1>1. /\ N \in Nat /\ DOMAIN key = 1..N /\ (key = << >> <=> N = 0)
      /\ s \in LookupState
  BY LenProperties, EmptySeq DEF LookupRun
<1>2. Answering("memory", t, key) =
        {n \in Name : /\ Has(t.zone, n)
                      /\ Len(n) = N
                      /\ \A i \in 1..N : FitsAt(t, n, key, i)}
  BY <1>1 DEF Answering, FitsAt
<1>3. ASSUME NEW n \in Answering("memory", t, key) PROVE N # 0 /\ ~s.stop /\ s.node = n
  <2>1. /\ n \in Name /\ Has(t.zone, n) /\ Len(n) = N
        /\ \A i \in 1..N : FitsAt(t, n, key, i)
    BY <1>2
  <2>2. N # 0
    BY <2>1, NameFacts
  <2> QED  BY <2>1, <2>2, RunFollows
<1>4. ASSUME N # 0, ~s.stop PROVE s.node \in Answering("memory", t, key)
  <2>1. Stands(t, s, key, N)
    BY <1>1, <1>4, RunStands
  <2>2. Has(t.zone, s.node) /\ Len(s.node) = N /\ \A i \in 1..N : FitsAt(t, s.node, key, i)
    BY <1>4, <2>1 DEF Stands
  <2> QED  BY <1>2, <2>2 DEF Has
<1>5. s.stop \in BOOLEAN
  BY <1>1 DEF LookupState
<1> HIDE DEF s
<1> QED  BY <1>1, <1>3, <1>4, <1>5 DEF s

\* The node that the manager's Lookup finds; Root if there is none.
Finds(m, t, key) == IF m = "memory" THEN Lookup(t, key).node ELSE Search(t, key)

\* The node that a Lookup finds is the one that should answer for the name.
LEMMA FindsAnswering ==
    ASSUME NEW m \in {"json", "memory"}, NEW t \in Sound, NEW key \in Seq(Label)
    PROVE  /\ Answering(m, t, key) = {n \in {Finds(m, t, key)} : n # Root}
           /\ Answering(m, t, key) \subseteq {n \in Name : Has(t.zone, n)}
<1>1. Root \notin Name
  BY NameAssumption
<1>2. CASE m = "json"
  <2> DEFINE found1 == Search(t, key)
  <2>1. Answering(m, t, key) =
          IF Has(t.zone, key) THEN {key} ELSE {n \in {found1} : Has(t.zone, n)}
    BY <1>2 DEF Answering
  <2>2. found1 # Root => found1 \in Name /\ Has(t.zone, found1)
    BY SearchFinds DEF Sound
  <2>3. Has(t.zone, key) => found1 = key /\ key \in Name
    BY SearchComplete DEF Sound, Has
  <2>4. Finds(m, t, key) = found1
    BY <1>2 DEF Finds
  <2> HIDE DEF found1
  <2>5. CASE Has(t.zone, key)
    BY <1>1, <2>1, <2>3, <2>4, <2>5
  <2>6. CASE ~Has(t.zone, key)
    BY <1>1, <2>1, <2>2, <2>4, <2>6 DEF Has
  <2> QED  BY <2>5, <2>6
<1>3. CASE m = "memory"
  <2>1. PICK at : /\ LookupRun(at, t, key)
                  /\ Lookup(t, key).node = IF at[Len(key)].stop THEN Root ELSE at[Len(key)].node
    BY LookupRuns
  <2>2. Answering(m, t, key) =
          IF key = << >> \/ at[Len(key)].stop THEN {} ELSE {at[Len(key)].node}
    BY <1>3, <2>1, AnsweringRun
  <2>3. Answering(m, t, key) \subseteq {n \in Name : Has(t.zone, n)}
    BY <1>3 DEF Answering
  <2>4. key = << >> => at[Len(key)].node = Root
    <3>1. key = << >> => Len(key) = 0
      BY EmptySeq
    <3> QED  BY <2>1, <3>1 DEF LookupRun
  <2>5. Finds(m, t, key) = IF at[Len(key)].stop THEN Root ELSE at[Len(key)].node
    BY <1>3, <2>1 DEF Finds
  <2> DEFINE s == at[Len(key)]
  <2> HIDE DEF s
  <2> QED  BY <1>1, <2>2, <2>3, <2>4, <2>5 DEF s
<1> QED  BY <1>2, <1>3

\* The nodes that answer for the first k labels of a key.
UpTo(t, key, k) == Answering("memory", t, SubSeq(key, 1, k))

\* The first k labels of a key.
LEMMA RunUpTo ==
    ASSUME NEW t \in Sound, NEW key \in Seq(Label), NEW at, LookupRun(at, t, key),
           NEW k \in 0..Len(key)
    PROVE  UpTo(t, key, k) = IF k = 0 \/ at[k].stop THEN {} ELSE {at[k].node}
<1> DEFINE part == SubSeq(key, 1, k)
<1>1. /\ k \in Nat /\ part \in Seq(Label) /\ Len(part) = k
      /\ \A i \in 1..k : part[i] = key[i] /\ i \in 1..Len(key)
      /\ \A i \in 0..k : i \in 0..Len(key)
  BY LenProperties
<1>2. part = << >> <=> k = 0
  <2> HIDE DEF part
  <2> QED  BY <1>1, EmptySeq
<1> HIDE DEF part
<1>3. LookupRun(at, t, part)
  BY <1>1 DEF LookupRun
<1>4. Answering("memory", t, part) =
        IF part = << >> \/ at[Len(part)].stop THEN {} ELSE {at[Len(part)].node}
  BY <1>1, <1>3, AnsweringRun
<1> QED  BY <1>1, <1>2, <1>4 DEF part, UpTo

\* Lookup stops after k labels, at a node that is ours.
LeavesOurs(t, at, k) == ~at[k].stop /\ at[k + 1].stop /\ t.zone[at[k].node].authorative

\* What Lookup says of authority when it has read i labels.
Says(t, at, i) ==
    /\ IF at[i].stop THEN at[i].authorative <=> \E k \in 1..(i - 1) : LeavesOurs(t, at, k)
       ELSE at[i].authorative <=> i # 0 /\ t.zone[at[i].node].authorative
    /\ ~at[i].stop => \A j \in 0..i : ~at[j].stop

\* One label more.
LEMMA SaysOn ==
    ASSUME NEW t \in Sound, NEW key \in Seq(Label), NEW at, LookupRun(at, t, key),
           NEW i \in 1..Len(key), Says(t, at, i - 1)
    PROVE  Says(t, at, i)
<1> DEFINE s == at[i - 1]
           u == at[i]
           next == NextNode(t, s.node, key[i])
<1>1. /\ i \in Nat \ {0} /\ s \in LookupState /\ u \in LookupState /\ key[i] \in Label
      /\ u = LookupStep(t, s, key[i])
      /\ at[0].stop = FALSE /\ at[0].authorative = FALSE
  BY LenProperties, ElementOfSeq DEF LookupRun
<1>2. u = IF s.stop \/ ~Has(t.zone, next) THEN [s EXCEPT !.stop = TRUE]
          ELSE [node |-> next, authorative |-> t.zone[next].authorative, stop |-> FALSE]
  BY <1>1, LookupStepFacts
<1>3. /\ s.stop \in BOOLEAN /\ s.authorative \in BOOLEAN
      /\ u.stop \in BOOLEAN /\ u.authorative \in BOOLEAN
  BY <1>1 DEF LookupState
<1>4. /\ IF s.stop THEN s.authorative <=> \E k \in 1..(i - 2) : LeavesOurs(t, at, k)
         ELSE s.authorative <=> i - 1 # 0 /\ t.zone[s.node].authorative
      /\ ~s.stop => \A j \in 0..(i - 1) : ~at[j].stop
  <2>1. (i - 1) - 1 = i - 2
    BY <1>1
  <2> QED  BY <2>1 DEF Says
<1> HIDE DEF next
<1>5. CASE ~(s.stop \/ ~Has(t.zone, next))
  <2>1. ~u.stop /\ u.node = next /\ u.authorative = t.zone[next].authorative
    BY <1>2, <1>5
  <2>2. \A j \in 0..i : ~at[j].stop
    <3>1. \A j \in 0..i : j = i \/ j \in 0..(i - 1)
      BY <1>1
    <3> QED  BY <1>4, <1>5, <2>1, <3>1
  <2> QED  BY <1>1, <2>1, <2>2 DEF Says
<1>6. CASE s.stop \/ ~Has(t.zone, next)
  <2>1. u.stop /\ u.authorative = s.authorative
    <3>1. u = [s EXCEPT !.stop = TRUE]
      BY <1>2, <1>6
    <3> QED  BY <1>1, <3>1 DEF LookupState
  <2>2. \A k \in 1..(i - 1) : k = i - 1 \/ k \in 1..(i - 2)
    BY <1>1
  <2>3. \A k \in 1..(i - 2) : k \in 1..(i - 1) /\ k + 1 \in 0..(i - 1)
    BY <1>1
  <2>4. LeavesOurs(t, at, i - 1) <=> ~s.stop /\ t.zone[s.node].authorative
    <3>1. (i - 1) + 1 = i
      BY <1>1
    <3> QED  BY <2>1, <3>1 DEF LeavesOurs
  <2>5. u.authorative <=> \E k \in 1..(i - 1) : LeavesOurs(t, at, k)
    <3>1. CASE s.stop
      <4>1. ~LeavesOurs(t, at, i - 1)
        BY <2>4, <3>1
      <4> QED  BY <1>4, <2>1, <2>2, <2>3, <3>1, <4>1
    <3>2. CASE ~s.stop
      <4>1. \A k \in 1..(i - 2) : ~LeavesOurs(t, at, k)
        BY <1>4, <2>3, <3>2 DEF LeavesOurs
      <4>2. i - 1 # 0 => i - 1 \in 1..(i - 1)
        BY <1>1
      <4>3. i - 1 = 0 => \A k \in 1..(i - 1) : FALSE
        BY <1>1
      <4> HIDE DEF s, u
      <4> QED  BY <1>4, <2>1, <2>2, <2>4, <3>2, <4>1, <4>2, <4>3
    <3> QED  BY <1>3, <3>1, <3>2
  <2> QED  BY <2>1, <2>5 DEF Says
<1> QED  BY <1>5, <1>6

\* When nothing is found, Lookup says "ours" exactly for a name below a node of ours.
LEMMA MissAuthority ==
    ASSUME NEW m \in {"json", "memory"}, NEW t \in Sound, NEW key \in Seq(Label),
           Answering(m, t, key) = {}
    PROVE  OursButUnknown(m, t, key) <=> m = "memory" /\ Lookup(t, key).authorative
<1>1. CASE m = "json"
  BY <1>1 DEF OursButUnknown
<1>2. CASE m = "memory"
  <2> DEFINE N == Len(key)
  <2>1. PICK at : LookupRun(at, t, key) /\ Lookup(t, key).authorative = at[N].authorative
    BY LookupRuns
  <2>2. N \in Nat /\ at[0] = [node |-> Root, authorative |-> FALSE, stop |-> FALSE]
    BY <2>1, LenProperties DEF LookupRun
  <2>3. Says(t, at, N)
    <3> DEFINE T == {i \in 0..N : Says(t, at, i)}
    <3>1. 0 \in T
      <4>1. \A j \in 0..0 : j = 0
        OBVIOUS
      <4> QED  BY <2>2, <4>1 DEF Says
    <3>2. ASSUME NEW i \in 1..N, i - 1 \in T PROVE i \in T
      BY <2>1, <2>2, <3>2, SaysOn
    <3>3. 0..N \subseteq T
      <4> HIDE DEF T, N
      <4> QED  BY <2>2, <3>1, <3>2, BoundedInduction
    <3> QED  BY <2>2, <3>3
  <2>4. \A k \in 0..N : Answering(m, t, SubSeq(key, 1, k)) =
                           IF k = 0 \/ at[k].stop THEN {} ELSE {at[k].node}
    <3> TAKE k \in 0..N
    <3>1. UpTo(t, key, k) = IF k = 0 \/ at[k].stop THEN {} ELSE {at[k].node}
      BY <2>1, RunUpTo
    <3>2. UpTo(t, key, k) = Answering(m, t, SubSeq(key, 1, k))
      BY <1>2 DEF UpTo
    <3> HIDE DEF N
    <3> QED  BY <3>1, <3>2
  <2>5. SubSeq(key, 1, N) = key
    BY <2>2
  <2>6. N = 0 \/ at[N].stop
    <3>1. N \in 0..N
      BY <2>2
    <3> HIDE DEF N
    <3> QED  BY <2>4, <2>5, <3>1
  <2>7. ASSUME NEW k \in 1..(N - 1)
        PROVE  /\ Answering(m, t, SubSeq(key, 1, k + 1)) = {}
               /\ \E n \in Answering(m, t, SubSeq(key, 1, k)) : t.zone[n].authorative
               <=> LeavesOurs(t, at, k)
    <3>1. k \in 0..N /\ k # 0 /\ k + 1 \in 0..N /\ k + 1 # 0
      BY <2>2
    <3> HIDE DEF N
    <3> QED  BY <2>4, <3>1 DEF LeavesOurs
  <2>8. OursButUnknown(m, t, key) <=> \E k \in 1..(N - 1) : LeavesOurs(t, at, k)
    BY <1>2, <2>7 DEF OursButUnknown
  <2>9. CASE N = 0
    <3>1. at[N].authorative = FALSE /\ \A k \in 1..(N - 1) : FALSE
      BY <2>2, <2>9
    <3> HIDE DEF N
    <3> QED  BY <1>2, <2>1, <2>8, <3>1
  <2>10. CASE at[N].stop
    <3> HIDE DEF N
    <3> QED  BY <1>2, <2>1, <2>3, <2>8, <2>10 DEF Says
  <2> QED  BY <2>6, <2>9, <2>10
<1> QED  BY <1>1, <1>2

-----------------------------------------------------------------------------
(* What is written and what is promised.  A claim is a record of the reply,*)
(* a server whose addresses go last, or a Soa whose name servers go second.*)

Recorded(r) == <<"record", r>>
Served(h)   == <<"server", h>>
Owning(m)   == <<"soa", m>>

\* The manager, the zones and the question of a query that nobody disturbs.
Settled(w) ==
    /\ w.m \in {"json", "memory"}
    /\ w.t \in Sound
    /\ Intact(w.t)
    /\ w.q \in Question

\* The servers that records name, as far as we have data about them.
Hosted(w, records) ==
    UNION {Answering(w.m, w.t, r.data) : r \in {r \in records : r.type \in {"MX", "NS"}}}

\* What records stand for: themselves, and the addresses of the servers they name.
Claims(w, records) ==
    {Recorded(r) : r \in records} \cup {Served(h) : h \in Hosted(w, records)}

\* The node that the question is about, and what each section should have of it.
NodeOf(w)    == CHOOSE n \in Answering(w.m, w.t, w.q.name) : TRUE
InAnswer(w) == ExpectedAnswers(w.m, w.t, NodeOf(w), w.q)
InAuthority(w) == ExpectedAuthority(w.t, NodeOf(w), w.q)
InAdditional(w) == ExpectedAdditional(w.m, w.t, InAnswer(w) \cup InAuthority(w))

\* All claims, at the end of each section.
Soas(w)     == {Owning(m) : m \in When(w.q.type \in {"SOA", "NS", "ALL"},
                                       TrueSoa(w.t.zone, NodeOf(w)))}
AtAnswer(w) == Claims(w, InAnswer(w)) \cup Soas(w)
AtAuthority(w) == AtAnswer(w) \cup Claims(w, InAuthority(w))
Goal(w, s) ==
    CASE s = "answer"     -> AtAnswer(w)
      [] s = "authority"  -> AtAuthority(w)
      [] s = "additional" -> AtAuthority(w) \cup {Recorded(r) : r \in InAdditional(w)}

\* What a task will come to, if it is done in the section s.
Promise(w, s, k) ==
    CASE k.do = "store"    -> {Recorded(Rec(s, k.type, k.owner, k.data))}
      [] k.do = "server"   -> {Served(h) : h \in Answering(w.m, w.t, k.owner)}
      [] k.do = "cname"    -> UNION {{Recorded(r) : r \in AllAddresses(s, k.owner, w.t.zone[h])} :
                                     h \in Answering(w.m, w.t, k.owner)}
      [] k.do = "question" -> AtAnswer(w)

Promised(w, s, tasks) == UNION {Promise(w, s, k) : k \in tasks}

\* Claims are told apart by their kinds.
LEMMA ClaimKinds ==
    /\ \A r, h, m : Recorded(r) # Served(h) /\ Recorded(r) # Owning(m) /\ Served(h) # Owning(m)
    /\ \A r, u : Recorded(r) = Recorded(u) => r = u
    /\ \A h, k : Served(h) = Served(k) => h = k
    /\ \A m, n : Owning(m) = Owning(n) => m = n
BY DEF Recorded, Served, Owning

\* Claims of two sets of records.
LEMMA ClaimsUnion ==
    ASSUME NEW w, NEW R, NEW S
    PROVE  Claims(w, R \cup S) = Claims(w, R) \cup Claims(w, S)
<1>1. Hosted(w, R \cup S) = Hosted(w, R) \cup Hosted(w, S)
  BY DEF Hosted
<1> QED  BY <1>1 DEF Claims

\* Records that name no server claim nothing else.
LEMMA ClaimsPlain ==
    ASSUME NEW w, NEW R, \A r \in R : r.type \notin {"MX", "NS"}
    PROVE  Claims(w, R) = {Recorded(r) : r \in R}
<1>1. Hosted(w, R) = {}
  BY DEF Hosted
<1> QED  BY <1>1 DEF Claims

\* No records claim nothing.
LEMMA ClaimsNone ==
    ASSUME NEW w
    PROVE  Claims(w, {}) = {}
BY DEF Claims, Hosted

\* What two sets of tasks promise.
LEMMA PromisedUnion ==
    ASSUME NEW w, NEW s, NEW K, NEW L
    PROVE  /\ Promised(w, s, K \cup L) = Promised(w, s, K) \cup Promised(w, s, L)
           /\ Promised(w, s, {}) = {}
BY DEF Promised

\* What a task promises by itself.
LEMMA PromiseAlone ==
    ASSUME NEW w, NEW s, NEW k
    PROVE  Promised(w, s, {k}) = Promise(w, s, k)
BY DEF Promised

\* A record that is to be written.
LEMMA WritePromise ==
    ASSUME NEW w, NEW s, NEW type, NEW owner, NEW data
    PROVE  /\ Promise(w, s, Write(type, owner, data)) = {Recorded(Rec(s, type, owner, data))}
           /\ type \notin {"MX", "NS"} =>
                Promise(w, s, Write(type, owner, data)) = Claims(w, {Rec(s, type, owner, data)})
<1>1. Promise(w, s, Write(type, owner, data)) = {Recorded(Rec(s, type, owner, data))}
  BY DEF Promise, Write
<1>2. ASSUME type \notin {"MX", "NS"}
      PROVE  Claims(w, {Rec(s, type, owner, data)}) = {Recorded(Rec(s, type, owner, data))}
  <2>1. \A r \in {Rec(s, type, owner, data)} : r.type \notin {"MX", "NS"}
    BY <1>2 DEF Rec
  <2> QED  BY <2>1, ClaimsPlain
<1> QED  BY <1>1, <1>2

\* A server whose name is to be looked up.
LEMMA ServerPromise ==
    ASSUME NEW w, NEW s, NEW name
    PROVE  Promise(w, s, Look("server", "A", name)) =
             {Served(h) : h \in Answering(w.m, w.t, name)}
BY DEF Promise, Look

\* The addresses of a list, and what they come to.
LEMMA AddressesPromise ==
    ASSUME NEW type \in {"A", "AAAA"}, NEW w, NEW s, NEW owner, NEW v
    PROVE  Promised(w, s, Range(Addresses(type, owner, v))) = Claims(w, Listed(s, type, owner, v))
<1> DEFINE D == DOMAIN Entries(v)
           R(i) == Rec(s, type, owner, Entries(v)[i].name)
           W(i) == Write(type, owner, Entries(v)[i].name)
           K == Range(Addresses(type, owner, v))
           records == Listed(s, type, owner, v)
<1>1. \A k : k \in K <=> \E i \in D : k = W(i)
  BY DEF Addresses, Range
<1>2. \A r : r \in records <=> \E i \in D : r = R(i)
  BY DEF Listed, Range
<1>3. \A i : Promise(w, s, W(i)) = {Recorded(R(i))}
  BY DEF Promise, Write
<1>4. \A i : R(i).type \notin {"MX", "NS"}
  BY DEF Rec
<1> HIDE DEF D, R, W, K, records
<1>5. Claims(w, records) = {Recorded(r) : r \in records}
  BY <1>2, <1>4, ClaimsPlain
<1>6. \A c : c \in Promised(w, s, K) <=> \E i \in D : c = Recorded(R(i))
  <2>1. \A c : c \in Promised(w, s, K) <=> \E k \in K : c \in Promise(w, s, k)
    BY DEF Promised
  <2>2. \A c, i : c \in Promise(w, s, W(i)) <=> c = Recorded(R(i))
    BY <1>3
  <2> QED  BY <1>1, <2>1, <2>2
<1>7. \A c : c \in Claims(w, records) <=> \E i \in D : c = Recorded(R(i))
  BY <1>2, <1>5
<1>8. Promised(w, s, K) = Claims(w, records)
  BY <1>6, <1>7
<1> QED  BY <1>8 DEF K, records

\* The hosts of a list under a domain.
HostRecords(s, type, owner, domain, v) ==
    {Rec(s, type, owner, GetFdqn(e, domain)) : e \in Range(Entries(v))}

\* The record of a host, or the search for its addresses.
OfHost(k, type, owner, fqdn) == k = Write(type, owner, fqdn) \/ k = Look("server", "A", fqdn)

\* A list of hosts makes a record for each and asks for their addresses.
LEMMA HostsRange ==
    ASSUME NEW type \in {"MX", "NS"}, NEW owner \in Seq(Label), NEW domain \in Seq(Label), NEW v
    PROVE  \A k : k \in Range(Hosts(type, owner, domain, v)) <=>
             \E e \in Range(Entries(v)) : OfHost(k, type, owner, GetFdqn(e, domain))
<1> DEFINE F(i) == GetFdqn(Entries(v)[i], domain)
           P(i) == <<Write(type, owner, F(i)), Look("server", "A", F(i))>>
           parts == [i \in DOMAIN Entries(v) |-> P(i)]
<1>1. /\ Entries(v) \in Seq(Item) /\ \A i \in DOMAIN Entries(v) : Entries(v)[i] \in Item
      /\ DOMAIN Entries(v) = 1..Len(Entries(v)) /\ Len(Entries(v)) \in Nat
  BY EntriesType, LenProperties
<1>2. ASSUME NEW i \in DOMAIN Entries(v) PROVE P(i) \in Seq(Job)
  <2>1. F(i) \in Seq(Label)
    BY <1>1, GetFdqnType
  <2>2. type \in RType /\ "A" \in QType
    BY DEF RType, QType
  <2> HIDE DEF F
  <2>3. Write(type, owner, F(i)) \in Job /\ Look("server", "A", F(i)) \in Job
    BY <2>1, <2>2, WriteType, LookType
  <2> QED  BY <2>3
<1>3. parts \in Seq(Seq(Job)) /\ Len(parts) = Len(Entries(v))
  <2> HIDE DEF P
  <2> QED  BY <1>1, <1>2
<1>4. Hosts(type, owner, domain, v) = FlattenSeq(parts)
  BY DEF Hosts
<1>5. \A i \in DOMAIN Entries(v) :
        Range(P(i)) = {Write(type, owner, F(i)), Look("server", "A", F(i))}
  BY DEF Range
<1>6. \A i \in DOMAIN Entries(v) : parts[i] = P(i)
  OBVIOUS
<1> HIDE DEF parts, P
<1>7. Range(FlattenSeq(parts)) = UNION {Range(parts[i]) : i \in 1..Len(parts)}
  BY <1>3, RangeFlatten
<1> DEFINE W(i) == Write(type, owner, F(i))
           L(i) == Look("server", "A", F(i))
<1>8. \A i \in DOMAIN Entries(v) : Range(parts[i]) = {W(i), L(i)}
  BY <1>5, <1>6
<1>9. Range(Entries(v)) = {Entries(v)[i] : i \in DOMAIN Entries(v)}
  BY DEF Range
<1>10. 1..Len(parts) = DOMAIN Entries(v)
  BY <1>1, <1>3
<1> SUFFICES ASSUME NEW k
             PROVE  k \in Range(FlattenSeq(parts)) <=>
                      \E e \in Range(Entries(v)) :
                          OfHost(k, type, owner, GetFdqn(e, domain))
  BY <1>4
<1>11. k \in Range(FlattenSeq(parts)) <=> \E i \in DOMAIN Entries(v) : k \in Range(parts[i])
  BY <1>7, <1>10
<1>12. k \in Range(FlattenSeq(parts)) <=> \E i \in DOMAIN Entries(v) : k = W(i) \/ k = L(i)
  <2> HIDE DEF W, L
  <2> QED  BY <1>8, <1>11
<1>13. (\E e \in Range(Entries(v)) : OfHost(k, type, owner, GetFdqn(e, domain)))
       <=> \E i \in DOMAIN Entries(v) : k = W(i) \/ k = L(i)
  BY <1>9 DEF OfHost
<1> QED  BY <1>12, <1>13

\* A list of hosts comes to its records and the addresses of the hosts.
LEMMA HostsPromise ==
    ASSUME NEW type \in {"MX", "NS"}, NEW owner \in Seq(Label), NEW domain \in Seq(Label),
           NEW w, NEW s, NEW v
    PROVE  Promised(w, s, Range(Hosts(type, owner, domain, v))) =
             Claims(w, HostRecords(s, type, owner, domain, v))
<1> DEFINE W(e) == Write(type, owner, GetFdqn(e, domain))
           L(e) == Look("server", "A", GetFdqn(e, domain))
           E == Range(Entries(v))
           K == Range(Hosts(type, owner, domain, v))
           R(e) == Rec(s, type, owner, GetFdqn(e, domain))
           A(e) == Answering(w.m, w.t, GetFdqn(e, domain))
           records == HostRecords(s, type, owner, domain, v)
<1>1. \A k : k \in K <=> \E e \in E : k = W(e) \/ k = L(e)
  <2>1. \A k : k \in K <=> \E e \in E : OfHost(k, type, owner, GetFdqn(e, domain))
    BY HostsRange
  <2>2. \A k, e : OfHost(k, type, owner, GetFdqn(e, domain)) <=> k = W(e) \/ k = L(e)
    BY DEF OfHost
  <2> HIDE DEF W, L, R, A, E, K, records
  <2> QED  BY <2>1, <2>2
<1>2. \A e : Promise(w, s, W(e)) = {Recorded(R(e))}
  BY DEF Promise, Write
<1>3. \A e : Promise(w, s, L(e)) = {Served(h) : h \in A(e)}
  BY DEF Promise, Look
<1>4. \A r : r \in records <=> \E e \in E : r = R(e)
  BY DEF HostRecords
<1>5. \A e : /\ R(e).type \in {"MX", "NS"}
            /\ Answering(w.m, w.t, R(e).data) = A(e)
  BY DEF Rec
<1> HIDE DEF W, L, R, A, E, K, records
<1>6. \A h : h \in Hosted(w, records) <=> \E e \in E : h \in A(e)
  BY <1>4, <1>5 DEF Hosted
<1>7. \A c : c \in Promised(w, s, K) <=>
        \E e \in E : c = Recorded(R(e)) \/ \E h \in A(e) : c = Served(h)
  <2>1. \A c : c \in Promised(w, s, K) <=> \E k \in K : c \in Promise(w, s, k)
    BY DEF Promised
  <2>2. \A c, e : c \in Promise(w, s, W(e)) <=> c = Recorded(R(e))
    BY <1>2
  <2>3. \A c, e : c \in Promise(w, s, L(e)) <=> \E h \in A(e) : c = Served(h)
    BY <1>3
  <2>4. ASSUME NEW c, c \in Promised(w, s, K)
        PROVE  \E e \in E : c = Recorded(R(e)) \/ \E h \in A(e) : c = Served(h)
    <3>1. PICK k \in K : c \in Promise(w, s, k)
      BY <2>1, <2>4
    <3>2. PICK e \in E : k = W(e) \/ k = L(e)
      BY <1>1, <3>1
    <3> QED  BY <2>2, <2>3, <3>1, <3>2
  <2>5. ASSUME NEW c, NEW e \in E, c = Recorded(R(e)) \/ \E h \in A(e) : c = Served(h)
        PROVE  c \in Promised(w, s, K)
    <3>1. W(e) \in K /\ L(e) \in K
      BY <1>1
    <3>2. c \in Promise(w, s, W(e)) \/ c \in Promise(w, s, L(e))
      BY <2>2, <2>3, <2>5
    <3> QED  BY <2>1, <3>1, <3>2
  <2> QED  BY <2>4, <2>5
<1>8. \A c : c \in Claims(w, records) <=>
        \E e \in E : c = Recorded(R(e)) \/ \E h \in A(e) : c = Served(h)
  <2>1. \A c : c \in Claims(w, records) <=>
          \/ \E r \in records : c = Recorded(r)
          \/ \E h \in Hosted(w, records) : c = Served(h)
    BY DEF Claims
  <2> QED  BY <1>4, <1>6, <2>1
<1>9. Promised(w, s, K) = Claims(w, records)
  <2>1. \A c : c \in Promised(w, s, K) <=> c \in Claims(w, records)
    BY <1>7, <1>8
  <2> QED  BY <2>1
<1> QED  BY <1>9 DEF K, records

-----------------------------------------------------------------------------
(* What each lookup plans is what the zones hold.                          *)

\* The tasks that the lists of a zone make are to write, or to note a server.
LEMMA ListKinds ==
    ASSUME NEW type, NEW owner, NEW v
    PROVE  \A k \in Range(Addresses(type, owner, v)) : k.do = "store"
<1>1. \A k : k \in Range(Addresses(type, owner, v)) <=>
               \E i \in DOMAIN Entries(v) : k = Write(type, owner, Entries(v)[i].name)
  BY DEF Addresses, Range
<1>2. \A data : Write(type, owner, data).do = "store"
  BY DEF Write
<1> QED  BY <1>1, <1>2

\* The same of hosts.
LEMMA HostKinds ==
    ASSUME NEW type \in {"MX", "NS"}, NEW owner \in Seq(Label), NEW domain \in Seq(Label), NEW v
    PROVE  \A k \in Range(Hosts(type, owner, domain, v)) : k.do \in {"store", "server"}
<1>1. \A k : k \in Range(Hosts(type, owner, domain, v)) <=>
             \E e \in Range(Entries(v)) : OfHost(k, type, owner, GetFdqn(e, domain))
  BY HostsRange
<1>2. \A k, fqdn : OfHost(k, type, owner, fqdn) => k.do \in {"store", "server"}
  BY DEF OfHost, Write, Look
<1> QED  BY <1>1, <1>2

\* Addresses claim nothing but themselves.
LEMMA AddressesPlain ==
    ASSUME NEW w, NEW s, NEW owner, NEW z
    PROVE  /\ \A r \in AllAddresses(s, owner, z) : r.type \notin {"MX", "NS"}
           /\ Claims(w, AllAddresses(s, owner, z)) = {Recorded(r) : r \in AllAddresses(s, owner, z)}
<1>1. \A r \in AllAddresses(s, owner, z) : r.type \notin {"MX", "NS"}
  BY DEF AllAddresses, Listed, Rec
<1> QED  BY <1>1, ClaimsPlain

\* What is planned for the node that a cname leads to is to be written.
LEMMA CnameTasksKinds ==
    ASSUME NEW name \in Seq(Label), NEW t, NEW n
    PROVE  \A k \in Range(CnameTasks(t, n, name)) : k.do = "store"
<1> DEFINE a == Addresses("A", name, t.zone[n].a)
           aaaa == Addresses("AAAA", name, t.zone[n].aaaa)
<1>1. a \in Seq(Jobs(name)) /\ aaaa \in Seq(Jobs(name)) /\ CnameTasks(t, n, name) = a \o aaaa
  BY AddressesType DEF CnameTasks
<1>2. (\A k \in Range(a) : k.do = "store") /\ \A k \in Range(aaaa) : k.do = "store"
  BY ListKinds
<1> HIDE DEF a, aaaa
<1>3. Range(a \o aaaa) = Range(a) \cup Range(aaaa)
  BY <1>1, RangeConcat
<1> QED  BY <1>1, <1>2, <1>3

\* What is planned for the node that a cname leads to: its addresses.
LEMMA CnameTasksPromise ==
    ASSUME NEW name \in Seq(Label), NEW w, NEW s, NEW t, NEW n
    PROVE  Promised(w, s, Range(CnameTasks(t, n, name))) =
             Claims(w, AllAddresses(s, name, t.zone[n]))
<1> DEFINE a == Addresses("A", name, t.zone[n].a)
           aaaa == Addresses("AAAA", name, t.zone[n].aaaa)
           R == Listed(s, "A", name, t.zone[n].a)
           S == Listed(s, "AAAA", name, t.zone[n].aaaa)
<1>1. a \in Seq(Jobs(name)) /\ aaaa \in Seq(Jobs(name)) /\ CnameTasks(t, n, name) = a \o aaaa
  BY AddressesType DEF CnameTasks
<1>2. Promised(w, s, Range(a)) = Claims(w, R) /\ Promised(w, s, Range(aaaa)) = Claims(w, S)
  BY AddressesPromise
<1>3. AllAddresses(s, name, t.zone[n]) = R \cup S
  BY DEF AllAddresses
<1> HIDE DEF a, aaaa, R, S
<1>4. Range(a \o aaaa) = Range(a) \cup Range(aaaa)
  BY <1>1, RangeConcat
<1>5. Promised(w, s, Range(a) \cup Range(aaaa)) =
        Promised(w, s, Range(a)) \cup Promised(w, s, Range(aaaa))
  BY PromisedUnion
<1>6. Claims(w, R \cup S) = Claims(w, R) \cup Claims(w, S)
  BY ClaimsUnion
<1> QED  BY <1>1, <1>2, <1>3, <1>4, <1>5, <1>6

\* What a cname promises, before it is followed.
LEMMA CnamePromise ==
    ASSUME NEW w, NEW s, NEW name
    PROVE  Promise(w, s, Look("cname", "A", name)) =
             Claims(w, UNION {AllAddresses(s, name, w.t.zone[h]) : h \in Answering(w.m, w.t, name)})
<1> DEFINE H == Answering(w.m, w.t, name)
           A(h) == AllAddresses(s, name, w.t.zone[h])
           all == UNION {A(h) : h \in H}
<1>1. \A h : \A r \in A(h) : r.type \notin {"MX", "NS"}
  BY AddressesPlain
<1>2. Promise(w, s, Look("cname", "A", name)) = UNION {{Recorded(r) : r \in A(h)} : h \in H}
  BY DEF Promise, Look
<1> HIDE DEF A, H
<1>3. \A r \in all : r.type \notin {"MX", "NS"}
  BY <1>1
<1>4. Claims(w, all) = {Recorded(r) : r \in all}
  <2> HIDE DEF all
  <2> QED  BY <1>3, ClaimsPlain
<1>5. UNION {{Recorded(r) : r \in A(h)} : h \in H} = {Recorded(r) : r \in all}
  OBVIOUS
<1>6. Promise(w, s, Look("cname", "A", name)) = Claims(w, all)
  BY <1>2, <1>4, <1>5
<1> QED  BY <1>6 DEF A, H

\* The record r should be in the answers, for one reason or another.
IsExpected(w, n, r) ==
    LET z == w.t.zone[n]
        cname == z.cname \in Value
        target == TrueCname(w.t.zone, n)
    IN  \/ /\ cname /\ w.q.type \in {"A", "AAAA", "CNAME", "ALL"}
           /\ r = Rec("answer", "CNAME", w.q.name, target)
        \/ /\ cname /\ w.q.type = "A"
           /\ \E h \in Answering(w.m, w.t, target) :
                 r \in AllAddresses("answer", target, w.t.zone[h])
        \/ ~cname /\ w.q.type = "A" /\ r \in Listed("answer", "A", w.q.name, z.a)
        \/ ~cname /\ w.q.type = "AAAA" /\ r \in Listed("answer", "AAAA", w.q.name, z.aaaa)
        \/ /\ w.q.type = "SOA"
           /\ \E m \in TrueSoa(w.t.zone, n) : r = Rec("answer", "SOA", w.q.name, m)
        \/ w.q.type = "MX" /\ r \in HostRecords("answer", "MX", w.q.name, n, z.mx)
        \/ /\ w.q.type \in {"TXT", "ALL"} /\ z.txt \in Value
           /\ r = Rec("answer", "TXT", w.q.name, << >>)

\* Everything that a question should have in the answers, one kind after the other.
LEMMA ExpectedParts ==
    ASSUME NEW w, NEW n
    PROVE  \A r : r \in ExpectedAnswers(w.m, w.t, n, w.q) <=> IsExpected(w, n, r)
<1> DEFINE z == w.t.zone[n]
           q == w.q
           cname == z.cname \in Value
           target == TrueCname(w.t.zone, n)
           E1 == When(cname /\ q.type \in {"A", "AAAA", "CNAME", "ALL"},
                      {Rec("answer", "CNAME", q.name, target)})
           E2 == When(cname /\ q.type = "A",
                      UNION {AllAddresses("answer", target, w.t.zone[h]) :
                             h \in Answering(w.m, w.t, target)})
           E3 == When(~cname /\ q.type = "A", Listed("answer", "A", q.name, z.a))
           E4 == When(~cname /\ q.type = "AAAA", Listed("answer", "AAAA", q.name, z.aaaa))
           E5 == When(q.type = "SOA", {Rec("answer", "SOA", q.name, m) : m \in TrueSoa(w.t.zone, n)})
           E6 == When(q.type = "MX",
                      {Rec("answer", "MX", q.name, GetFdqn(e, n)) : e \in Range(Entries(z.mx))})
           E7 == When(q.type \in {"TXT", "ALL"} /\ z.txt \in Value,
                      {Rec("answer", "TXT", q.name, << >>)})
<1>1. ExpectedAnswers(w.m, w.t, n, q) = UNION {E1, E2, E3, E4, E5, E6, E7}
  BY DEF ExpectedAnswers
<1>2. \A r : r \in E1 <=> /\ cname /\ q.type \in {"A", "AAAA", "CNAME", "ALL"}
                          /\ r = Rec("answer", "CNAME", q.name, target)
  BY DEF When
<1>3. \A r : r \in E2 <=> /\ cname /\ q.type = "A"
                          /\ \E h \in Answering(w.m, w.t, target) :
                                r \in AllAddresses("answer", target, w.t.zone[h])
  BY DEF When
<1>4. \A r : r \in E3 <=> ~cname /\ q.type = "A" /\ r \in Listed("answer", "A", q.name, z.a)
  BY DEF When
<1>5. \A r : r \in E4 <=>
        ~cname /\ q.type = "AAAA" /\ r \in Listed("answer", "AAAA", q.name, z.aaaa)
  BY DEF When
<1>6. \A r : r \in E5 <=> /\ q.type = "SOA"
                          /\ \E m \in TrueSoa(w.t.zone, n) : r = Rec("answer", "SOA", q.name, m)
  BY DEF When
<1>7. \A r : r \in E6 <=> q.type = "MX" /\ r \in HostRecords("answer", "MX", q.name, n, z.mx)
  BY DEF When, HostRecords
<1>8. \A r : r \in E7 <=> /\ q.type \in {"TXT", "ALL"} /\ z.txt \in Value
                          /\ r = Rec("answer", "TXT", q.name, << >>)
  BY DEF When
<1> HIDE DEF E1, E2, E3, E4, E5, E6, E7
<1>9. \A r : r \in ExpectedAnswers(w.m, w.t, n, q) <=>
        r \in E1 \/ r \in E2 \/ r \in E3 \/ r \in E4 \/ r \in E5 \/ r \in E6 \/ r \in E7
  BY <1>1
<1>10. ASSUME NEW r
       PROVE  r \in ExpectedAnswers(w.m, w.t, n, q) <=> IsExpected(w, n, r)
  BY <1>2, <1>3, <1>4, <1>5, <1>6, <1>7, <1>8, <1>9, Zenon DEF IsExpected
<1> QED  BY <1>10

\* What a question plans in the answers is what the zones hold for it.
LEMMA QuestionPromise ==
    ASSUME NEW w, Settled(w), NEW n \in Name, Has(w.t.zone, n), NEW k \in Job,
           k.type = w.q.type, k.owner = w.q.name,
           k.type = "SOA" => GetSoaZone(w.t, n) # Root
    PROVE  /\ QuestionTasks(w.t, n, k) \in Seq(Job)
           /\ \A j \in Range(QuestionTasks(w.t, n, k)) : j.do # "question"
           /\ Promised(w, "answer", Range(QuestionTasks(w.t, n, k))) =
                Claims(w, ExpectedAnswers(w.m, w.t, n, w.q))
<1> DEFINE t     == w.t
           z     == t.zone[n]
           cname == z.cname \in Value
           full  == FullCname(t, n)
           x     == Write("CNAME", k.owner, full)
           l     == Look("cname", "A", full)
           string == Write("TXT", k.owner, << >>)
           hasText == k.type \in {"TXT", "ALL"} /\ z.txt \in Value
           text  == IF hasText THEN <<string>> ELSE << >>
           mx    == Hosts("MX", k.owner, GetDomainName(t, n), z.mx)
           soa   == Write("SOA", k.owner, GetSoaZone(t, n))
           main  ==
             CASE k.type \in {"A", "AAAA", "ALL"} /\ cname ->
                    IF k.type = "A" THEN Append(<<x>>, l) ELSE <<x>>
               [] k.type = "A" /\ ~cname     -> Addresses("A", k.owner, z.a)
               [] k.type = "AAAA" /\ ~cname  -> Addresses("AAAA", k.owner, z.aaaa)
               [] k.type = "CNAME" /\ cname  -> <<x>>
               [] k.type = "SOA" -> <<soa>>
               [] k.type = "MX"  -> mx
               [] OTHER -> << >>
           textRecords == IF hasText THEN {Rec("answer", "TXT", k.owner, << >>)} ELSE {}
           expected == ExpectedAnswers(w.m, t, n, w.q)
           done(tasks) == Promised(w, "answer", Range(tasks))
           plain(tasks) == tasks \in Seq(Job) /\ \A j \in Range(tasks) : j.do # "question"
<1>0. QuestionTasks(t, n, k) = main \o text
  BY DEF QuestionTasks
<1>1. /\ k.owner \in Seq(Label) /\ k.type \in QType /\ w.q.name = k.owner
      /\ t \in Sound /\ Intact(t) /\ w.m \in {"json", "memory"}
  BY DEF Job, Task, Settled
<1>2. plain(text) /\ done(text) = Claims(w, textRecords)
  <2> DEFINE R == {Rec("answer", "TXT", k.owner, << >>)}
  <2>1. string \in Job /\ string.do # "question"
    <3>1. << >> \in Seq(Label) /\ "TXT" \in RType
      BY EmptySeq DEF RType, QType
    <3>2. string \in Job
      BY <1>1, <3>1, WriteType
    <3> QED  BY <3>2 DEF Write
  <2>2. Promise(w, "answer", string) = Claims(w, R)
    BY WritePromise
  <2>3. Range(<<string>>) = {string} /\ Range(<< >>) = {}
    BY DEF Range
  <2>4. CASE hasText
    <3>1. text = <<string>> /\ textRecords = R
      BY <2>4
    <3> HIDE DEF string, text, textRecords, R
    <3> QED  BY <2>1, <2>2, <2>3, <3>1, PromiseAlone
  <2>5. CASE ~hasText
    <3>1. text = << >> /\ textRecords = {}
      BY <2>5
    <3>2. << >> \in Seq(Job)
      BY EmptySeq
    <3>3. Promised(w, "answer", {}) = {} /\ Claims(w, {}) = {}
      BY PromisedUnion, ClaimsNone
    <3> HIDE DEF text, textRecords
    <3> QED  BY <2>3, <3>1, <3>2, <3>3
  <2> QED  BY <2>4, <2>5
<1>3. ASSUME NEW records, plain(main), done(main) = Claims(w, records),
             expected = records \cup textRecords
      PROVE  plain(QuestionTasks(t, n, k)) /\ done(QuestionTasks(t, n, k)) = Claims(w, expected)
  <2> HIDE DEF main, text, textRecords, expected, t
  <2>1. Range(main \o text) = Range(main) \cup Range(text)
    BY <1>2, <1>3, RangeConcat
  <2>2. done(main \o text) = done(main) \cup done(text)
    BY <2>1, PromisedUnion
  <2>3. Claims(w, expected) = Claims(w, records) \cup Claims(w, textRecords)
    BY <1>3, ClaimsUnion
  <2>4. plain(main \o text)
    BY <1>2, <1>3, <2>1, ConcatProperties
  <2> QED  BY <1>0, <1>2, <1>3, <2>2, <2>3, <2>4
<1> DEFINE alias == Rec("answer", "CNAME", k.owner, full)
           addresses == UNION {AllAddresses("answer", full, t.zone[h]) :
                               h \in Answering(w.m, t, full)}
<1>4. ASSUME cname
      PROVE  /\ TrueCname(t.zone, n) = full
             /\ x \in Job /\ l \in Job /\ x.do # "question" /\ l.do # "question"
             /\ Promise(w, "answer", x) = Claims(w, {alias})
             /\ Promise(w, "answer", l) = Claims(w, addresses)
  <2>1. TrueCname(t.zone, n) = full /\ full \in Seq(Label)
    BY <1>1, <1>4, IntactCname
  <2> HIDE DEF full
  <2>2. "CNAME" \in RType /\ "A" \in QType
    BY DEF RType, QType
  <2>3. x \in Job /\ l \in Job
    BY <1>1, <2>1, <2>2, WriteType, LookType
  <2>4. x.do # "question" /\ l.do # "question"
    BY DEF Write, Look
  <2> QED  BY <2>1, <2>3, <2>4, WritePromise, CnamePromise
<1>5. CASE k.type = "A" /\ cname
  <2>1. main = <<x, l>> /\ Range(<<x, l>>) = {x} \cup {l}
    <3> HIDE DEF x, l, cname
    <3>1. main = Append(<<x>>, l)
      BY <1>5
    <3>2. Append(<<x>>, l) = <<x, l>>
      BY AppendPair
    <3>3. Range(<<x, l>>) = {x} \cup {l}
      BY DEF Range
    <3> QED  BY <3>1, <3>2, <3>3, Zenon
  <2>2. expected = ({alias} \cup addresses) \cup textRecords
    <3>1. \A r : r \in expected <=> IsExpected(w, n, r)
      BY ExpectedParts
    <3>2. \A r : r \in textRecords <=> hasText /\ r = Rec("answer", "TXT", k.owner, << >>)
      OBVIOUS
    <3>3. \A r : r \in addresses <=> \E h \in Answering(w.m, t, full) :
                                        r \in AllAddresses("answer", full, t.zone[h])
      OBVIOUS
    <3> HIDE DEF expected, textRecords, addresses, full
    <3>4. \A r : IsExpected(w, n, r) <=> r = alias \/ r \in addresses \/ r \in textRecords
      BY <1>1, <1>4, <1>5, <3>2, <3>3 DEF IsExpected
    <3> QED  BY <3>1, <3>4
  <2> HIDE DEF x, l, main, text, expected, textRecords, alias, addresses, cname
  <2>3. plain(main)
    BY <1>4, <1>5, <2>1
  <2>4. Promised(w, "answer", {x} \cup {l}) =
          Promised(w, "answer", {x}) \cup Promised(w, "answer", {l})
    BY PromisedUnion
  <2>5. /\ Promised(w, "answer", {x}) = Promise(w, "answer", x)
        /\ Promised(w, "answer", {l}) = Promise(w, "answer", l)
    BY PromiseAlone
  <2>6. Claims(w, {alias} \cup addresses) = Claims(w, {alias}) \cup Claims(w, addresses)
    BY ClaimsUnion
  <2> DEFINE records == {alias} \cup addresses
  <2>7. done(main) = Claims(w, records)
    BY <1>4, <1>5, <2>1, <2>4, <2>5, <2>6
  <2>8. expected = records \cup textRecords
    BY <2>2
  <2> HIDE DEF records, done, plain
  <2>9. plain(QuestionTasks(t, n, k)) /\ done(QuestionTasks(t, n, k)) = Claims(w, expected)
    BY <1>3, <2>3, <2>7, <2>8
  <2> QED  BY <2>9 DEF done, plain, expected
<1>6. CASE k.type \in {"AAAA", "ALL", "CNAME"} /\ cname
  <2> DEFINE records == {alias}
  <2>1. main = <<x>> /\ Range(<<x>>) = {x}
    <3> HIDE DEF x, cname
    <3> QED  BY <1>6 DEF Range
  <2>2. expected = records \cup textRecords
    <3>1. \A r : IsExpected(w, n, r) <=> r = alias \/ r \in textRecords
      <4> HIDE DEF full
      <4> QED  BY <1>1, <1>4, <1>6 DEF IsExpected
    <3> HIDE DEF textRecords, alias
    <3> QED  BY <3>1, ExpectedParts
  <2> HIDE DEF x, main, alias
  <2>3. plain(main)
    BY <1>4, <1>6, <2>1
  <2>4. done(main) = Claims(w, records)
    <3>1. Promised(w, "answer", {x}) = Promise(w, "answer", x)
      BY PromiseAlone
    <3> QED  BY <1>4, <1>6, <2>1, <3>1
  <2> HIDE DEF records, done, plain, expected, text, textRecords
  <2>5. plain(QuestionTasks(t, n, k)) /\ done(QuestionTasks(t, n, k)) = Claims(w, expected)
    BY <1>3, <2>2, <2>3, <2>4
  <2> QED  BY <2>5 DEF done, plain, expected
<1>7. CASE k.type \in {"A", "AAAA"} /\ ~cname
  <2> DEFINE v == IF k.type = "A" THEN z.a ELSE z.aaaa
             records == Listed("answer", k.type, k.owner, v)
  <2>1. main = Addresses(k.type, k.owner, v)
    <3> HIDE DEF cname
    <3> QED  BY <1>7
  <2>2. expected = records \cup textRecords
    <3>1. \A r : IsExpected(w, n, r) <=> r \in records \/ r \in textRecords
      BY <1>1, <1>7 DEF IsExpected
    <3> HIDE DEF textRecords, records
    <3> QED  BY <3>1, ExpectedParts
  <2> HIDE DEF main, v, cname
  <2>3. plain(main)
    <3>1. main \in Seq(Jobs(k.owner))
      BY <1>1, <1>7, <2>1, AddressesType
    <3>2. \A j \in Range(main) : j.do = "store"
      BY <2>1, ListKinds
    <3>3. main \in Seq(Job)
      BY <3>1, JobsReasonable
    <3> QED  BY <3>2, <3>3
  <2>4. done(main) = Claims(w, records)
    BY <1>7, <2>1, AddressesPromise
  <2> HIDE DEF records, done, plain, expected, text, textRecords
  <2>5. plain(QuestionTasks(t, n, k)) /\ done(QuestionTasks(t, n, k)) = Claims(w, expected)
    BY <1>3, <2>2, <2>3, <2>4
  <2> QED  BY <2>5 DEF done, plain, expected
<1>8. CASE k.type = "SOA"
  <2> DEFINE m == GetSoaZone(t, n)
             record == Rec("answer", "SOA", k.owner, m)
             records == {record}
  <2>1. main = <<soa>> /\ Range(<<soa>>) = {soa}
    <3> HIDE DEF soa, cname
    <3> QED  BY <1>8 DEF Range
  <2>2. TrueSoa(t.zone, n) = {m} /\ m \in Seq(Label)
    <3>1. TrueSoa(t.zone, n) = SoaOf(t, n) /\ m \in Name \cup {Root}
      BY <1>1, IntactSoa
    <3>2. m # Root
      BY <1>8
    <3> QED  BY <3>1, <3>2, NameFacts DEF SoaOf
  <2>3. expected = records \cup textRecords
    <3> HIDE DEF m
    <3>1. \A r : IsExpected(w, n, r) <=> r = record \/ r \in textRecords
      BY <1>1, <1>8, <2>2 DEF IsExpected
    <3> HIDE DEF textRecords, record
    <3> QED  BY <3>1, ExpectedParts
  <2>4. soa \in Job /\ soa.do # "question" /\ Promise(w, "answer", soa) = Claims(w, records)
    <3>1. "SOA" \in RType
      BY DEF RType, QType
    <3>2. soa \in Job
      BY <1>1, <2>2, <3>1, WriteType
    <3>3. Promise(w, "answer", soa) = Claims(w, records)
      BY WritePromise
    <3>4. soa.do # "question"
      BY DEF Write
    <3> QED  BY <3>2, <3>3, <3>4
  <2> HIDE DEF soa, main, record
  <2>5. plain(main)
    BY <2>1, <2>4
  <2>6. done(main) = Claims(w, records)
    <3>1. Promised(w, "answer", {soa}) = Promise(w, "answer", soa)
      BY PromiseAlone
    <3> QED  BY <2>1, <2>4, <3>1
  <2> HIDE DEF records, done, plain, expected, text, textRecords
  <2>7. plain(QuestionTasks(t, n, k)) /\ done(QuestionTasks(t, n, k)) = Claims(w, expected)
    BY <1>3, <2>3, <2>5, <2>6
  <2> QED  BY <2>7 DEF done, plain, expected
<1>9. CASE k.type = "MX"
  <2> DEFINE records == HostRecords("answer", "MX", k.owner, n, z.mx)
  <2>1. main = mx
    <3> HIDE DEF mx, cname
    <3> QED  BY <1>9
  <2>2. mx = Hosts("MX", k.owner, n, z.mx) /\ n \in Seq(Label) /\ n # Dangling
    BY <1>1, IntactName, NameFacts, MarkAssumption
  <2>3. expected = records \cup textRecords
    <3>1. \A r : IsExpected(w, n, r) <=> r \in records \/ r \in textRecords
      BY <1>1, <1>9 DEF IsExpected
    <3> HIDE DEF textRecords, records
    <3> QED  BY <3>1, ExpectedParts
  <2> HIDE DEF main, mx
  <2>4. plain(main)
    <3>1. main \in Seq(Jobs(k.owner))
      BY <1>1, <2>1, <2>2, HostsType
    <3>2. main \in Seq(Job)
      BY <3>1, JobsReasonable
    <3> DEFINE owner == k.owner
               v == z.mx
    <3>3. "MX" \in {"MX", "NS"} /\ owner \in Seq(Label) /\ n \in Seq(Label)
      BY <1>1, <2>2
    <3>4. main = Hosts("MX", owner, n, v)
      BY <2>1, <2>2
    <3> HIDE DEF owner, v
    <3>5. \A j \in Range(Hosts("MX", owner, n, v)) : j.do \in {"store", "server"}
      BY <3>3, HostKinds
    <3> QED  BY <3>2, <3>4, <3>5
  <2>5. done(main) = Claims(w, records)
    <3> DEFINE owner == k.owner
               v == z.mx
    <3>1. "MX" \in {"MX", "NS"} /\ owner \in Seq(Label) /\ n \in Seq(Label)
      BY <1>1, <2>2
    <3> HIDE DEF owner, v
    <3>2. done(Hosts("MX", owner, n, v)) =
            Claims(w, HostRecords("answer", "MX", owner, n, v))
      BY <3>1, HostsPromise
    <3> QED  BY <2>1, <2>2, <3>2 DEF owner, v
  <2> HIDE DEF records, done, plain, expected, text, textRecords
  <2>6. plain(QuestionTasks(t, n, k)) /\ done(QuestionTasks(t, n, k)) = Claims(w, expected)
    BY <1>3, <2>3, <2>4, <2>5
  <2> QED  BY <2>6 DEF done, plain, expected
<1>10. CASE /\ k.type \notin {"SOA", "MX"}
            /\ ~(k.type \in {"A", "AAAA", "ALL", "CNAME"} /\ cname)
            /\ ~(k.type \in {"A", "AAAA"} /\ ~cname)
  <2> DEFINE records == {}
  <2>1. main = << >> /\ Range(<< >>) = {}
    <3> HIDE DEF cname
    <3> QED  BY <1>10 DEF Range
  <2>2. expected = records \cup textRecords
    <3>1. \A r : IsExpected(w, n, r) <=> r \in textRecords
      BY <1>1, <1>10 DEF IsExpected
    <3> HIDE DEF textRecords
    <3> QED  BY <3>1, ExpectedParts
  <2> HIDE DEF main
  <2>3. plain(main)
    BY <2>1, EmptySeq
  <2>4. done(main) = Claims(w, records)
    <3>1. Promised(w, "answer", {}) = {} /\ Claims(w, {}) = {}
      BY PromisedUnion, ClaimsNone
    <3> QED  BY <2>1, <3>1
  <2> HIDE DEF records, done, plain, expected, text, textRecords
  <2>5. plain(QuestionTasks(t, n, k)) /\ done(QuestionTasks(t, n, k)) = Claims(w, expected)
    BY <1>3, <2>2, <2>3, <2>4
  <2> QED  BY <2>5 DEF done, plain, expected
<1> HIDE DEF cname
<1> QED  BY <1>5, <1>6, <1>7, <1>8, <1>9, <1>10

\* What the authority section plans for a zone: its name servers.
LEMMA AuthPromise ==
    ASSUME NEW n \in Name, NEW w, NEW s, NEW r, Settled(w), Has(w.t.zone, n),
           r.tree = w.t, r.node = n
    PROVE  /\ AuthTasks(r) \in Seq(Job)
           /\ \A k \in Range(AuthTasks(r)) : k.do \in {"store", "server"}
           /\ Promised(w, s, Range(AuthTasks(r))) =
                Claims(w, HostRecords(s, "NS", n, n, w.t.zone[n].ns))
<1> DEFINE v == w.t.zone[n].ns
<1>1. GetDomainName(w.t, n) = n /\ n \in Seq(Label) /\ n # Dangling
  BY IntactName, NameFacts, MarkAssumption DEF Settled
<1>2. AuthTasks(r) = Hosts("NS", n, n, v)
  BY <1>1 DEF AuthTasks
<1> HIDE DEF v
<1>3. Hosts("NS", n, n, v) \in Seq(Job)
  <2>1. Hosts("NS", n, n, v) \in Seq(Jobs(n))
    BY <1>1, HostsType
  <2> QED  BY <2>1, JobsReasonable
<1>4. Promised(w, s, Range(Hosts("NS", n, n, v))) = Claims(w, HostRecords(s, "NS", n, n, v))
  BY <1>1, HostsPromise
<1>5. \A k \in Range(Hosts("NS", n, n, v)) : k.do \in {"store", "server"}
  BY <1>1, HostKinds
<1> QED  BY <1>2, <1>3, <1>4, <1>5 DEF v

\* What the last section plans for a server: its addresses.
LEMMA NsPromise ==
    ASSUME NEW n \in Name, NEW w, NEW s, NEW r, Settled(w), Has(w.t.zone, n),
           r.tree = w.t, r.node = n
    PROVE  /\ NsTasks(r) \in Seq(Job)
           /\ \A k \in Range(NsTasks(r)) : k.do = "store"
           /\ Promised(w, s, Range(NsTasks(r))) =
                {Recorded(x) : x \in AllAddresses(s, n, w.t.zone[n])}
<1> DEFINE t == w.t
<1>1. GetDomainName(t, n) = n /\ n \in Seq(Label)
  BY IntactName, NameFacts DEF Settled
<1>2. NsTasks(r) = CnameTasks(t, n, n)
  BY <1>1 DEF NsTasks, CnameTasks
<1> HIDE DEF t
<1>3. CnameTasks(t, n, n) \in Seq(Job)
  BY <1>1, CnameTasksFacts
<1>4. Promised(w, s, Range(CnameTasks(t, n, n))) = Claims(w, AllAddresses(s, n, t.zone[n]))
  BY <1>1, CnameTasksPromise
<1>6. \A k \in Range(CnameTasks(t, n, n)) : k.do = "store"
  BY <1>1, CnameTasksKinds
<1>5. Claims(w, AllAddresses(s, n, t.zone[n])) = {Recorded(x) : x \in AllAddresses(s, n, t.zone[n])}
  BY AddressesPlain
<1> QED  BY <1>2, <1>3, <1>4, <1>5, <1>6 DEF t

\* What the parts of a section plan, it plans.
LEMMA FlattenPromise ==
    ASSUME NEW parts \in Seq(Seq(Job)), NEW w, NEW s
    PROVE  \A c : c \in Promised(w, s, Range(FlattenSeq(parts))) <=>
                    \E i \in 1..Len(parts) : c \in Promised(w, s, Range(parts[i]))
<1> DEFINE K == Range(FlattenSeq(parts))
           P(i) == Range(parts[i])
<1>1. K = UNION {P(i) : i \in 1..Len(parts)}
  BY RangeFlatten
<1> HIDE DEF K, P
<1>2. \A c : c \in Promised(w, s, K) <=> \E k \in K : c \in Promise(w, s, k)
  BY DEF Promised
<1>3. \A i, c : c \in Promised(w, s, P(i)) <=> \E k \in P(i) : c \in Promise(w, s, k)
  BY DEF Promised
<1>4. \A c : c \in Promised(w, s, K) <=> \E i \in 1..Len(parts) : c \in Promised(w, s, P(i))
  BY <1>1, <1>2, <1>3
<1> QED  BY <1>4 DEF K, P

-----------------------------------------------------------------------------
(* The invariant: what the reply and the lists of zones have, together     *)
(* with what is planned, is all that the section should have.              *)

\* What the query that is being answered is about.
Context == [m |-> manager, t |-> zones, q |-> query.questions[1]]

\* A well-formed query that nobody disturbs.
Live ==
    /\ ~disturbed
    /\ Intact(zones)
    /\ query.header = "query"
    /\ query.count > 0
    /\ FirstPass(query) = "OK"

\* There is something to answer with.
Answerable(w) ==
    /\ Answering(w.m, w.t, w.q.name) # {}
    /\ ~(w.q.type = "SOA" /\ TrueSoa(w.t.zone, NodeOf(w)) = {})

\* The records of a list, and what they and the lists of zones claim.
InReply(records) == {Rec(r.section, r.type, r.owner, r.data) : r \in Range(records)}
NodesOf(refs)    == {r.node : r \in Range(refs)}
Have(records, ns, auth) ==
    {Recorded(r) : r \in InReply(records)} \cup {Served(h) : h \in NodesOf(ns)}
        \cup {Owning(m) : m \in NodesOf(auth)}

\* The references are to nodes of the zones.
Held(w, refs) == \A r \in Range(refs) : r.tree = w.t /\ r.node \in Name /\ Has(w.t.zone, r.node)

\* The question is the one that was asked; later sections only write and note servers.
Planning(w, s, k) ==
    /\ k.do = "question" => k.type = w.q.type /\ k.owner = w.q.name
    /\ s # "answer" => k.do \in {"store", "server"}

\* A lookup holds the node that answers for the name.
Holding(w, tasks, ref) ==
    ref # NoRef => /\ tasks # << >>
                   /\ Head(tasks).do # "store"
                   /\ ref.tree = w.t
                   /\ Answering(w.m, w.t, Head(tasks).owner) = {ref.node}

Current(w) ==
    /\ Held(w, authZones) /\ Held(w, nsZones)
    /\ Holding(w, todo, found)
    /\ \A k \in Range(todo) : Planning(w, phase, k)
    /\ IF Answerable(w)
       THEN Have(reply.records, nsZones, authZones) \cup Promised(w, phase, Range(todo)) =
              Goal(w, phase)
       ELSE phase = "answer" /\ todo # << >> /\ Head(todo).do = "question"

\* What the query should come to in the end.
Right(w, s, r) ==
    LET all == Expected(w.m, w.t, NodeOf(w), w.q)
    IN  IF Answering(w.m, w.t, w.q.name) = {}
        THEN IF OursButUnknown(w.m, w.t, w.q.name)
             THEN s = "send" /\ r.rcode = "NAME_ERROR"
             ELSE s = "silent"
        ELSE IF w.q.type = "SOA" /\ TrueSoa(w.t.zone, NodeOf(w)) = {}
        THEN s = "send" /\ r.rcode = "SERVER_FAILURE"
        ELSE /\ s = "send" /\ r.rcode = "OK"
             /\ InReply(r.records) \subseteq all
             /\ r.truncated \/ InReply(r.records) = all

ReplyInv ==
    Live => /\ phase \in Section => Current(Context)
            /\ phase \in {"send", "silent"} => Right(Context, phase, reply)

\* The invariant has what should be shown.
LEMMA ReplyInvImplies ==
    ReplyInv => UndisturbedReply
<1> SUFFICES ASSUME ReplyInv, phase \in {"send", "silent"}, Live PROVE UndisturbedReply
  BY DEF UndisturbedReply, Live
<1> DEFINE w == Context
<1>1. Right(w, phase, reply)
  BY DEF ReplyInv
<1>2. /\ w.m = manager /\ w.t = zones /\ w.q = query.questions[1]
      /\ NodeOf(w) = CHOOSE n \in Answering(manager, zones, query.questions[1].name) : TRUE
  BY DEF Context, NodeOf
<1> HIDE DEF w
<1> QED  BY <1>1, <1>2 DEF Right, UndisturbedReply, InReply

-----------------------------------------------------------------------------
(* One lemma per step of the query.                                        *)

\* What the claims on record are, one by one.
LEMMA HaveClaims ==
    ASSUME NEW records, NEW ns, NEW auth
    PROVE  /\ \A r : Recorded(r) \in Have(records, ns, auth) <=> r \in InReply(records)
           /\ \A h : Served(h) \in Have(records, ns, auth) <=> h \in NodesOf(ns)
           /\ \A m : Owning(m) \in Have(records, ns, auth) <=> m \in NodesOf(auth)
           /\ \A c \in Have(records, ns, auth) :
                \/ \E r : c = Recorded(r)
                \/ \E h : c = Served(h)
                \/ \E m : c = Owning(m)
BY ClaimKinds DEF Have

\* What the goals are, one by one.
LEMMA GoalClaims ==
    ASSUME NEW w
    PROVE  /\ \A r : Recorded(r) \in AtAnswer(w) <=> r \in InAnswer(w)
           /\ \A h : Served(h) \in AtAnswer(w) <=> h \in Hosted(w, InAnswer(w))
           /\ \A m : Owning(m) \in AtAnswer(w) <=> Owning(m) \in Soas(w)
           /\ \A r : Recorded(r) \in AtAuthority(w) <=> r \in InAnswer(w) \cup InAuthority(w)
           /\ \A h : Served(h) \in AtAuthority(w) <=>
                       h \in Hosted(w, InAnswer(w) \cup InAuthority(w))
           /\ \A r : Recorded(r) \in Goal(w, "additional") <=>
                       r \in InAnswer(w) \cup InAuthority(w) \cup InAdditional(w)
<1>1. /\ \A r : Recorded(r) \notin Soas(w)
      /\ \A h : Served(h) \notin Soas(w)
  BY ClaimKinds DEF Soas
<1>2. ASSUME NEW R
      PROVE  /\ \A r : Recorded(r) \in Claims(w, R) <=> r \in R
             /\ \A h : Served(h) \in Claims(w, R) <=> h \in Hosted(w, R)
             /\ \A m : Owning(m) \notin Claims(w, R)
  BY ClaimKinds DEF Claims
<1>3. AtAuthority(w) = Claims(w, InAnswer(w) \cup InAuthority(w)) \cup Soas(w)
  BY ClaimsUnion DEF AtAuthority, AtAnswer
<1>4. \A h : Served(h) \notin {Recorded(r) : r \in InAdditional(w)}
  BY ClaimKinds
<1>5. \A r : Recorded(r) \in {Recorded(x) : x \in InAdditional(w)} <=> r \in InAdditional(w)
  BY ClaimKinds
<1>6. Goal(w, "additional") = AtAuthority(w) \cup {Recorded(r) : r \in InAdditional(w)}
  BY DEF Goal
<1>7. /\ \A r : Recorded(r) \in AtAnswer(w) <=> r \in InAnswer(w)
      /\ \A h : Served(h) \in AtAnswer(w) <=> h \in Hosted(w, InAnswer(w))
      /\ \A m : Owning(m) \in AtAnswer(w) <=> Owning(m) \in Soas(w)
  BY <1>1, <1>2 DEF AtAnswer
<1>8. /\ \A r : Recorded(r) \in AtAuthority(w) <=> r \in InAnswer(w) \cup InAuthority(w)
      /\ \A h : Served(h) \in AtAuthority(w) <=> h \in Hosted(w, InAnswer(w) \cup InAuthority(w))
  BY <1>1, <1>2, <1>3
<1> QED  BY <1>5, <1>6, <1>7, <1>8

\* All of it is expected.
LEMMA ExpectedIs ==
    ASSUME NEW w
    PROVE  Expected(w.m, w.t, NodeOf(w), w.q) = InAnswer(w) \cup InAuthority(w) \cup InAdditional(w)
BY DEF Expected, InAnswer, InAuthority, InAdditional

\* Whatever is on record in any section is expected.
LEMMA GoalExpected ==
    ASSUME NEW s \in Section, NEW w, NEW r, Recorded(r) \in Goal(w, s)
    PROVE  r \in Expected(w.m, w.t, NodeOf(w), w.q)
<1>1. Goal(w, s) \in {AtAnswer(w), AtAuthority(w), Goal(w, "additional")}
  BY DEF Goal, Section
<1>2. r \in InAnswer(w) \cup InAuthority(w) \cup InAdditional(w)
  BY <1>1, GoalClaims
<1> QED  BY <1>2, ExpectedIs

\* An answer with less than all of its records, or with all.
LEMMA RightAnswer ==
    ASSUME NEW s \in Section, NEW w, NEW r, NEW ns, NEW auth, NEW K,
           Answerable(w), r.rcode = "OK",
           Have(r.records, ns, auth) \cup Promised(w, s, K) = Goal(w, s),
           r.truncated \/ (s = "additional" /\ K = {})
    PROVE  Right(w, "send", r)
<1> DEFINE all == Expected(w.m, w.t, NodeOf(w), w.q)
           have == Have(r.records, ns, auth)
<1>1. InReply(r.records) \subseteq all
  <2> SUFFICES ASSUME NEW x \in InReply(r.records) PROVE x \in all
    OBVIOUS
  <2>1. Recorded(x) \in have
    BY HaveClaims
  <2>2. Recorded(x) \in Goal(w, s)
    <3> HIDE DEF have
    <3> QED  BY <2>1 DEF have
  <2> QED  BY <2>2, GoalExpected
<1>2. ASSUME s = "additional", K = {} PROVE all \subseteq InReply(r.records)
  <2>1. have = Goal(w, "additional")
    <3>1. Promised(w, s, K) = {}
      BY <1>2, PromisedUnion
    <3> QED  BY <1>2, <3>1
  <2> SUFFICES ASSUME NEW x \in all PROVE x \in InReply(r.records)
    OBVIOUS
  <2>2. x \in InAnswer(w) \cup InAuthority(w) \cup InAdditional(w)
    BY ExpectedIs
  <2>3. Recorded(x) \in Goal(w, "additional")
    BY <2>2, GoalClaims
  <2>4. Recorded(x) \in have
    BY <2>1, <2>3
  <2> QED  BY <2>4, HaveClaims
<1> HIDE DEF all
<1>3. r.truncated \/ InReply(r.records) = all
  BY <1>1, <1>2
<1> QED  BY <1>1, <1>3 DEF Right, Answerable, all

\* One more record on record.
LEMMA HaveRecord ==
    ASSUME NEW records \in Seq(Record), NEW x \in Record, NEW ns, NEW auth
    PROVE  Have(Append(records, x), ns, auth) =
             Have(records, ns, auth) \cup {Recorded(Rec(x.section, x.type, x.owner, x.data))}
<1>1. Range(Append(records, x)) = Range(records) \cup {x}
  BY RangeAppend
<1>2. InReply(Append(records, x)) =
        InReply(records) \cup {Rec(x.section, x.type, x.owner, x.data)}
  BY <1>1 DEF InReply
<1> DEFINE new == Rec(x.section, x.type, x.owner, x.data)
<1> HIDE DEF new
<1>3. {Recorded(r) : r \in InReply(records) \cup {new}} =
        {Recorded(r) : r \in InReply(records)} \cup {Recorded(new)}
  OBVIOUS
<1>4. InReply(Append(records, x)) = InReply(records) \cup {new}
  BY <1>2 DEF new
<1>5. Have(Append(records, x), ns, auth) = Have(records, ns, auth) \cup {Recorded(new)}
  BY <1>3, <1>4 DEF Have
<1> QED  BY <1>5 DEF new

\* One more zone in a list of zones.
LEMMA NodesAppend ==
    ASSUME NEW refs \in Seq(Ref), NEW x \in Ref, NEW w
    PROVE  /\ NodesOf(Append(refs, x)) = NodesOf(refs) \cup {x.node}
           /\ Held(w, refs) /\ x.tree = w.t /\ Has(w.t.zone, x.node) => Held(w, Append(refs, x))
<1>1. Range(Append(refs, x)) = Range(refs) \cup {x}
  BY RangeAppend
<1>2. x.node \in Name
  BY DEF Ref
<1> QED  BY <1>1, <1>2 DEF NodesOf, Held

\* With AddZone its node is among those of the list, whether it was added or was
\* there already.
LEMMA AddZoneNodes ==
    ASSUME NEW refs \in Seq(Ref), NEW t \in Sound, NEW n \in Name
    PROVE  /\ NodesOf(AddZone(refs, t, n)) = NodesOf(refs) \cup {n}
           /\ \A w : Held(w, refs) /\ w.t = t /\ Has(t.zone, n) => Held(w, AddZone(refs, t, n))
<1> DEFINE x == [tree |-> t, node |-> n]
           new == AddZone(refs, t, n)
<1>1. x \in Ref /\ x.tree = t /\ x.node = n
  BY DEF Ref
<1>2. new = Append(refs, x) \/ (new = refs /\ x \in Range(refs))
  BY NameAssumption DEF AddZone
<1> HIDE DEF x, new
<1>3. CASE new = Append(refs, x)
  <2>1. NodesOf(new) = NodesOf(refs) \cup {n}
    BY <1>1, <1>3, NodesAppend
  <2>2. ASSUME NEW w, Held(w, refs), w.t = t, Has(t.zone, n)
        PROVE  Held(w, new)
    BY <1>1, <1>3, <2>2, NodesAppend
  <2> QED  BY <2>1, <2>2 DEF new
<1>4. CASE new = refs /\ x \in Range(refs)
  <2>1. NodesOf(refs) = NodesOf(refs) \cup {n}
    BY <1>1, <1>4 DEF NodesOf
  <2> QED  BY <1>4, <2>1 DEF new
<1> QED  BY <1>2, <1>3, <1>4

\* The task at hand is exchanged for others, and for something to have.
LEMMA Exchange ==
    ASSUME NEW tasks \in Seq(Job), tasks # << >>, NEW new \in Seq(Job), NEW w, NEW s,
           NEW have, NEW gain,
           gain \cup Promised(w, s, Range(new)) = Promise(w, s, Head(tasks))
    PROVE  (have \cup gain) \cup Promised(w, s, Range(new \o Tail(tasks))) =
             have \cup Promised(w, s, Range(tasks))
<1> DEFINE rest == Tail(tasks)
           k == Head(tasks)
<1>1. rest \in Seq(Job) /\ Range(tasks) = {k} \cup Range(rest)
  BY RangeHeadTail, HeadTailProperties
<1> HIDE DEF rest, k
<1>2. Range(new \o rest) = Range(new) \cup Range(rest)
  BY <1>1, RangeConcat
<1>3. Promised(w, s, {k} \cup Range(rest)) = Promised(w, s, {k}) \cup Promised(w, s, Range(rest))
  BY PromisedUnion
<1>4. Promised(w, s, Range(new) \cup Range(rest)) =
        Promised(w, s, Range(new)) \cup Promised(w, s, Range(rest))
  BY PromisedUnion
<1>5. Promised(w, s, {k}) = gain \cup Promised(w, s, Range(new))
  <2>1. Promised(w, s, {k}) = Promise(w, s, k)
    BY PromiseAlone
  <2> QED  BY <2>1 DEF k
<1>6. (have \cup gain) \cup Promised(w, s, Range(new \o rest)) =
        have \cup Promised(w, s, Range(tasks))
  BY <1>1, <1>2, <1>3, <1>4, <1>5
<1> QED  BY <1>6 DEF rest

\* The task at hand is done, with something to have.
LEMMA Done ==
    ASSUME NEW tasks \in Seq(Job), tasks # << >>, NEW w, NEW s,
           NEW have
    PROVE  (have \cup Promise(w, s, Head(tasks))) \cup Promised(w, s, Range(Tail(tasks))) =
             have \cup Promised(w, s, Range(tasks))
<1> DEFINE rest == Tail(tasks)
           k == Head(tasks)
<1>1. Range(tasks) = {k} \cup Range(rest)
  BY RangeHeadTail
<1> HIDE DEF rest
<1>2. Promised(w, s, {k} \cup Range(rest)) = Promised(w, s, {k}) \cup Promised(w, s, Range(rest))
  BY PromisedUnion
<1>3. Promised(w, s, {k}) = Promise(w, s, k)
  BY PromiseAlone
<1>4. (have \cup Promise(w, s, k)) \cup Promised(w, s, Range(rest)) =
        have \cup Promised(w, s, Range(tasks))
  BY <1>1, <1>2, <1>3
<1> QED  BY <1>4 DEF rest

\* What is planned stays planned.
LEMMA StillPlanned ==
    ASSUME NEW tasks \in Seq(Job), tasks # << >>, NEW new \in Seq(Job), NEW w, NEW s,
           \A k \in Range(tasks) : Planning(w, s, k),
           \A k \in Range(new) : Planning(w, s, k)
    PROVE  /\ \A k \in Range(Tail(tasks)) : Planning(w, s, k)
           /\ \A k \in Range(new \o Tail(tasks)) : Planning(w, s, k)
           /\ Planning(w, s, Head(tasks))
<1> DEFINE rest == Tail(tasks)
<1>1. rest \in Seq(Job) /\ Range(tasks) = {Head(tasks)} \cup Range(rest)
  BY RangeHeadTail, HeadTailProperties
<1> HIDE DEF rest
<1>2. Range(new \o rest) = Range(new) \cup Range(rest)
  BY <1>1, RangeConcat
<1>3. /\ \A k \in Range(rest) : Planning(w, s, k)
      /\ \A k \in Range(new \o rest) : Planning(w, s, k)
      /\ Planning(w, s, Head(tasks))
  BY <1>1, <1>2
<1> QED  BY <1>3 DEF rest

\* A query in the course of being answered: the zones it is answered from, and where
\* its answer is.
Running(w) ==
    /\ TypeInv /\ WireInv
    /\ Settled(w) /\ w.m = manager /\ w.t = zones
    /\ phase \in Section
    /\ Current(w)

\* The query goes on as it should.
GoesOn(w) ==
    /\ phase' \in Section => Current(w)'
    /\ phase' \in {"send", "silent"} => Right(w, phase', reply')

\* A record is written, or the reply goes out truncated.
LEMMA StoreReply ==
    ASSUME NEW w, Running(w), Store
    PROVE  GoesOn(w)
<1> DEFINE k == Head(todo)
           have == Have(reply.records, nsZones, authZones)
<1>1. /\ phase \in Section /\ todo # << >> /\ k.do = "store" /\ k.do # "question"
      /\ todo \in Seq(Job) /\ << >> \in Seq(Job)
      /\ UNCHANGED <<nsZones, authZones>>
  BY EmptySeq DEF Store, At, Running, TypeInv
<1>2. /\ reply \in Reply /\ reply.records \in Seq(Record) /\ reply.rcode = "OK"
  BY DEF Running, TypeInv, WireInv, Reply
<1>3. /\ Held(w, authZones) /\ Held(w, nsZones) /\ Holding(w, todo, found)
      /\ \A j \in Range(todo) : Planning(w, phase, j)
      /\ Answerable(w)
      /\ have \cup Promised(w, phase, Range(todo)) = Goal(w, phase)
  BY <1>1 DEF Running, Current
<1>4. PICK s \in RecordSize :
        \/ /\ reply.size + s > MaxReply
           /\ Finish([reply EXCEPT !.truncated = TRUE])
        \/ /\ reply.size + s <= MaxReply
           /\ reply' = WithRecord(s)
           /\ todo' = Tail(todo)
           /\ UNCHANGED <<phase, found>>
  BY DEF Store
<1>5. CASE Finish([reply EXCEPT !.truncated = TRUE])
  <2>1. phase' = "send" /\ reply' = [reply EXCEPT !.truncated = TRUE]
    BY <1>5 DEF Finish
  <2>2. reply'.rcode = "OK" /\ reply'.truncated /\ reply'.records = reply.records
    BY <1>2, <2>1 DEF Reply
  <2>3. Right(w, "send", reply')
    BY <1>1, <1>3, <2>2, RightAnswer
  <2> QED  BY <2>1, <2>3 DEF GoesOn, Section
<1>6. CASE /\ reply.size + s <= MaxReply
           /\ reply' = WithRecord(s)
           /\ todo' = Tail(todo)
           /\ UNCHANGED <<phase, found>>
  <2> DEFINE x == [section |-> phase, type |-> k.type, owner |-> k.owner, data |-> k.data,
                   from |-> reply.size, to |-> reply.size + s]
             gain == {Recorded(Rec(x.section, x.type, x.owner, x.data))}
  <2>1. reply'.records = Append(reply.records, x) /\ reply' \in Reply
    BY <1>1, <1>6, WithRecordType DEF Running
  <2>2. x \in Record
    <3>1. k.type \in RType /\ k.owner \in Seq(Label) /\ k.data \in Seq(Label)
      BY <1>1, TodoFacts DEF Running
    <3>2. reply.size \in Nat /\ reply.size + s \in Nat
      BY <1>2, SizeAssumption DEF Reply
    <3> QED  BY <1>1, <3>1, <3>2 DEF Record
  <2>3. gain = Promise(w, phase, k)
    BY <1>1 DEF Promise
  <2> HIDE DEF x, gain, have, k
  <2>4. Have(Append(reply.records, x), nsZones, authZones) = have \cup gain
    BY <1>2, <2>2, HaveRecord DEF gain, have
  <2>5. (have \cup gain) \cup Promised(w, phase, Range(Tail(todo))) = Goal(w, phase)
    BY <1>1, <1>3, <2>3, Done DEF k
  <2>6. \A j \in Range(Tail(todo)) : Planning(w, phase, j)
    BY <1>1, <1>3, StillPlanned
  <2>7. Holding(w, Tail(todo), found)
    <3>1. found = NoRef
      BY <1>1, <1>3, <1>6 DEF Holding, k
    <3> QED  BY <3>1 DEF Holding
  <2>8. Current(w)'
    BY <1>1, <1>3, <1>6, <2>1, <2>4, <2>5, <2>6, <2>7 DEF Current
  <2> QED  BY <1>1, <1>6, <2>8 DEF GoesOn, Section
<1> QED  BY <1>4, <1>5, <1>6

\* What a query has while it runs.
LEMMA RunningFacts ==
    ASSUME NEW w, Running(w)
    PROVE  /\ phase \in Section /\ reply \in Reply /\ reply.records \in Seq(Record)
           /\ reply.rcode = "OK" /\ w.t \in Sound /\ w.m \in {"json", "memory"}
           /\ todo \in Seq(Job) /\ nsZones \in Seq(Ref) /\ authZones \in Seq(Ref)
           /\ Held(w, authZones) /\ Held(w, nsZones) /\ Holding(w, todo, found)
           /\ \A k \in Range(todo) : Planning(w, phase, k)
           /\ todo # << >> => /\ Planning(w, phase, Head(todo))
                              /\ Tail(todo) \in Seq(Job)
                              /\ \A k \in Range(Tail(todo)) : Planning(w, phase, k)
                              /\ Head(todo).owner \in Seq(Label)
<1>1. /\ phase \in Section /\ reply \in Reply /\ reply.records \in Seq(Record)
      /\ reply.rcode = "OK" /\ w.t \in Sound /\ w.m \in {"json", "memory"}
      /\ todo \in Seq(Job) /\ nsZones \in Seq(Ref) /\ authZones \in Seq(Ref)
  BY DEF Running, TypeInv, WireInv, Reply, Settled
<1>2. /\ Held(w, authZones) /\ Held(w, nsZones) /\ Holding(w, todo, found)
      /\ \A k \in Range(todo) : Planning(w, phase, k)
  BY DEF Running, Current
<1>3. ASSUME todo # << >>
      PROVE  /\ Planning(w, phase, Head(todo))
             /\ \A k \in Range(Tail(todo)) : Planning(w, phase, k)
  <2>1. Range(todo) = {Head(todo)} \cup Range(Tail(todo))
    BY <1>1, <1>3, RangeHeadTail
  <2> QED  BY <1>2, <2>1
<1>4. todo # << >> => Tail(todo) \in Seq(Job) /\ Head(todo).owner \in Seq(Label)
  BY TodoFacts DEF Running
<1> QED  BY <1>1, <1>2, <1>3, <1>4

\* A lookup finds the node that answers for the name.
LEMMA LookupSearchReply ==
    ASSUME NEW w, Running(w), LookupSearch
    PROVE  GoesOn(w)
<1> DEFINE name == Head(todo).owner
           n == Finds(w.m, w.t, name)
<1>1. /\ todo # << >> /\ Head(todo).do # "store"
      /\ Found(zones, name) # Root
      /\ found' = [tree |-> zones, node |-> Found(zones, name)]
      /\ UNCHANGED <<phase, todo, reply, authZones, nsZones>>
  BY DEF LookupSearch, IsLookup, At
<1>2. w.m = manager /\ w.t = zones /\ Found(zones, name) = n
  BY DEF Running, Found, Finds
<1>3. name \in Seq(Label) /\ w.t \in Sound /\ w.m \in {"json", "memory"} /\ phase \in Section
  BY <1>1, RunningFacts
<1>4. Answering(w.m, w.t, name) = {n}
  <2>1. Answering(w.m, w.t, name) = {x \in {n} : x # Root}
    <3> HIDE DEF name
    <3> QED  BY <1>3, FindsAnswering
  <2> HIDE DEF n
  <2> QED  BY <1>1, <1>2, <2>1
<1> HIDE DEF n
<1>5. Holding(w, todo, found)'
  BY <1>1, <1>2, <1>4 DEF Holding
<1>6. Current(w)
  BY DEF Running
<1>7. Current(w)'
  BY <1>1, <1>5, <1>6 DEF Current
<1> QED  BY <1>1, <1>3, <1>7 DEF GoesOn, Section

\* A lookup finds nothing.
LEMMA LookupMissReply ==
    ASSUME NEW w, Running(w), LookupMiss
    PROVE  GoesOn(w)
<1> DEFINE k == Head(todo)
           name == k.owner
           ours == w.m = "memory" /\ Lookup(w.t, name).authorative
<1>1. /\ todo # << >> /\ found = NoRef /\ k.do # "store"
      /\ k.do \in {"question", "cname", "server"}
      /\ Found(zones, name) = Root
      /\ UNCHANGED <<authZones, nsZones>>
  BY DEF LookupMiss, IsLookup, At
<1>2. /\ w.m = manager /\ w.t = zones /\ Found(zones, name) = Finds(w.m, w.t, name)
      /\ AuthorativeOfMiss(name) <=> ours
  BY DEF Running, Found, Finds, AuthorativeOfMiss
<1>3. name \in Seq(Label) /\ w.t \in Sound /\ w.m \in {"json", "memory"} /\ phase \in Section
  BY <1>1, RunningFacts
<1>4. Answering(w.m, w.t, name) = {}
  <2> DEFINE n == Finds(w.m, w.t, name)
  <2>1. Answering(w.m, w.t, name) = {x \in {n} : x # Root}
    <3> HIDE DEF name
    <3> QED  BY <1>3, FindsAnswering
  <2> HIDE DEF n
  <2> QED  BY <1>1, <1>2, <2>1 DEF n
<1>5. OursButUnknown(w.m, w.t, name) <=> ours
  <2> HIDE DEF name
  <2> QED  BY <1>3, <1>4, MissAuthority
<1>6. Planning(w, phase, k)
  BY <1>1, RunningFacts
<1> HIDE DEF ours
<1>7. CASE k.do = "question"
  <2>1. name = w.q.name
    BY <1>6, <1>7 DEF Planning
  <2>2. \/ AuthorativeOfMiss(name) /\ CreateErrorReply("NAME_ERROR")
        \/ ~AuthorativeOfMiss(name) /\ phase' = "silent"
    BY <1>7 DEF LookupMiss
  <2>3. CASE AuthorativeOfMiss(name) /\ CreateErrorReply("NAME_ERROR")
    <3>1. phase' = "send" /\ reply'.rcode = "NAME_ERROR"
      BY <2>3 DEF CreateErrorReply, Finish, EmptyReply
    <3>2. OursButUnknown(w.m, w.t, name)
      BY <1>2, <1>5, <2>3
    <3>3. Right(w, phase', reply')
      BY <1>4, <2>1, <3>1, <3>2 DEF Right
    <3> QED  BY <3>1, <3>3 DEF GoesOn, Section
  <2>4. CASE ~AuthorativeOfMiss(name) /\ phase' = "silent"
    <3>1. ~OursButUnknown(w.m, w.t, name)
      BY <1>2, <1>5, <2>4
    <3>2. Right(w, phase', reply')
      BY <1>4, <2>1, <2>4, <3>1 DEF Right
    <3> QED  BY <2>4, <3>2 DEF GoesOn, Section
  <2> QED  BY <2>2, <2>3, <2>4
<1>8. CASE k.do \in {"cname", "server"}
  <2> DEFINE have == Have(reply.records, nsZones, authZones)
  <2>1. todo' = Tail(todo) /\ UNCHANGED <<phase, found, reply>>
    BY <1>8 DEF LookupMiss, Skipped
  <2>2. Answerable(w) /\ have \cup Promised(w, phase, Range(todo)) = Goal(w, phase)
    BY <1>8 DEF Running, Current
  <2>3. Promise(w, phase, k) = {}
    BY <1>4, <1>8 DEF Promise
  <2>4. (have \cup Promise(w, phase, k)) \cup Promised(w, phase, Range(Tail(todo))) =
          have \cup Promised(w, phase, Range(todo))
    <3>1. todo \in Seq(Job)
      BY RunningFacts
    <3> HIDE DEF have
    <3> QED  BY <1>1, <3>1, Done
  <2>5. have \cup Promised(w, phase, Range(Tail(todo))) = Goal(w, phase)
    BY <2>2, <2>3, <2>4
  <2>6. /\ Held(w, authZones) /\ Held(w, nsZones)
        /\ \A j \in Range(Tail(todo)) : Planning(w, phase, j)
    BY <1>1, RunningFacts
  <2>7. Holding(w, Tail(todo), found)
    BY <1>1 DEF Holding
  <2> HIDE DEF k
  <2>8. Current(w)'
    BY <1>1, <2>1, <2>2, <2>5, <2>6, <2>7 DEF Current
  <2> QED  BY <1>3, <2>1, <2>8 DEF GoesOn, Section
<1> QED  BY <1>1, <1>7, <1>8

\* The addresses of the node that a cname leads to are planned.
LEMMA FollowCnameReply ==
    ASSUME NEW w, Running(w), FollowCname
    PROVE  GoesOn(w)
<1> DEFINE k == Head(todo)
           n == found.node
           new == CnameTasks(w.t, n, k.owner)
           have == Have(reply.records, nsZones, authZones)
<1>1. /\ phase \in Section /\ todo # << >> /\ k.do = "cname" /\ found # NoRef
      /\ todo' = CnameTasks(found.tree, n, k.owner) \o Tail(todo)
      /\ found' = NoRef
      /\ UNCHANGED <<phase, reply, authZones, nsZones>>
  BY DEF FollowCname, At
<1>2. /\ todo \in Seq(Job) /\ k.owner \in Seq(Label)
      /\ Held(w, authZones) /\ Held(w, nsZones) /\ Holding(w, todo, found)
      /\ Planning(w, phase, k)
      /\ \A j \in Range(todo) : Planning(w, phase, j)
  BY <1>1, RunningFacts
<1>3. /\ Answerable(w) /\ have \cup Promised(w, phase, Range(todo)) = Goal(w, phase)
  BY <1>1 DEF Running, Current
<1>4. found.tree = w.t /\ Answering(w.m, w.t, k.owner) = {n}
  BY <1>1, <1>2 DEF Holding
<1>5. phase = "answer"
  BY <1>1, <1>2 DEF Planning
<1>6. new \in Seq(Job) /\ (\A j \in Range(new) : j.do = "store")
  <2> HIDE DEF n, k
  <2> QED  BY <1>2, CnameTasksFacts, CnameTasksKinds
<1>7. Promise(w, phase, k) = {Recorded(r) : r \in AllAddresses(phase, k.owner, w.t.zone[n])}
  BY <1>1, <1>4 DEF Promise
<1>8. Promised(w, phase, Range(new)) = Promise(w, phase, k)
  <2> DEFINE name == k.owner
  <2>1. name \in Seq(Label)
    BY <1>2
  <2> HIDE DEF name, n
  <2>2. Promised(w, phase, Range(CnameTasks(w.t, n, name))) =
          Claims(w, AllAddresses(phase, name, w.t.zone[n]))
    BY <2>1, CnameTasksPromise
  <2>3. Claims(w, AllAddresses(phase, name, w.t.zone[n])) =
          {Recorded(r) : r \in AllAddresses(phase, name, w.t.zone[n])}
    BY AddressesPlain
  <2> QED  BY <1>7, <2>2, <2>3 DEF name
<1> HIDE DEF new, have, n
<1>9. have \cup Promised(w, phase, Range(new \o Tail(todo))) = Goal(w, phase)
  <2> HIDE DEF k
  <2> DEFINE nothing == {}
  <2>1. nothing \cup Promised(w, phase, Range(new)) = Promise(w, phase, Head(todo))
    BY <1>8 DEF k
  <2>2. todo \in Seq(Job) /\ todo # << >> /\ new \in Seq(Job)
    BY <1>1, <1>2, <1>6
  <2>3. (have \cup nothing) \cup Promised(w, phase, Range(new \o Tail(todo))) =
          have \cup Promised(w, phase, Range(todo))
    <3> HIDE DEF nothing
    <3> QED  BY <2>1, <2>2, Exchange
  <2> QED  BY <1>3, <2>3
<1>10. \A j \in Range(new \o Tail(todo)) : Planning(w, phase, j)
  <2>1. \A j \in Range(new) : Planning(w, phase, j)
    BY <1>5, <1>6 DEF Planning
  <2> HIDE DEF k
  <2> QED  BY <1>1, <1>2, <1>6, <2>1, StillPlanned
<1>11. todo' = new \o Tail(todo)
  BY <1>1, <1>4 DEF new
<1> HIDE DEF k
<1>12. Holding(w, todo', found')
  BY <1>1 DEF Holding
<1>13. Current(w)'
  BY <1>1, <1>2, <1>3, <1>9, <1>10, <1>11, <1>12 DEF Current, have
<1> QED  BY <1>1, <1>13 DEF GoesOn, Section

\* A server is noted for the last section.
LEMMA AddServerReply ==
    ASSUME NEW w, Running(w), AddServer
    PROVE  GoesOn(w)
<1> DEFINE k == Head(todo)
           n == found.node
           have == Have(reply.records, nsZones, authZones)
<1>1. /\ phase \in Section /\ todo # << >> /\ k.do = "server" /\ found # NoRef
      /\ todo' = Tail(todo)
      /\ nsZones' = AddZone(nsZones, found.tree, n)
      /\ found' = NoRef
      /\ UNCHANGED <<phase, reply, authZones>>
  BY DEF AddServer, At
<1>2. /\ todo \in Seq(Job) /\ k.owner \in Seq(Label) /\ nsZones \in Seq(Ref)
      /\ w.t \in Sound /\ w.m \in {"json", "memory"}
      /\ Held(w, authZones) /\ Held(w, nsZones) /\ Holding(w, todo, found)
      /\ \A j \in Range(Tail(todo)) : Planning(w, phase, j)
  BY <1>1, RunningFacts
<1>3. /\ Answerable(w) /\ have \cup Promised(w, phase, Range(todo)) = Goal(w, phase)
  BY <1>1 DEF Running, Current
<1>4. found.tree = w.t /\ Answering(w.m, w.t, k.owner) = {n}
  BY <1>1, <1>2 DEF Holding
<1>5. Has(w.t.zone, n) /\ n \in Name
  <2> DEFINE name == k.owner
  <2>1. name \in Seq(Label) /\ n \in Answering(w.m, w.t, name)
    BY <1>2, <1>4
  <2> HIDE DEF name, n
  <2>2. Answering(w.m, w.t, name) \subseteq {x \in Name : Has(w.t.zone, x)}
    BY <1>2, <2>1, FindsAnswering
  <2> QED  BY <2>1, <2>2
<1>6. Promise(w, phase, k) = {Served(n)}
  BY <1>1, <1>4 DEF Promise
<1>7. nsZones' = AddZone(nsZones, w.t, n)
  BY <1>1, <1>4
<1> HIDE DEF n
<1>8. NodesOf(nsZones') = NodesOf(nsZones) \cup {n}
  BY <1>2, <1>5, <1>7, AddZoneNodes
<1>9. Held(w, nsZones')
  BY <1>2, <1>5, <1>7, AddZoneNodes
<1>10. Have(reply.records, nsZones', authZones) = have \cup Promise(w, phase, k)
  <2>1. Have(reply.records, nsZones', authZones) = have \cup {Served(n)}
    <3>1. {Served(h) : h \in NodesOf(nsZones')} = {Served(h) : h \in NodesOf(nsZones)} \cup {Served(n)}
      BY <1>8
    <3> QED  BY <3>1 DEF Have
  <2> HIDE DEF have, k
  <2> QED  BY <1>6, <2>1
<1> HIDE DEF have
<1>11. Have(reply.records, nsZones', authZones) \cup Promised(w, phase, Range(Tail(todo))) =
         Goal(w, phase)
  <2>1. (have \cup Promise(w, phase, Head(todo))) \cup Promised(w, phase, Range(Tail(todo))) =
          have \cup Promised(w, phase, Range(todo))
    <3> HIDE DEF k
    <3> QED  BY <1>1, <1>2, Done
  <2> QED  BY <1>3, <1>10, <2>1
<1> HIDE DEF k
<1>12. Holding(w, todo', found')
  BY <1>1 DEF Holding
<1>13. Current(w)'
  BY <1>1, <1>2, <1>3, <1>9, <1>11, <1>12 DEF Current
<1> QED  BY <1>1, <1>13 DEF GoesOn, Section

\* What it says of a list of zones that a Soa was added, unless there is none.
OwningIf(soa) == {Owning(m) : m \in {m \in {soa} : m # Root}}

\* A zone more in the list of those whose name servers go second: what it claims.
LEMMA OwnedHave ==
    ASSUME NEW soa \in Name \cup {Root}, NEW auth \in Seq(Ref), NEW t \in Sound,
           NEW records, NEW ns
    PROVE  Have(records, ns, AddZone(auth, t, soa)) = Have(records, ns, auth) \cup OwningIf(soa)
<1> DEFINE new == AddZone(auth, t, soa)
<1>1. CASE soa = Root
  <2>1. new = auth /\ OwningIf(soa) = {}
    BY <1>1 DEF AddZone, OwningIf
  <2> HIDE DEF new
  <2> QED  BY <2>1 DEF new
<1>2. CASE soa # Root
  <2>1. soa \in Name
    BY <1>2
  <2>2. NodesOf(new) = NodesOf(auth) \cup {soa}
    BY <2>1, AddZoneNodes
  <2> HIDE DEF new
  <2>3. {Owning(m) : m \in NodesOf(new)} = {Owning(m) : m \in NodesOf(auth)} \cup {Owning(soa)}
    BY <2>2
  <2>4. OwningIf(soa) = {Owning(soa)}
    BY <1>2 DEF OwningIf
  <2>5. Have(records, ns, new) = Have(records, ns, auth) \cup {Owning(soa)}
    BY <2>3 DEF Have
  <2> QED  BY <2>4, <2>5 DEF new
<1> QED  BY <1>1, <1>2

\* Its node is in the zones.
LEMMA OwnedHeld ==
    ASSUME NEW soa \in Name \cup {Root}, NEW auth \in Seq(Ref), NEW t \in Sound, NEW w,
           w.t = t, Held(w, auth), soa # Root => Has(t.zone, soa)
    PROVE  Held(w, AddZone(auth, t, soa))
<1>1. CASE soa = Root
  BY <1>1 DEF AddZone
<1>2. CASE soa # Root
  BY <1>2, AddZoneNodes
<1> QED  BY <1>1, <1>2

\* The records of the node that was asked for are planned, if there are any.
LEMMA ProcessQuestionReply ==
    ASSUME NEW w, Running(w), ProcessQuestion
    PROVE  GoesOn(w)
<1> DEFINE k == Head(todo)
           n == found.node
           soa == GetSoaZone(w.t, n)
           new == QuestionTasks(w.t, n, k)
           have == Have(reply.records, nsZones, authZones)
<1>1. phase \in Section /\ todo # << >> /\ k.do = "question" /\ found # NoRef
  BY DEF ProcessQuestion, At
<1>2. /\ todo \in Seq(Job) /\ k.owner \in Seq(Label) /\ authZones \in Seq(Ref)
      /\ w.t \in Sound /\ w.m \in {"json", "memory"} /\ reply \in Reply /\ reply.rcode = "OK"
      /\ Held(w, authZones) /\ Held(w, nsZones) /\ Holding(w, todo, found)
      /\ Planning(w, phase, k)
      /\ \A j \in Range(todo) : Planning(w, phase, j)
  BY <1>1, RunningFacts
<1>3. /\ found.tree = w.t /\ Answering(w.m, w.t, w.q.name) = {n}
      /\ k.type = w.q.type /\ k.owner = w.q.name /\ phase = "answer"
  <2>1. k.type = w.q.type /\ k.owner = w.q.name /\ phase = "answer"
    BY <1>1, <1>2 DEF Planning
  <2>2. found.tree = w.t /\ Answering(w.m, w.t, k.owner) = {n}
    BY <1>1, <1>2 DEF Holding
  <2> QED  BY <2>1, <2>2
<1>4. NodeOf(w) = n
  <2> HIDE DEF n
  <2> QED  BY <1>3 DEF NodeOf
<1>5. Has(w.t.zone, n) /\ n \in Name
  <2> DEFINE name == k.owner
  <2>1. name \in Seq(Label) /\ n \in Answering(w.m, w.t, name)
    BY <1>2, <1>3
  <2> HIDE DEF name, n
  <2>2. Answering(w.m, w.t, name) \subseteq {x \in Name : Has(w.t.zone, x)}
    BY <1>2, <2>1, FindsAnswering
  <2> QED  BY <2>1, <2>2
<1>6. /\ TrueSoa(w.t.zone, n) = {m \in {soa} : m # Root}
      /\ soa \in Name \cup {Root}
      /\ soa # Root => Has(w.t.zone, soa)
  <2>1. Settled(w)
    BY DEF Running
  <2>2. w.t \in Sound /\ Intact(w.t)
    BY <2>1 DEF Settled
  <2>3. TrueSoa(w.t.zone, n) = SoaOf(w.t, n) /\ soa \in Name \cup {Root}
    <3> HIDE DEF n
    <3> QED  BY <1>5, <2>2, IntactSoa
  <2>4. \A m \in SoaOf(w.t, n) : Has(w.t.zone, m)
    <3> HIDE DEF n
    <3> QED  BY <1>5, <2>2, IntactSoa
  <2> QED  BY <2>3, <2>4 DEF SoaOf
<1>7. \/ Undefined
      \/ k.type = "SOA" /\ soa = Root /\ CreateErrorReply("SERVER_FAILURE")
      \/ /\ ~QuestionDangles(w.t, n, k)
         /\ k.type = "SOA" => soa # Root
         /\ todo' = new \o Tail(todo)
         /\ reply' = [reply EXCEPT !.authoritative = AuthorityAfter(w.t, n)]
         /\ authZones' = IF k.type \in {"SOA", "NS", "ALL"}
                         THEN AddZone(authZones, w.t, soa) ELSE authZones
         /\ found' = NoRef
         /\ UNCHANGED <<phase, nsZones>>
  <2> HIDE DEF k, new, soa, n
  <2> QED  BY <1>3 DEF ProcessQuestion, k, new, soa, n
<1>8. CASE Undefined
  BY <1>8 DEF Undefined, GoesOn, Section
<1>9. CASE k.type = "SOA" /\ soa = Root /\ CreateErrorReply("SERVER_FAILURE")
  <2>1. phase' = "send" /\ reply'.rcode = "SERVER_FAILURE"
    BY <1>9 DEF CreateErrorReply, Finish, EmptyReply
  <2>2. w.q.type = "SOA" /\ TrueSoa(w.t.zone, NodeOf(w)) = {}
    BY <1>3, <1>4, <1>6, <1>9
  <2>3. Answering(w.m, w.t, w.q.name) # {}
    BY <1>3
  <2>4. Right(w, phase', reply')
    BY <2>1, <2>2, <2>3 DEF Right
  <2> QED  BY <2>1, <2>4 DEF GoesOn, Section
<1>10. CASE /\ ~QuestionDangles(w.t, n, k)
            /\ k.type = "SOA" => soa # Root
            /\ todo' = new \o Tail(todo)
            /\ reply' = [reply EXCEPT !.authoritative = AuthorityAfter(w.t, n)]
            /\ authZones' = IF k.type \in {"SOA", "NS", "ALL"}
                            THEN AddZone(authZones, w.t, soa) ELSE authZones
            /\ found' = NoRef
            /\ UNCHANGED <<phase, nsZones>>
  <2> DEFINE gain == Soas(w)
  <2>1. Answerable(w)
    <3>1. soa # Root => TrueSoa(w.t.zone, NodeOf(w)) # {}
      BY <1>4, <1>6
    <3> QED  BY <1>3, <1>10, <3>1 DEF Answerable
  <2>2. have \cup Promised(w, phase, Range(todo)) = Goal(w, phase)
    BY <2>1 DEF Running, Current
  <2>3. /\ new \in Seq(Job) /\ (\A j \in Range(new) : j.do # "question")
        /\ Promised(w, "answer", Range(new)) = Claims(w, ExpectedAnswers(w.m, w.t, n, w.q))
    <3>1. Settled(w) /\ k \in Job
      BY <1>1, TodoFacts DEF Running
    <3>2. k.type = "SOA" => GetSoaZone(w.t, n) # Root
      BY <1>10
    <3> HIDE DEF n, k
    <3> QED  BY <1>3, <1>5, <3>1, <3>2, QuestionPromise
  <2>4. gain \cup Promised(w, phase, Range(new)) = Promise(w, phase, k)
    <3>1. Promise(w, phase, k) = AtAnswer(w)
      BY <1>1 DEF Promise
    <3>2. Promised(w, phase, Range(new)) = Claims(w, InAnswer(w))
      BY <1>3, <1>4, <2>3 DEF InAnswer
    <3> QED  BY <3>1, <3>2 DEF AtAnswer
  <2>5. reply'.rcode = "OK" /\ reply'.records = reply.records
    BY <1>2, <1>10 DEF Reply
  <2>6. Held(w, authZones') /\ Have(reply.records, nsZones, authZones') = have \cup gain
    <3>1. CASE w.q.type \in {"SOA", "NS", "ALL"}
      <4>1. authZones' = AddZone(authZones, w.t, soa)
        BY <1>3, <1>10, <3>1
      <4>2. gain = OwningIf(soa)
        BY <1>4, <1>6, <3>1 DEF Soas, When, OwningIf
      <4>3. /\ Held(w, AddZone(authZones, w.t, soa))
            /\ Have(reply.records, nsZones, AddZone(authZones, w.t, soa)) =
                 Have(reply.records, nsZones, authZones) \cup OwningIf(soa)
        <5> DEFINE records == reply.records
                   t == w.t
        <5>1. /\ soa \in Name \cup {Root} /\ authZones \in Seq(Ref) /\ t \in Sound
              /\ w.t = t /\ Held(w, authZones) /\ (soa # Root => Has(t.zone, soa))
          BY <1>2, <1>6
        <5> HIDE DEF soa, have, records, t
        <5>2. Held(w, AddZone(authZones, t, soa))
          BY <5>1, OwnedHeld
        <5>3. Have(records, nsZones, AddZone(authZones, t, soa)) =
                Have(records, nsZones, authZones) \cup OwningIf(soa)
          BY <1>2, <5>1, OwnedHave
        <5> QED  BY <5>2, <5>3 DEF records, t
      <4> QED  BY <4>1, <4>2, <4>3
    <3>2. CASE w.q.type \notin {"SOA", "NS", "ALL"}
      <4>1. authZones' = authZones
        BY <1>3, <1>10, <3>2
      <4>2. gain = {}
        BY <3>2 DEF Soas, When
      <4> QED  BY <1>2, <4>1, <4>2
    <3> QED  BY <3>1, <3>2
  <2> HIDE DEF gain, have, new
  <2>7. (have \cup gain) \cup Promised(w, phase, Range(new \o Tail(todo))) = Goal(w, phase)
    <3>1. (have \cup gain) \cup Promised(w, phase, Range(new \o Tail(todo))) =
            have \cup Promised(w, phase, Range(todo))
      <4>1. todo \in Seq(Job) /\ todo # << >> /\ new \in Seq(Job)
        BY <1>1, <1>2, <2>3
      <4>2. gain \cup Promised(w, phase, Range(new)) = Promise(w, phase, Head(todo))
        BY <2>4
      <4> HIDE DEF k
      <4> QED  BY <4>1, <4>2, Exchange
    <3> QED  BY <2>2, <3>1
  <2>8. \A j \in Range(new \o Tail(todo)) : Planning(w, phase, j)
    <3>1. \A j \in Range(new) : Planning(w, phase, j)
      BY <1>3, <2>3 DEF Planning
    <3>2. todo \in Seq(Job) /\ todo # << >> /\ new \in Seq(Job)
      BY <1>1, <1>2, <2>3
    <3> HIDE DEF k
    <3> QED  BY <1>2, <3>1, <3>2, StillPlanned
  <2>9. Holding(w, todo', found')
    BY <1>10 DEF Holding
  <2>10. Have(reply'.records, nsZones', authZones') \cup Promised(w, phase', Range(todo')) =
           Goal(w, phase')
    BY <1>10, <2>5, <2>6, <2>7
  <2>11. Current(w)'
    <3>1. Held(w, authZones') /\ Held(w, nsZones')
      BY <1>2, <1>10, <2>6
    <3>2. \A j \in Range(todo') : Planning(w, phase', j)
      BY <1>10, <2>8
    <3> QED  BY <2>1, <2>9, <2>10, <3>1, <3>2 DEF Current
  <2> QED  BY <1>1, <1>10, <2>11 DEF GoesOn, Section
<1> QED  BY <1>7, <1>8, <1>9, <1>10

\* A record is claimed, or a server that it names.
ClaimedBy(w, c, r) ==
    \/ c = Recorded(r)
    \/ r.type \in {"MX", "NS"} /\ \E h \in Answering(w.m, w.t, r.data) : c = Served(h)

\* What records claim, one by one.
LEMMA ClaimsEach ==
    ASSUME NEW w, NEW R
    PROVE  \A c : c \in Claims(w, R) <=> \E r \in R : ClaimedBy(w, c, r)
<1>1. \A h : h \in Hosted(w, R) <=>
               \E r \in R : r.type \in {"MX", "NS"} /\ h \in Answering(w.m, w.t, r.data)
  BY DEF Hosted
<1>2. \A c : c \in Claims(w, R) <=>
               (\E r \in R : c = Recorded(r)) \/ \E h \in Hosted(w, R) : c = Served(h)
  BY DEF Claims
<1> QED  BY <1>1, <1>2 DEF ClaimedBy

\* When a section is over, all that it should have is there.
LEMMA SectionOver ==
    ASSUME NEW w, Running(w), todo = << >>
    PROVE  /\ Answerable(w)
           /\ Have(reply.records, nsZones, authZones) = Goal(w, phase)
           /\ Holding(w, << >>, NoRef) /\ found = NoRef
<1>1. Answerable(w)
  BY DEF Running, Current
<1>2. Have(reply.records, nsZones, authZones) \cup Promised(w, phase, Range(todo)) = Goal(w, phase)
  BY <1>1 DEF Running, Current
<1>3. Promised(w, phase, Range(todo)) = {}
  <2>1. Range(todo) = {}
    BY DEF Range
  <2> QED  BY <2>1, PromisedUnion
<1>4. found = NoRef
  BY DEF Running, Current, Holding
<1> QED  BY <1>1, <1>2, <1>3, <1>4 DEF Holding

\* The next section begins with all that it should have planned.
LEMMA SectionBegins ==
    ASSUME NEW to \in {"authority", "additional"}, NEW w, Running(w), NEW from, NEW dangles,
           NEW tasks, NextSection(from, to, dangles, tasks),
           ~dangles => /\ \A k \in Range(tasks) : Planning(w, to, k)
                       /\ Goal(w, from) \cup Promised(w, to, Range(tasks)) = Goal(w, to)
    PROVE  GoesOn(w)
<1>1. phase = from /\ todo = << >>
  BY DEF NextSection
<1>2. CASE Undefined
  BY <1>2 DEF Undefined, GoesOn, Section
<1>3. CASE /\ ~dangles
           /\ phase' = to
           /\ todo' = tasks
           /\ UNCHANGED <<found, reply, authZones, nsZones, asked>>
  <2>1. /\ Answerable(w) /\ found = NoRef
        /\ Have(reply.records, nsZones, authZones) = Goal(w, from)
    BY <1>1, SectionOver
  <2>2. Held(w, authZones) /\ Held(w, nsZones)
    BY RunningFacts
  <2>3. Have(reply'.records, nsZones', authZones') \cup Promised(w, phase', Range(todo')) =
          Goal(w, phase')
    BY <1>3, <2>1
  <2>4. Held(w, authZones') /\ Held(w, nsZones')
    BY <1>3, <2>2
  <2>5. \A k \in Range(todo') : Planning(w, phase', k)
    BY <1>3
  <2>6. Holding(w, todo', found')
    BY <1>3, <2>1 DEF Holding
  <2>7. Current(w)'
    BY <2>1, <2>3, <2>4, <2>5, <2>6 DEF Current
  <2> QED  BY <1>3, <2>7 DEF GoesOn, Section
<1> QED  BY <1>2, <1>3 DEF NextSection

\* The name servers of the zones go second.
LEMMA BeginAuthorityReply ==
    ASSUME NEW w, Running(w), BeginAuthority
    PROVE  GoesOn(w)
<1> DEFINE auth == authZones
           N == Len(auth)
           dangles == \E i \in DOMAIN auth : AuthDangles(auth[i])
           parts == [i \in DOMAIN auth |-> AuthTasks(auth[i])]
           tasks == FlattenSeq(parts)
           M == When(w.q.type \in {"SOA", "NS", "ALL"}, TrueSoa(w.t.zone, NodeOf(w)))
           R(m) == HostRecords("authority", "NS", m, m, w.t.zone[m].ns)
<1>1. NextSection("answer", "authority", dangles, tasks)
  BY DEF BeginAuthority
<1>2. todo = << >> /\ phase = "answer" /\ Settled(w)
  BY <1>1 DEF NextSection, Running
<1>3. auth \in Seq(Ref) /\ N \in Nat /\ DOMAIN auth = 1..N /\ Held(w, auth)
  BY RunningFacts, LenProperties
<1>4. \A m : m \in M <=> m \in NodesOf(auth)
  <2>1. Have(reply.records, nsZones, auth) = AtAnswer(w)
    BY <1>2, SectionOver DEF Goal
  <2>2. \A m : Owning(m) \in Soas(w) <=> m \in M
    BY ClaimKinds DEF Soas
  <2>3. \A m : Owning(m) \in AtAnswer(w) <=> Owning(m) \in Soas(w)
    BY GoalClaims
  <2>4. \A m : Owning(m) \in Have(reply.records, nsZones, auth) <=> m \in NodesOf(auth)
    BY HaveClaims
  <2> HIDE DEF M, auth
  <2> QED  BY <2>1, <2>2, <2>3, <2>4
<1>5. \A i \in 1..N : /\ auth[i].tree = w.t /\ auth[i].node \in Name
                      /\ Has(w.t.zone, auth[i].node)
  BY <1>3 DEF Held, Range
<1>6. \A m : m \in M <=> \E i \in 1..N : m = auth[i].node
  BY <1>3, <1>4 DEF NodesOf, Range
<1>7. ASSUME NEW i \in 1..N
      PROVE  /\ AuthTasks(auth[i]) \in Seq(Job)
             /\ \A k \in Range(AuthTasks(auth[i])) : k.do \in {"store", "server"}
             /\ Promised(w, "authority", Range(AuthTasks(auth[i]))) = Claims(w, R(auth[i].node))
  <2> DEFINE r == auth[i]
             m == r.node
  <2>1. m \in Name /\ Has(w.t.zone, m) /\ r.tree = w.t /\ r.node = m
    BY <1>5
  <2> HIDE DEF r, m
  <2>2. /\ AuthTasks(r) \in Seq(Job)
        /\ \A k \in Range(AuthTasks(r)) : k.do \in {"store", "server"}
        /\ Promised(w, "authority", Range(AuthTasks(r))) =
             Claims(w, HostRecords("authority", "NS", m, m, w.t.zone[m].ns))
    BY <1>2, <2>1, AuthPromise
  <2> QED  BY <2>2 DEF r, m
<1>8. /\ parts \in Seq(Seq(Job)) /\ Len(parts) = N
      /\ \A i \in 1..N : parts[i] = AuthTasks(auth[i])
  BY <1>3, <1>7
<1> HIDE DEF dangles, parts, auth, N, M
<1>9. \A k \in Range(tasks) : Planning(w, "authority", k)
  <2>1. Range(tasks) = UNION {Range(parts[i]) : i \in 1..N}
    BY <1>8, RangeFlatten
  <2>2. \A k \in Range(tasks) : k.do \in {"store", "server"}
    BY <1>7, <1>8, <2>1
  <2> QED  BY <2>2 DEF Planning
<1> HIDE DEF R
<1>10. Promised(w, "authority", Range(tasks)) = Claims(w, InAuthority(w))
  <2>1. \A c : c \in Promised(w, "authority", Range(tasks)) <=>
                 \E i \in 1..N : c \in Promised(w, "authority", Range(parts[i]))
    BY <1>8, FlattenPromise
  <2>2. \A c : c \in Promised(w, "authority", Range(tasks)) <=>
                 \E m \in M : c \in Claims(w, R(m))
    <3> DEFINE P(i) == Promised(w, "authority", Range(parts[i]))
               C(m) == Claims(w, R(m))
               all == Promised(w, "authority", Range(tasks))
    <3>1. ASSUME NEW i \in 1..N PROVE P(i) = C(auth[i].node)
      BY <1>7, <1>8
    <3>2. \A c : c \in all <=> \E i \in 1..N : c \in P(i)
      BY <2>1
    <3> HIDE DEF P, C, all
    <3>3. \A c : c \in all <=> \E m \in M : c \in C(m)
      BY <1>6, <3>1, <3>2
    <3> QED  BY <3>3 DEF C, all
  <2>3. \A r : r \in InAuthority(w) <=> \E m \in M : r \in R(m)
    BY DEF InAuthority, ExpectedAuthority, When, M, R, HostRecords
  <2>4. \A c, m : c \in Claims(w, R(m)) <=> \E r \in R(m) : ClaimedBy(w, c, r)
    BY ClaimsEach
  <2>5. \A c : c \in Claims(w, InAuthority(w)) <=> \E r \in InAuthority(w) : ClaimedBy(w, c, r)
    BY ClaimsEach
  <2>6. \A c : c \in Promised(w, "authority", Range(tasks)) <=> c \in Claims(w, InAuthority(w))
    BY <2>2, <2>3, <2>4, <2>5
  <2> QED  BY <2>6
<1> HIDE DEF tasks
<1>11. Goal(w, "answer") \cup Promised(w, "authority", Range(tasks)) = Goal(w, "authority")
  BY <1>10 DEF Goal, AtAuthority
<1> QED  BY <1>1, <1>9, <1>11, SectionBegins

\* The addresses of the servers go last.
LEMMA BeginAdditionalReply ==
    ASSUME NEW w, Running(w), BeginAdditional
    PROVE  GoesOn(w)
<1> DEFINE ns == nsZones
           N == Len(ns)
           dangles == \E i \in DOMAIN ns : NsDangles(ns[i])
           parts == [i \in DOMAIN ns |-> NsTasks(ns[i])]
           tasks == FlattenSeq(parts)
           named == InAnswer(w) \cup InAuthority(w)
           H == Hosted(w, named)
           R(h) == AllAddresses("additional", h, w.t.zone[h])
<1>1. NextSection("authority", "additional", dangles, tasks)
  BY DEF BeginAdditional
<1>2. todo = << >> /\ phase = "authority" /\ Settled(w)
  BY <1>1 DEF NextSection, Running
<1>3. ns \in Seq(Ref) /\ N \in Nat /\ DOMAIN ns = 1..N /\ Held(w, ns)
  BY RunningFacts, LenProperties
<1>4. \A h : h \in H <=> h \in NodesOf(ns)
  <2>1. Have(reply.records, ns, authZones) = AtAuthority(w)
    BY <1>2, SectionOver DEF Goal
  <2>2. \A h : Served(h) \in AtAuthority(w) <=> h \in H
    BY GoalClaims
  <2>3. \A h : Served(h) \in Have(reply.records, ns, authZones) <=> h \in NodesOf(ns)
    BY HaveClaims
  <2> HIDE DEF H, ns
  <2> QED  BY <2>1, <2>2, <2>3
<1>5. \A i \in 1..N : /\ ns[i].tree = w.t /\ ns[i].node \in Name
                      /\ Has(w.t.zone, ns[i].node)
  BY <1>3 DEF Held, Range
<1>6. \A h : h \in H <=> \E i \in 1..N : h = ns[i].node
  <2> HIDE DEF H
  <2> QED  BY <1>3, <1>4 DEF NodesOf, Range
<1>7. ASSUME NEW i \in 1..N
      PROVE  /\ NsTasks(ns[i]) \in Seq(Job)
             /\ \A k \in Range(NsTasks(ns[i])) : k.do = "store"
             /\ Promised(w, "additional", Range(NsTasks(ns[i]))) =
                  {Recorded(x) : x \in R(ns[i].node)}
  <2> DEFINE r == ns[i]
             h == r.node
  <2>1. h \in Name /\ Has(w.t.zone, h) /\ r.tree = w.t /\ r.node = h
    BY <1>5
  <2> HIDE DEF r, h
  <2>2. /\ NsTasks(r) \in Seq(Job)
        /\ \A k \in Range(NsTasks(r)) : k.do = "store"
        /\ Promised(w, "additional", Range(NsTasks(r))) =
             {Recorded(x) : x \in AllAddresses("additional", h, w.t.zone[h])}
    BY <1>2, <2>1, NsPromise
  <2> QED  BY <2>2 DEF r, h
<1>8. /\ parts \in Seq(Seq(Job)) /\ Len(parts) = N
      /\ \A i \in 1..N : parts[i] = NsTasks(ns[i])
  BY <1>3, <1>7
<1> HIDE DEF dangles, parts, ns, N, H
<1>9. \A k \in Range(tasks) : Planning(w, "additional", k)
  <2>1. Range(tasks) = UNION {Range(parts[i]) : i \in 1..N}
    BY <1>8, RangeFlatten
  <2>2. \A k \in Range(tasks) : k.do = "store"
    BY <1>7, <1>8, <2>1
  <2> QED  BY <2>2 DEF Planning
<1> HIDE DEF R
<1>10. Promised(w, "additional", Range(tasks)) = {Recorded(r) : r \in InAdditional(w)}
  <2>1. \A c : c \in Promised(w, "additional", Range(tasks)) <=>
                 \E i \in 1..N : c \in Promised(w, "additional", Range(parts[i]))
    BY <1>8, FlattenPromise
  <2>2. \A c : c \in Promised(w, "additional", Range(tasks)) <=>
                 \E h \in H : \E x \in R(h) : c = Recorded(x)
    <3> DEFINE P(i) == Promised(w, "additional", Range(parts[i]))
               all == Promised(w, "additional", Range(tasks))
    <3>1. ASSUME NEW i \in 1..N PROVE P(i) = {Recorded(x) : x \in R(ns[i].node)}
      BY <1>7, <1>8
    <3>2. \A c : c \in all <=> \E i \in 1..N : c \in P(i)
      BY <2>1
    <3> HIDE DEF P, all
    <3>3. \A c : c \in all <=> \E h \in H : \E x \in R(h) : c = Recorded(x)
      BY <1>6, <3>1, <3>2
    <3> QED  BY <3>3 DEF all
  <2>3. \A r : r \in InAdditional(w) <=> \E h \in H : r \in R(h)
    BY DEF InAdditional, ExpectedAdditional, H, Hosted, R
  <2>4. \A c : c \in Promised(w, "additional", Range(tasks)) <=>
                 c \in {Recorded(r) : r \in InAdditional(w)}
    BY <2>2, <2>3
  <2> QED  BY <2>4
<1> HIDE DEF tasks
<1>11. Goal(w, "authority") \cup Promised(w, "additional", Range(tasks)) = Goal(w, "additional")
  BY <1>10 DEF Goal
<1> QED  BY <1>1, <1>9, <1>11, SectionBegins

\* All is written: the reply goes out with all that it should have.
LEMMA EndReplyReply ==
    ASSUME NEW w, Running(w), EndReply
    PROVE  GoesOn(w)
<1>1. todo = << >> /\ phase = "additional" /\ phase' = "send" /\ reply' = reply
  BY DEF EndReply
<1>2. Answerable(w) /\ Have(reply.records, nsZones, authZones) = Goal(w, "additional")
  BY <1>1, SectionOver
<1>3. reply.rcode = "OK"
  BY RunningFacts
<1> DEFINE none == {}
<1>4. Promised(w, "additional", none) = {}
  BY PromisedUnion
<1>5. Have(reply.records, nsZones, authZones) \cup Promised(w, "additional", none) =
        Goal(w, "additional")
  BY <1>2, <1>4
<1>6. "additional" \in Section /\ none = {}
  BY DEF Section
<1> HIDE DEF none
<1>7. Right(w, "send", reply)
  BY <1>2, <1>3, <1>5, <1>6, RightAnswer
<1> QED  BY <1>1, <1>7 DEF GoesOn, Section

\* A lookup whose node is gone: nothing is said about what follows.
LEMMA LookupRacedReply ==
    ASSUME NEW w, LookupRaced
    PROVE  GoesOn(w)
BY DEF LookupRaced, Undefined, GoesOn, Section

\* Every step of a query that is being answered.
LEMMA ProcessReply ==
    ASSUME NEW w, Running(w),
           \/ Store \/ LookupSearch \/ LookupMiss \/ LookupRaced
           \/ ProcessQuestion \/ FollowCname \/ AddServer
           \/ BeginAuthority \/ BeginAdditional \/ EndReply
    PROVE  GoesOn(w)
<1>1. CASE Store
  BY <1>1, StoreReply
<1>2. CASE LookupSearch
  BY <1>2, LookupSearchReply
<1>3. CASE LookupMiss
  BY <1>3, LookupMissReply
<1>4. CASE LookupRaced
  BY <1>4, LookupRacedReply
<1>5. CASE ProcessQuestion
  BY <1>5, ProcessQuestionReply
<1>6. CASE FollowCname
  BY <1>6, FollowCnameReply
<1>7. CASE AddServer
  BY <1>7, AddServerReply
<1>8. CASE BeginAuthority
  BY <1>8, BeginAuthorityReply
<1>9. CASE BeginAdditional
  BY <1>9, BeginAdditionalReply
<1>10. CASE EndReply
  BY <1>10, EndReplyReply
<1> QED  BY <1>1, <1>2, <1>3, <1>4, <1>5, <1>6, <1>7, <1>8, <1>9, <1>10

\* A well-formed query arrives: all that it should have is planned.
LEMMA ReceiveReply ==
    ASSUME NEW q \in Query, NEW w, Receive(q), q.header = "query", q.count > 0,
           FirstPass(q) = "OK", w.q = q.questions[1]
    PROVE  GoesOn(w)
<1> DEFINE N == q.count
           k == Look("question", w.q.type, w.q.name)
<1>1. /\ phase' = "answer" /\ authZones' = << >> /\ nsZones' = << >> /\ found' = NoRef
      /\ reply'.records = << >>
      /\ todo' = [i \in 1..N |-> Look("question", Parsed(q)[i].type, Parsed(q)[i].name)]
  BY DEF Receive, EmptyReply
<1>2. N \in Nat /\ 1 \in 1..N
  BY FirstPassFacts
<1>3. todo' = [i \in 1..N |-> k]
  BY <1>1 DEF Parsed
<1>4. k.do = "question" /\ k.type = w.q.type /\ k.owner = w.q.name
  BY DEF Look
<1> HIDE DEF k, N
<1>5. Range(todo') = {k} /\ todo' # << >> /\ Head(todo') = k
  BY <1>2, <1>3 DEF Range
<1>6. Held(w, authZones') /\ Held(w, nsZones') /\ Holding(w, todo', found')
  BY <1>1 DEF Held, Holding, Range
<1>7. \A j \in Range(todo') : Planning(w, phase', j)
  BY <1>1, <1>4, <1>5 DEF Planning
<1>8. Have(reply'.records, nsZones', authZones') \cup Promised(w, phase', Range(todo')) =
        Goal(w, phase')
  <2>1. Have(reply'.records, nsZones', authZones') = {}
    BY <1>1 DEF Have, InReply, NodesOf, Range
  <2>2. Promised(w, "answer", {k}) = AtAnswer(w)
    BY <1>4, PromiseAlone DEF Promise
  <2> QED  BY <1>1, <1>5, <2>1, <2>2 DEF Goal
<1>9. Current(w)'
  BY <1>1, <1>4, <1>5, <1>6, <1>7, <1>8 DEF Current
<1> QED  BY <1>1, <1>9 DEF GoesOn, Section

\* The context is what it was, or what arrived.
LEMMA ContextFacts ==
    ASSUME TypeInv, Live
    PROVE  Settled(Context)
<1>1. /\ query \in QueryType /\ query.header = "query" /\ query.count \in Nat /\ query.count # 0
      /\ query.questions \in Seq(Question) /\ FirstPass(query) = "OK"
  BY DEF TypeInv, Live, QueryType
<1>2. query.questions # << >>
  BY <1>1 DEF FirstPass
<1>3. query.questions[1] \in Question
  <2>1. Len(query.questions) \in Nat \ {0}
    BY <1>1, <1>2, EmptySeq, LenProperties
  <2> QED  BY <1>1, <2>1, ElementOfSeq
<1> QED  BY <1>3 DEF Settled, Context, TypeInv, Live

\* A step of a query that nobody disturbs.
LEMMA UndisturbedStep ==
    ASSUME TypeInv, WireInv, ReplyInv, Live', phase \in Section,
           UNCHANGED <<manager, zones, query, disturbed>>,
           \/ Store \/ LookupSearch \/ LookupMiss \/ LookupRaced
           \/ ProcessQuestion \/ FollowCname \/ AddServer
           \/ BeginAuthority \/ BeginAdditional \/ EndReply
    PROVE  ReplyInv'
<1>1. Live
  BY DEF Live
<1>2. PICK w : w = Context
  OBVIOUS
<1>3. Running(w)
  <2>1. Settled(w) /\ Current(w)
    BY <1>1, <1>2, ContextFacts DEF ReplyInv
  <2>2. w.m = manager /\ w.t = zones
    BY <1>2 DEF Context
  <2> QED  BY <2>1, <2>2 DEF Running
<1>4. GoesOn(w)
  BY <1>3, ProcessReply
<1>5. w = Context'
  BY <1>2 DEF Context
<1> QED  BY <1>4, <1>5 DEF GoesOn, ReplyInv

\* Every step keeps the invariant.
LEMMA NextReply ==
    ASSUME TypeInv, WireInv, ReplyInv, [Next]_vars
    PROVE  ReplyInv'
<1> SUFFICES ASSUME Live' PROVE ReplyInv'
  BY DEF ReplyInv
<1>1. CASE UNCHANGED vars
  <2>1. Context' = Context /\ phase' = phase /\ reply' = reply
    BY <1>1 DEF vars, Context
  <2>2. Live
    BY <1>1 DEF vars, Live
  <2> QED  BY <1>1, <2>1, <2>2 DEF vars, ReplyInv, Current
<1>2. ASSUME NEW q \in Query, Receive(q) PROVE ReplyInv'
  <2>1. PICK w : w = Context'
    OBVIOUS
  <2>2. query' = q /\ w.q = q.questions[1]
    BY <1>2, <2>1 DEF Receive, Context
  <2>3. q.header = "query" /\ q.count > 0 /\ FirstPass(q) = "OK"
    BY <2>2 DEF Live
  <2>4. GoesOn(w)
    BY <1>2, <2>2, <2>3, ReceiveReply
  <2> QED  BY <2>1, <2>4 DEF GoesOn, ReplyInv
<1>3. CASE \/ Store \/ LookupSearch \/ LookupMiss \/ LookupRaced
           \/ ProcessQuestion \/ FollowCname \/ AddServer
           \/ BeginAuthority \/ BeginAdditional \/ EndReply
  <2>1. phase \in Section /\ UNCHANGED <<manager, zones, query, disturbed>>
    BY <1>3 DEF Store, LookupSearch, LookupMiss, LookupRaced, IsLookup, ProcessQuestion,
                FollowCname, AddServer, At, BeginAuthority, BeginAdditional, NextSection,
                EndReply, Section
  <2> QED  BY <1>3, <2>1, UndisturbedStep
<1>4. ASSUME NEW next, NEW state, Over(next, state) PROVE ReplyInv'
  BY <1>4 DEF Over, NoQuery, Live
<1>5. CASE Sent
  BY <1>4, <1>5 DEF Sent
<1>6. CASE EndpointFails
  <2>1. CASE phase' = "ended"
    BY <2>1 DEF ReplyInv, Section
  <2> QED  BY <1>4, <1>6, <2>1 DEF EndpointFails
<1>7. CASE Housekeeping
  <2>1. Context' = Context /\ phase' = phase /\ reply' = reply /\ phase \notin Section
    BY <1>7 DEF Housekeeping, Context, Section
  <2>2. Live
    BY <1>7 DEF Housekeeping, Live
  <2> QED  BY <2>1, <2>2 DEF ReplyInv
<1>8. ASSUME NEW e \in Edit, Commit(e) PROVE ReplyInv'
  BY <1>8 DEF Commit, Live
<1>9. CASE Stopped
  BY <1>1, <1>9 DEF Stopped
<1> QED  BY <1>1, <1>2, <1>3, <1>5, <1>6, <1>7, <1>8, <1>9 DEF Next, Process

\* A well-formed query that no commit disturbs gets exactly what the zones hold, for
\* every zone file, every set of changes and queries and both zone managers
\* (ProcesssQuerey to ProcessNsZone, against a definition without steps).
THEOREM UndisturbedReplyIsRight == Spec => []UndisturbedReply
<1>1. Init => ReplyInv
  BY DEF Init, NoQuery, ReplyInv, Live
<1>2. IInv /\ ReplyInv /\ [Next]_vars => ReplyInv'
  BY NextReply DEF IInv
<1>3. ReplyInv => UndisturbedReply
  BY ReplyInvImplies
<1> QED  BY <1>1, <1>2, <1>3, DaemonInvariance, PTL DEF Spec
=============================================================================
