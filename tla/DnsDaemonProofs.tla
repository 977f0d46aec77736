-------------------------- MODULE DnsDaemonProofs ---------------------------
(***************************************************************************)
(* Proofs about DnsDaemon, for all zones, queries, edits and bounds: the   *)
(* types, and that the reply is sound, its authority earned, its addresses *)
(* asked for, and every datagram counted.                                  *)
(***************************************************************************)
EXTENDS DnsDaemon, ZoneTreeProofs, FiniteSetTheorems

-----------------------------------------------------------------------------
(* Lookup.                                                                 *)

LookupState == [node : Name \cup {Root}, authorative : BOOLEAN, stop : BOOLEAN]

\* One level of ZoneMgrMemory's Lookup leads from a node to a node.
LEMMA LookupStepType ==
    ASSUME NEW t \in Sound, NEW s \in LookupState, NEW host
    PROVE  LookupStep(t, s, host) \in LookupState
<1> DEFINE full == Append(s.node, host)
           wild == Append(s.node, Wildcard)
           next == IF full \in Range(t.children[s.node]) THEN full ELSE wild
<1>1. s.node \in Name \cup {Root} /\ t \in Tree /\ WellFormed(t)
  BY DEF LookupState, Sound
<1>2. next \in Range(t.children[s.node]) => next \in Name /\ t.zone[next] \in ZoneData
  <2>1. Range(t.children[s.node]) = {n \in Name : Has(t.zone, n) /\ Parent(n) = s.node}
    BY <1>1 DEF WellFormed
  <2> HIDE DEF next
  <2> QED  BY <1>1, <2>1, TreeParts DEF Has
<1>3. next \in Range(t.children[s.node]) => t.zone[next].authorative \in BOOLEAN
  BY <1>2 DEF ZoneData
<1>4. LookupStep(t, s, host) =
        IF s.stop \/ next \notin Range(t.children[s.node]) THEN [s EXCEPT !.stop = TRUE]
        ELSE [node |-> next, authorative |-> t.zone[next].authorative, stop |-> FALSE]
  BY DEF LookupStep
<1> HIDE DEF next
<1>5. CASE s.stop \/ next \notin Range(t.children[s.node])
  <2>1. LookupStep(t, s, host) = [s EXCEPT !.stop = TRUE]
    BY <1>4, <1>5
  <2> QED  BY <2>1 DEF LookupState
<1>6. CASE ~(s.stop \/ next \notin Range(t.children[s.node]))
  <2>1. LookupStep(t, s, host) =
          [node |-> next, authorative |-> t.zone[next].authorative, stop |-> FALSE]
    BY <1>4, <1>6
  <2> QED  BY <1>2, <1>3, <1>6, <2>1 DEF LookupState
<1> QED  BY <1>5, <1>6

\* What Lookup does with the labels of a key, one after the other.
LookupRun(at, t, key) ==
    /\ \A i \in 0..Len(key) : at[i] \in LookupState
    /\ at[0] = [node |-> Root, authorative |-> FALSE, stop |-> FALSE]
    /\ \A i \in 1..Len(key) : at[i] = LookupStep(t, at[i - 1], key[i])

\* Lookup runs through the key.
LEMMA LookupRuns ==
    ASSUME NEW t \in Sound, NEW key \in Seq(Label)
    PROVE  \E at : /\ LookupRun(at, t, key)
                   /\ Lookup(t, key).authorative = at[Len(key)].authorative
                   /\ Lookup(t, key).node = IF at[Len(key)].stop THEN Root
                                            ELSE at[Len(key)].node
<1> DEFINE N == Len(key)
           start == [node |-> Root, authorative |-> FALSE, stop |-> FALSE]
           Def(f) == [i \in 0..N |-> IF i = 0 THEN start ELSE LookupStep(t, f[i - 1], key[i])]
           at == CHOOSE f : f = Def(f)
           r == [dom |-> 0..N, start |-> {0}, type |-> LookupState,
                 rank |-> [i \in 0..N |-> i], prev |-> [i \in 0..N |-> i - 1],
                 first |-> [i \in {0} |-> start],
                 next |-> [x \in ((0..N) \ {0}) \X LookupState |->
                             LookupStep(t, x[2], key[x[1]])]]
<1>1. N \in Nat
  BY LenProperties
<1>2. start \in LookupState
  BY DEF LookupState
<1>3. IsRecursion(r)
  <2>1. r.rank \in [r.dom -> Nat] /\ r.start \subseteq r.dom
    BY <1>1
  <2>2. \A n \in r.dom \ r.start : r.prev[n] \in r.dom /\ r.rank[r.prev[n]] < r.rank[n]
    BY <1>1
  <2>3. r.type # {} /\ r.first \in [r.start -> r.type]
    BY <1>2
  <2>4. r.next \in [(r.dom \ r.start) \X r.type -> r.type]
    BY LookupStepType
  <2> HIDE DEF r
  <2> QED  BY <2>1, <2>2, <2>3, <2>4 DEF IsRecursion
<1>4. \E f : f = Def(f)
  <2>1. PICK f \in [0..N -> LookupState] : \A n \in 0..N : Obeys(f, n, r)
    <3>1. r.dom = 0..N /\ r.type = LookupState
      OBVIOUS
    <3> HIDE DEF r
    <3> QED  BY <1>3, <3>1, RecursionExists
  <2>2. \A n \in 0..N : f[n] = IF n = 0 THEN start ELSE LookupStep(t, f[n - 1], key[n])
    <3> TAKE n \in 0..N
    <3>1. CASE n = 0
      BY <2>1, <3>1 DEF Obeys
    <3>2. CASE n # 0
      <4>1. n - 1 \in 0..N /\ f[n - 1] \in LookupState
        BY <1>1, <3>2
      <4> QED  BY <2>1, <3>2, <4>1 DEF Obeys
    <3> QED  BY <3>1, <3>2
  <2>3. f = Def(f)
    BY <2>2
  <2> HIDE DEF Def
  <2> QED  BY <2>3
<1>5. at = Def(at)
  <2> HIDE DEF Def
  <2> QED  BY <1>4
<1>6. /\ Lookup(t, key).node = IF at[N].stop THEN Root ELSE at[N].node
      /\ Lookup(t, key).authorative = at[N].authorative
  BY DEF Lookup
<1> HIDE DEF at
<1>7. \A n \in 0..N : at[n] = IF n = 0 THEN start ELSE LookupStep(t, at[n - 1], key[n])
  BY <1>5
<1>8. \A n \in 0..N : at[n] \in LookupState
  <2>1. \A n \in r.dom : n \in r.start => at[n] = r.first[n]
    BY <1>7
  <2>2. \A n \in r.dom \ r.start :
            at[r.prev[n]] \in r.type => at[n] = r.next[<<n, at[r.prev[n]]>>]
    BY <1>1, <1>7
  <2>3. r.dom = 0..N /\ r.type = LookupState
    OBVIOUS
  <2> HIDE DEF r
  <2> QED  BY <1>3, <2>1, <2>2, <2>3, RecursionTyped
<1>9. at[0] = start
  <2>1. 0 \in 0..N
    BY <1>1
  <2>2. at[0] = IF 0 = 0 THEN start ELSE LookupStep(t, at[0 - 1], key[0])
    <3> HIDE DEF start, N
    <3> QED  BY <1>7, <2>1
  <2> QED  BY <2>2
<1>10. \A i \in 1..N : at[i] = LookupStep(t, at[i - 1], key[i])
  <2>1. \A i \in 1..N : i \in 0..N /\ i # 0
    BY <1>1
  <2> QED  BY <1>7, <2>1
<1>11. LookupRun(at, t, key)
  BY <1>8, <1>9, <1>10 DEF LookupRun
<1> QED  BY <1>6, <1>11

\* ZoneMgrMemory's Lookup returns a node of the tree or none.
LEMMA LookupType ==
    ASSUME NEW t \in Sound, NEW key \in Seq(Label)
    PROVE  Lookup(t, key).node \in Name \cup {Root}
<1>1. PICK at : /\ LookupRun(at, t, key)
                /\ Lookup(t, key).node = IF at[Len(key)].stop THEN Root ELSE at[Len(key)].node
  BY LookupRuns
<1>2. Len(key) \in 0..Len(key)
  BY LenProperties
<1> QED  BY <1>1, <1>2 DEF LookupRun, LookupState

-----------------------------------------------------------------------------
(* The parent pointers.                                                    *)

\* The climb to a Soa goes from pointer to pointer.
LEMMA GetSoaZoneRuns ==
    ASSUME NEW t \in Sound
    PROVE  /\ GetSoaZone(t, Root) = Root
           /\ \A n \in Name : /\ GetSoaZone(t, n) \in Name \cup {Root, Dangling}
                             /\ GetSoaZone(t, n) = IF t.zone[n].soa # NoSoa THEN n
                                                   ELSE GetSoaZone(t, t.parent[n])
<1> DEFINE D == Name \cup {Root, Dangling}
           Top == {n \in D : n \in {Root, Dangling} \/ t.zone[n].soa # NoSoa}
           Def(f) == [n \in D |-> IF n \in {Root, Dangling} THEN n
                                  ELSE IF t.zone[n].soa # NoSoa THEN n
                                  ELSE f[t.parent[n]]]
           up == CHOOSE f : f = Def(f)
           r == [dom |-> D, start |-> Top, type |-> D,
                 rank |-> [n \in D |-> IF n \in Name THEN Len(n) ELSE 0],
                 prev |-> [n \in D |-> t.parent[n]],
                 first |-> [n \in Top |-> n],
                 next |-> [x \in (D \ Top) \X D |-> x[2]]]
<1>1. \A n \in Name : /\ Len(n) \in Nat \ {0} /\ t.parent[n] \in D
                      /\ t.parent[n] \in Name => Len(t.parent[n]) < Len(n)
  <2> TAKE n \in Name
  <2>1. Len(n) \in Nat \ {0} /\ t.parent[n] \in D
    BY NameFacts, TreeParts DEF Sound
  <2>2. t.parent[n] \in Name => Len(t.parent[n]) = Len(n) - 1
    BY DEF Sound, PointersUp
  <2> QED  BY <2>1, <2>2
<1>2. \A n \in D : n \notin Name => n \in Top
  OBVIOUS
<1>3. IsRecursion(r)
  <2>1. r.rank \in [r.dom -> Nat] /\ r.start \subseteq r.dom
    BY <1>1
  <2>2. \A n \in r.dom \ r.start : r.prev[n] \in r.dom /\ r.rank[r.prev[n]] < r.rank[n]
    BY <1>1, <1>2
  <2>3. r.type # {} /\ r.first \in [r.start -> r.type]
    OBVIOUS
  <2>4. r.next \in [(r.dom \ r.start) \X r.type -> r.type]
    OBVIOUS
  <2> HIDE DEF r
  <2> QED  BY <2>1, <2>2, <2>3, <2>4 DEF IsRecursion
<1>4. \E f : f = Def(f)
  <2>1. PICK f \in [D -> D] : \A n \in D : Obeys(f, n, r)
    <3>1. r.dom = D /\ r.type = D
      OBVIOUS
    <3> HIDE DEF r
    <3> QED  BY <1>3, <3>1, RecursionExists
  <2>2. \A n \in D : f[n] = IF n \in Top THEN n ELSE f[t.parent[n]]
    <3> TAKE n \in D
    <3>1. CASE n \in Top
      BY <2>1, <3>1 DEF Obeys
    <3>2. CASE n \notin Top
      <4>1. t.parent[n] \in D /\ f[t.parent[n]] \in D
        BY <1>1, <1>2, <3>2
      <4> QED  BY <2>1, <3>2, <4>1 DEF Obeys
    <3> QED  BY <3>1, <3>2
  <2>3. f = Def(f)
    BY <2>2
  <2> HIDE DEF Def
  <2> QED  BY <2>3
<1>5. up = Def(up)
  <2> HIDE DEF Def
  <2> QED  BY <1>4
<1>6. \A n \in D : GetSoaZone(t, n) = up[n]
  BY DEF GetSoaZone
<1> HIDE DEF up
<1>7. \A n \in D : up[n] = IF n \in Top THEN n ELSE up[t.parent[n]]
  BY <1>5
<1>8. \A n \in D : up[n] \in D
  <2>1. \A n \in r.dom : n \in r.start => up[n] = r.first[n]
    BY <1>7
  <2>2. \A n \in r.dom \ r.start :
            up[r.prev[n]] \in r.type => up[n] = r.next[<<n, up[r.prev[n]]>>]
    BY <1>7
  <2>3. r.dom = D /\ r.type = D
    OBVIOUS
  <2> HIDE DEF r
  <2> QED  BY <1>3, <2>1, <2>2, <2>3, RecursionTyped
<1>9. Root \notin Name /\ Dangling \notin Name
  BY NameAssumption, MarkAssumption
<1>10. GetSoaZone(t, Root) = Root
  BY <1>6, <1>7
<1> SUFFICES ASSUME NEW n \in Name
             PROVE  /\ GetSoaZone(t, n) \in D
                    /\ GetSoaZone(t, n) = IF t.zone[n].soa # NoSoa THEN n
                                          ELSE GetSoaZone(t, t.parent[n])
  BY <1>10
<1>11. t.parent[n] \in D /\ n \notin {Root, Dangling}
  BY <1>1, <1>9
<1>12. up[n] = IF t.zone[n].soa # NoSoa THEN n ELSE up[t.parent[n]]
  BY <1>7, <1>11
<1> QED  BY <1>6, <1>8, <1>11, <1>12

\* The climb to a Soa ends at a node, at the top or astray.
LEMMA GetSoaZoneType ==
    ASSUME NEW t \in Sound, NEW node \in Name
    PROVE  GetSoaZone(t, node) \in Name \cup {Root, Dangling}
BY GetSoaZoneRuns

\* The zones that are committed are a tree whose pointers lead up.
LEMMA ChangedIsSound ==
    ASSUME zones \in Sound, NEW e \in Edit,
           e.kind = "create" <=> ~Has(zones.zone, e.name),
           IF e.kind = "delete" THEN Parent(e.name) # Root ELSE Exclusive(e.zone),
           Authorities(Edited(e).zone, e.name) # {}
    PROVE  Changed(e) \in Sound
<1> DEFINE c == CopyZones(zones)
           n == e.name
           z == e.zone
<1>1. /\ e.kind \in {"create", "update", "delete"} /\ n \in Name /\ z \in ZoneData
      /\ zones \in Tree /\ WellFormed(zones)
  BY EditAssumption DEF Sound
<1>2. CASE e.kind = "create"
  <2>1. Edited(e) = Insert(c, n, z) /\ Changed(e) = WithSerial(Insert(c, n, z), n)
    BY <1>2 DEF Edited, Changed
  <2> QED  BY <1>1, <1>2, <2>1, InsertIsSound
<1>3. CASE e.kind = "update"
  <2>1. Edited(e) = Assign(c, n, z) /\ Changed(e) = WithSerial(Assign(c, n, z), n)
    BY <1>3 DEF Edited, Changed
  <2> QED  BY <1>1, <1>3, <2>1, AssignIsSound
<1>4. CASE e.kind = "delete"
  <2>1. Edited(e) = c /\ Changed(e) = Erase(WithSerial(c, n), n) /\ Has(zones.zone, n)
    BY <1>1, <1>4 DEF Edited, Changed
  <2>2. c.zone = zones.zone
    BY <1>1, CopyType
  <2> QED  BY <1>1, <1>4, <2>1, <2>2, EraseIsSound
<1> QED  BY <1>1, <1>2, <1>3, <1>4

-----------------------------------------------------------------------------
(* Tasks.                                                                  *)

\* Only records of the types that Store knows are written.
Job == {k \in Task : k.do = "store" => k.type \in RType}

\* The task k writes an alias for `name'.
IsAlias(k, name) == k.do = "store" /\ k.type = "CNAME" /\ k.data = name

\* The task k leads to addresses, which need a question or an alias to be there for.
NeedsReason(k) ==
    \/ k.do \in {"question", "cname"}
    \/ k.do = "store" /\ k.type \in {"A", "AAAA"}

\* The tasks of a list are reasonable for somebody who asked for `name'.
ReasonableFor(tasks, name) ==
    \A j \in DOMAIN tasks : NeedsReason(tasks[j]) =>
        \/ tasks[j].owner = name
        \/ \E i \in 1..(j - 1) : IsAlias(tasks[i], tasks[j].owner)

\* A list of a record type is one of items.
LEMMA EntriesType ==
    ASSUME NEW v
    PROVE  /\ Entries(v) \in Seq(Item)
           /\ v \in Value => Entries(v)[1] \in Item
           /\ \A i \in DOMAIN Entries(v) : Entries(v)[i] \in Item
<1>1. CASE v \in Value
  <2>1. Entries(v) \in Seq(Item) /\ Entries(v) # << >>
    BY <1>1, ItemAssumption DEF Entries
  <2>2. Len(Entries(v)) \in Nat \ {0} /\ DOMAIN Entries(v) = 1..Len(Entries(v))
    BY <2>1, EmptySeq, LenProperties
  <2> QED  BY <2>1, <2>2, ElementOfSeq
<1>2. CASE v \notin Value
  BY <1>2, EmptySeq DEF Entries
<1> QED  BY <1>1, <1>2

\* The jobs that need a reason need `name', if any.
Jobs(name) == {k \in Job : NeedsReason(k) => k.owner = name}

\* A record that is written is a job.
LEMMA WriteType ==
    ASSUME NEW type \in RType, NEW owner \in Seq(Label), NEW data \in Seq(Label)
    PROVE  /\ Write(type, owner, data) \in Job
           /\ Write(type, owner, data) \in Jobs(owner)
           /\ type \notin {"A", "AAAA"} =>
                ~NeedsReason(Write(type, owner, data))
BY DEF Write, Job, Jobs, Task, RType, QType, NeedsReason

\* A lookup is a job.
LEMMA LookType ==
    ASSUME NEW why \in {"question", "cname", "server"}, NEW type \in QType,
           NEW name \in Seq(Label)
    PROVE  /\ Look(why, type, name) \in Job
           /\ Look(why, type, name) \in Jobs(name)
           /\ ~NeedsReason(Look("server", type, name))
BY EmptySeq DEF Look, Job, Jobs, Task, QType, NeedsReason

\* The addresses of a zone are written under the name they were asked for with.
LEMMA AddressesType ==
    ASSUME NEW type \in {"A", "AAAA"}, NEW owner \in Seq(Label), NEW v
    PROVE  Addresses(type, owner, v) \in Seq(Jobs(owner))
<1>1. Entries(v) \in Seq(Item) /\ \A i \in DOMAIN Entries(v) : Entries(v)[i] \in Item
  BY EntriesType
<1>2. \A i \in DOMAIN Entries(v) : Entries(v)[i].name \in Seq(Label)
  BY <1>1 DEF Item
<1>3. \A i \in DOMAIN Entries(v) : Write(type, owner, Entries(v)[i].name) \in Jobs(owner)
  <2>1. type \in RType
    BY DEF RType, QType
  <2> QED  BY <1>2, <2>1, WriteType
<1>4. DOMAIN Entries(v) = 1..Len(Entries(v)) /\ Len(Entries(v)) \in Nat
  BY <1>1, LenProperties
<1> QED  BY <1>3, <1>4 DEF Addresses

\* The full name of a host is a name.
LEMMA GetFdqnType ==
    ASSUME NEW host \in Item, NEW domain \in Seq(Label)
    PROVE  GetFdqn(host, domain) \in Seq(Label)
<1>1. host.name \in Seq(Label)
  BY DEF Item
<1>2. (IF host.absolute THEN <<Wildcard>> ELSE << >>) \in Seq(Label)
  BY WildcardAssumption, EmptySeq
<1> QED  BY <1>1, <1>2, ConcatProperties DEF GetFdqn

\* A list of hosts makes no addresses in its own section.
LEMMA HostsType ==
    ASSUME NEW type \in {"MX", "NS"}, NEW owner \in Seq(Label),
           NEW domain \in Seq(Label) \cup {Dangling}, NEW v,
           NEW name, Entries(v) # << >> => domain # Dangling
    PROVE  Hosts(type, owner, domain, v) \in Seq(Jobs(name))
<1> DEFINE F(i) == GetFdqn(Entries(v)[i], domain)
           P(i) == <<Write(type, owner, F(i)), Look("server", "A", F(i))>>
           parts == [i \in DOMAIN Entries(v) |-> P(i)]
<1>1. /\ Entries(v) \in Seq(Item) /\ \A i \in DOMAIN Entries(v) : Entries(v)[i] \in Item
      /\ DOMAIN Entries(v) = 1..Len(Entries(v)) /\ Len(Entries(v)) \in Nat
  BY EntriesType, LenProperties
<1>2. ASSUME NEW i \in DOMAIN Entries(v) PROVE P(i) \in Seq(Jobs(name))
  <2>1. domain \in Seq(Label)
    BY <1>1
  <2>2. F(i) \in Seq(Label)
    BY <1>1, <2>1, GetFdqnType
  <2>3. Write(type, owner, F(i)) \in Job /\ ~NeedsReason(Write(type, owner, F(i)))
    <3>1. type \in RType /\ type \notin {"A", "AAAA"}
      BY DEF RType, QType
    <3> HIDE DEF F
    <3> QED  BY <2>2, <3>1, WriteType
  <2>4. Look("server", "A", F(i)) \in Job /\ ~NeedsReason(Look("server", "A", F(i)))
    <3>1. "A" \in QType
      BY DEF QType
    <3> HIDE DEF F
    <3> QED  BY <2>2, <3>1, LookType
  <2> HIDE DEF F
  <2> QED  BY <2>3, <2>4 DEF Jobs
<1>3. parts \in Seq(Seq(Jobs(name)))
  <2> HIDE DEF P
  <2> QED  BY <1>1, <1>2
<1>4. Hosts(type, owner, domain, v) = FlattenSeq(parts)
  BY DEF Hosts
<1> HIDE DEF parts
<1> QED  BY <1>3, <1>4, FlattenType

\* The full cname is a name, unless the pointers lead astray.
LEMMA FullCnameType ==
    ASSUME NEW t \in Sound, NEW n \in Name, t.zone[n].cname \in Value
    PROVE  FullCname(t, n) \in Seq(Label) \cup {Dangling}
<1> DEFINE target == Entries(t.zone[n].cname)[1]
           above == GetDomainName(t, t.parent[n])
<1>1. target \in Item
  BY EntriesType
<1>2. target.name \in Seq(Label)
  BY <1>1 DEF Item
<1>3. t.parent[n] \in Name \cup {Root, Dangling}
  BY TreeParts DEF Sound
<1>4. t.parent[n] \notin {Root, Dangling} => above \in Seq(Label) \cup {Dangling}
  BY <1>3, GetDomainNameType
<1>5. above \in Seq(Label) => above \o target.name \in Seq(Label)
  BY <1>2, ConcatProperties
<1>6. FullCname(t, n) =
        CASE target.absolute         -> target.name
          [] t.parent[n] = Dangling  -> Dangling
          [] t.parent[n] = Root      -> target.name
          [] OTHER -> IF above = Dangling THEN Dangling ELSE above \o target.name
  BY DEF FullCname
<1>7. FullCname(t, n) \in {target.name, Dangling}
        \/ (t.parent[n] \notin {Root, Dangling} /\ above # Dangling
             /\ FullCname(t, n) = above \o target.name)
  <2> HIDE DEF target, above
  <2>1. CASE target.absolute /\ t.parent[n] = Dangling
    BY <1>6, <2>1
  <2>2. CASE target.absolute /\ t.parent[n] = Root
    BY <1>6, <2>2
  <2>3. CASE target.absolute /\ t.parent[n] \notin {Root, Dangling}
    BY <1>6, <2>3
  <2>4. CASE ~target.absolute
    BY <1>6, <2>4
  <2> QED  BY <2>1, <2>2, <2>3, <2>4
<1> HIDE DEF target, above
<1> QED  BY <1>2, <1>4, <1>5, <1>7

\* Jobs that need no other reason are reasonable.
LEMMA JobsReasonable ==
    ASSUME NEW name, NEW tasks \in Seq(Jobs(name))
    PROVE  tasks \in Seq(Job) /\ ReasonableFor(tasks, name)
<1>1. \A i \in DOMAIN tasks : tasks[i] \in Jobs(name)
  BY LenProperties, ElementOfSeq
<1>2. Jobs(name) \subseteq Job
  BY DEF Jobs
<1> QED  BY <1>1, <1>2 DEF ReasonableFor, Jobs

\* A list of one that gets another.
LEMMA AppendPair ==
    ASSUME NEW a, NEW b PROVE Append(<<a>>, b) = <<a, b>>
<1> DEFINE S == {a, b}
<1>1. <<a>> \in Seq(S) /\ b \in S /\ <<a, b>> \in Seq(S)
  OBVIOUS
<1>2. /\ Append(<<a>>, b) \in Seq(S) /\ Len(Append(<<a>>, b)) = 2
      /\ Append(<<a>>, b)[1] = a /\ Append(<<a>>, b)[2] = b
  BY <1>1, AppendProperties
<1>3. Len(<<a, b>>) = 2 /\ <<a, b>>[1] = a /\ <<a, b>>[2] = b
  OBVIOUS
<1>4. \A i \in 1..2 : Append(<<a>>, b)[i] = <<a, b>>[i]
  BY <1>2, <1>3
<1> QED  BY <1>1, <1>2, <1>3, <1>4, SeqEqual

\* What a question makes is reasonable for it: its addresses are its own, or those of
\* the cname that is written before.
LEMMA QuestionTasksFacts ==
    ASSUME NEW t \in Sound, NEW n \in Name, NEW q \in Job,
           ~QuestionDangles(t, n, q),
           q.type = "SOA" => GetSoaZone(t, n) # Root
    PROVE  /\ QuestionTasks(t, n, q) \in Seq(Job)
           /\ ReasonableFor(QuestionTasks(t, n, q), q.owner)
<1> DEFINE z     == t.zone[n]
           cname == z.cname \in Value
           full  == FullCname(t, n)
           w     == Write("CNAME", q.owner, full)
           l     == Look("cname", "A", full)
           text  == IF q.type \in {"TXT", "ALL"} /\ z.txt \in Value
                    THEN <<Write("TXT", q.owner, << >>)>> ELSE << >>
           mx    == Hosts("MX", q.owner, GetDomainName(t, n), z.mx)
           soa   == Write("SOA", q.owner, GetSoaZone(t, n))
           main  ==
             CASE q.type \in {"A", "AAAA", "ALL"} /\ cname ->
                    IF q.type = "A" THEN Append(<<w>>, l) ELSE <<w>>
               [] q.type = "A" /\ ~cname     -> Addresses("A", q.owner, z.a)
               [] q.type = "AAAA" /\ ~cname  -> Addresses("AAAA", q.owner, z.aaaa)
               [] q.type = "CNAME" /\ cname  -> <<w>>
               [] q.type = "SOA" -> <<soa>>
               [] q.type = "MX"  -> mx
               [] OTHER -> << >>
           S == Jobs(q.owner)
<1>0. QuestionTasks(t, n, q) = main \o text
  BY DEF QuestionTasks
<1>1. q.owner \in Seq(Label) /\ q.type \in QType
  BY DEF Job, Task
<1>2. text \in Seq(S)
  <2>1. Write("TXT", q.owner, << >>) \in S
    <3>1. << >> \in Seq(Label) /\ "TXT" \in RType
      BY EmptySeq DEF RType, QType
    <3> QED  BY <1>1, <3>1, WriteType
  <2> HIDE DEF S
  <2> QED  BY <2>1, EmptySeq
<1>3. cname /\ q.type \in {"A", "AAAA", "ALL", "CNAME"} => full \in Seq(Label)
  BY FullCnameType DEF QuestionDangles
<1>4. full \in Seq(Label) => w \in S /\ w \in Job /\ l \in Job /\ ~NeedsReason(w)
  <2> HIDE DEF full
  <2>1. "CNAME" \in RType /\ "A" \in QType
    BY DEF RType, QType
  <2> QED  BY <1>1, <2>1, WriteType, LookType
<1>5. CASE q.type = "A" /\ cname
  <2>1. main = <<w, l>>
    <3> HIDE DEF w, l, cname
    <3>1. main = Append(<<w>>, l)
      BY <1>5
    <3>2. Append(<<w>>, l) = <<w, l>>
      BY AppendPair
    <3> QED  BY <3>1, <3>2, Zenon
  <2>2. text = << >>
    BY <1>5
  <2>3. QuestionTasks(t, n, q) = <<w, l>>
    <3> HIDE DEF w, l, main, text
    <3> QED  BY <1>0, <2>1, <2>2
  <2>4. <<w, l>> \in Seq(Job)
    <3> HIDE DEF w, l
    <3> QED  BY <1>3, <1>4, <1>5
  <2>5. IsAlias(w, l.owner) /\ ~NeedsReason(w)
    BY <1>3, <1>4, <1>5 DEF IsAlias, Write, Look
  <2>6. ReasonableFor(<<w, l>>, q.owner)
    <3> HIDE DEF w, l
    <3> QED  BY <2>5 DEF ReasonableFor
  <2> QED  BY <2>3, <2>4, <2>6
<1>6. CASE ~(q.type = "A" /\ cname)
  <2>1. main \in Seq(S)
    <3>1. CASE q.type \in {"AAAA", "ALL", "CNAME"} /\ cname
      <4>1. main = <<w>>
        <5> HIDE DEF w, cname
        <5> QED  BY <3>1
      <4> HIDE DEF w, main, S
      <4> QED  BY <1>3, <1>4, <3>1, <4>1
    <3>2. CASE q.type \in {"A", "AAAA"} /\ ~cname
      <4>1. Addresses("A", q.owner, z.a) \in Seq(S) /\ Addresses("AAAA", q.owner, z.aaaa) \in Seq(S)
        BY <1>1, AddressesType
      <4>2. main \in {Addresses("A", q.owner, z.a), Addresses("AAAA", q.owner, z.aaaa)}
        <5> HIDE DEF cname
        <5> QED  BY <3>2
      <4> HIDE DEF main, S
      <4> QED  BY <4>1, <4>2
    <3>3. CASE q.type = "SOA"
      <4>1. GetSoaZone(t, n) \in Name
        BY <3>3, GetSoaZoneType DEF QuestionDangles
      <4>2. GetSoaZone(t, n) \in Seq(Label) /\ "SOA" \in RType
        BY <4>1, NameFacts DEF RType, QType
      <4>3. soa \in S
        BY <1>1, <4>2, WriteType
      <4>4. main = <<soa>>
        <5> HIDE DEF cname, soa
        <5> QED  BY <3>3
      <4> HIDE DEF soa, main, S
      <4> QED  BY <4>3, <4>4
    <3>4. CASE q.type = "MX"
      <4>1. GetDomainName(t, n) \in Seq(Label) \cup {Dangling}
        BY GetDomainNameType
      <4>2. Entries(z.mx) # << >> => GetDomainName(t, n) # Dangling
        BY <3>4 DEF QuestionDangles
      <4>3. mx \in Seq(S)
        BY <1>1, <4>1, <4>2, HostsType
      <4>4. main = mx
        <5> HIDE DEF cname, mx
        <5> QED  BY <3>4
      <4> HIDE DEF mx, main, S
      <4> QED  BY <4>3, <4>4
    <3>5. CASE /\ q.type \notin {"SOA", "MX"}
               /\ ~(q.type \in {"AAAA", "ALL", "CNAME"} /\ cname)
               /\ ~(q.type \in {"A", "AAAA"} /\ ~cname)
      <4>1. main = << >>
        <5> HIDE DEF cname
        <5> QED  BY <1>6, <3>5
      <4> HIDE DEF main, S
      <4> QED  BY <4>1, EmptySeq
    <3> HIDE DEF main, S
    <3> QED  BY <3>1, <3>2, <3>3, <3>4, <3>5
  <2>2. main \o text \in Seq(S)
    <3> HIDE DEF main, text, S
    <3> QED  BY <1>2, <2>1, ConcatProperties
  <2> HIDE DEF main, text
  <2> QED  BY <1>0, <2>2, JobsReasonable
<1> QED  BY <1>5, <1>6

\* What follows a cname is reasonable for its target.
LEMMA CnameTasksFacts ==
    ASSUME NEW t, NEW n, NEW name \in Seq(Label)
    PROVE  CnameTasks(t, n, name) \in Seq(Job) /\ ReasonableFor(CnameTasks(t, n, name), name)
<1>1. /\ Addresses("A", name, t.zone[n].a) \in Seq(Jobs(name))
      /\ Addresses("AAAA", name, t.zone[n].aaaa) \in Seq(Jobs(name))
  BY AddressesType
<1>2. CnameTasks(t, n, name) \in Seq(Jobs(name))
  BY <1>1, ConcatProperties DEF CnameTasks
<1> QED  BY <1>2, JobsReasonable

\* What the authority section has to do for a zone.
LEMMA AuthTasksType ==
    ASSUME NEW r, r.tree \in Sound, r.node \in Name, ~AuthDangles(r)
    PROVE  AuthTasks(r) \in Seq(Job)
<1> DEFINE domain == GetDomainName(r.tree, r.node)
           v == r.tree.zone[r.node].ns
<1>1. domain \in Seq(Label) \cup {Dangling} /\ (Entries(v) # << >> => domain # Dangling)
  BY GetDomainNameType DEF AuthDangles, Dangles
<1>2. AuthTasks(r) = Hosts("NS", domain, domain, v)
  BY DEF AuthTasks
<1> HIDE DEF domain
<1>3. CASE domain \in Seq(Label)
  <2>1. AuthTasks(r) \in Seq(Jobs(domain))
    BY <1>1, <1>2, <1>3, HostsType
  <2> QED  BY <2>1, JobsReasonable
<1>4. CASE domain \notin Seq(Label)
  <2>1. Entries(v) = << >>
    BY <1>1, <1>4
  <2>2. AuthTasks(r) = FlattenSeq([i \in DOMAIN Entries(v) |->
            <<Write("NS", domain, GetFdqn(Entries(v)[i], domain)),
              Look("server", "A", GetFdqn(Entries(v)[i], domain))>>])
    BY <1>2 DEF Hosts
  <2>3. AuthTasks(r) = FlattenSeq(<< >>)
    BY <2>1, <2>2
  <2>4. << >> \in Seq(Seq(Job))
    BY EmptySeq
  <2> QED  BY <2>3, <2>4, FlattenType
<1> QED  BY <1>3, <1>4

\* What the additional section has to do for a zone.
LEMMA NsTasksType ==
    ASSUME NEW r, r.tree \in Sound, r.node \in Name, ~NsDangles(r)
    PROVE  NsTasks(r) \in Seq(Job)
<1> DEFINE domain == GetDomainName(r.tree, r.node)
           z == r.tree.zone[r.node]
<1>1. domain \in Seq(Label) \cup {Dangling}
  BY GetDomainNameType
<1>2. NsTasks(r) = Addresses("A", domain, z.a) \o Addresses("AAAA", domain, z.aaaa)
  BY DEF NsTasks
<1>3. domain # Dangling \/ (Entries(z.a) = << >> /\ Entries(z.aaaa) = << >>)
  BY DEF NsDangles, Dangles
<1> HIDE DEF domain
<1>4. CASE domain \in Seq(Label)
  <2>1. NsTasks(r) = CnameTasks(r.tree, r.node, domain)
    BY <1>2 DEF CnameTasks
  <2> QED  BY <1>4, <2>1, CnameTasksFacts
<1>5. CASE domain \notin Seq(Label)
  <2>1. Addresses("A", domain, z.a) = << >> /\ Addresses("AAAA", domain, z.aaaa) = << >>
    BY <1>1, <1>3, <1>5 DEF Addresses
  <2>2. NsTasks(r) = << >> \o << >>
    BY <1>2, <2>1, Zenon
  <2>3. << >> \in Seq(Job) /\ << >> \o << >> = << >>
    OBVIOUS
  <2> QED  BY <2>2, <2>3, Zenon
<1> QED  BY <1>4, <1>5

-----------------------------------------------------------------------------
(* The types.                                                              *)

Ref == [tree : Sound, node : Name]

Phase == Section \cup {"receive", "send", "silent", "ended", "undefined"}

\* TypeOK, and what keeps it: the trees have no pointers that lead down, and records
\* are only planned of the types that there are.
TypeInv ==
    /\ manager \in {"json", "memory"}
    /\ zones \in Sound
    /\ commits \in 0..MaxCommits
    /\ phase \in Phase
    /\ queries \in 0..MaxQueries
    /\ query \in QueryType
    /\ questions \in Seq(Question)
    /\ todo \in Seq(Job)
    /\ found \in Ref \cup {NoRef}
    /\ reply \in Reply
    /\ authZones \in Seq(Ref)
    /\ nsZones \in Seq(Ref)
    /\ asked \in Seq(Ref)
    /\ disturbed \in BOOLEAN
    /\ stats \in Stats
    /\ outcome \in {"UNSET", "BAD"}
    /\ resets \in 0..MaxResets

\* The elements of a list of references are references.
LEMMA RefsFacts ==
    ASSUME NEW refs \in Seq(Ref)
    PROVE  \A i \in DOMAIN refs : /\ refs[i] \in Ref /\ refs[i].tree \in Sound
                                  /\ refs[i].tree \in Tree /\ refs[i].node \in Name
<1>1. \A i \in DOMAIN refs : refs[i] \in Ref
  BY LenProperties, ElementOfSeq
<1> QED  BY <1>1 DEF Ref, Sound

\* The invariant has what the type invariant says.
LEMMA TypeInvImplies ==
    TypeInv => TypeOK
<1> SUFFICES ASSUME TypeInv PROVE TypeOK
  OBVIOUS
<1>1. zones \in Tree
  BY DEF TypeInv, Sound
<1>2. todo \in Seq(Task)
  <2>1. \A i \in 1..Len(todo) : todo[i] \in Task
    BY ElementOfSeq DEF TypeInv, Job
  <2>2. todo \in Seq(Job) /\ Job \subseteq Task
    BY DEF TypeInv, Job
  <2> QED  BY <2>1, <2>2
<1>3. found = NoRef \/ (found.tree \in Tree /\ found.node \in Name)
  BY DEF TypeInv, Ref, Sound
<1>4. \A refs \in {authZones, nsZones, asked} : \A i \in DOMAIN refs :
        refs[i].tree \in Tree /\ refs[i].node \in Name
  BY RefsFacts DEF TypeInv
<1> QED  BY <1>1, <1>2, <1>3, <1>4 DEF TypeInv, TypeOK, Phase

\* A reply without records is a reply.
LEMMA EmptyReplyType ==
    ASSUME NEW rcode \in Rcode, NEW n \in Nat, NEW size \in 0..MaxReply
    PROVE  EmptyReply(rcode, n, size) \in Reply
<1>1. << >> \in Seq(Record)
  BY EmptySeq
<1> QED  BY <1>1 DEF EmptyReply, Reply

\* An error reply is a reply, and so is the empty buffer.
LEMMA ErrorReplyType ==
    ASSUME NEW rcode \in Rcode
    PROVE  EmptyReply(rcode, 0, HeaderSize) \in Reply /\ EmptyReply(rcode, 0, 0) \in Reply
BY EmptyReplyType, SizeAssumption

\* The variables have their types at first.
LEMMA InitTypes ==
    Init => TypeInv
<1> SUFFICES ASSUME Init PROVE TypeInv
  OBVIOUS
<1>1. manager \in {"json", "memory"}
  BY StoredAssumption DEF Init
<1>2. zones \in Sound /\ phase \in Phase
  <2>1. PICK i \in StoredImage[manager] :
            /\ zones = InitParents(i)
            /\ phase = IF manager = "memory" /\ ~LoadDefined(i) THEN "undefined" ELSE "receive"
    BY DEF Init
  <2>2. i \in Image /\ WellFormed(i)
    BY StoredAssumption DEF Init
  <2> QED  BY <2>1, <2>2, InitIsSound DEF Phase
<1>3. reply \in Reply
  BY ErrorReplyType DEF Init, Rcode
<1>4. query \in QueryType
  BY EmptySeq DEF Init, NoQuery, QueryType
<1>5. /\ questions \in Seq(Question) /\ todo \in Seq(Job) /\ authZones \in Seq(Ref)
      /\ nsZones \in Seq(Ref) /\ asked \in Seq(Ref)
  BY EmptySeq DEF Init
<1>6. stats \in Stats
  BY DEF Init, NoStats, Stats
<1>7. commits \in 0..MaxCommits /\ queries \in 0..MaxQueries /\ resets \in 0..MaxResets
  BY BoundAssumption DEF Init
<1>8. found \in Ref \cup {NoRef} /\ disturbed \in BOOLEAN /\ outcome \in {"UNSET", "BAD"}
  BY DEF Init
<1> QED  BY <1>1, <1>2, <1>3, <1>4, <1>5, <1>6, <1>7, <1>8 DEF TypeInv

\* The first pass of ProcessQuestions ends with one of the codes; if it goes well, the
\* question it read over and over is there, and fits with the header.
LEMMA FirstPassFacts ==
    ASSUME NEW q \in Query
    PROVE  /\ q.count \in Nat
           /\ FirstPass(q) \in Rcode
           /\ FirstPass(q) = "OK" /\ q.count # 0 =>
                /\ q.questions[1] \in Question
                /\ QuestionSize(q) \in Nat
                /\ HeaderSize + QuestionSize(q) \in 0..MaxReply
<1>1. q \in QueryType /\ q.count \in Nat /\ q.questions \in Seq(Question)
  BY QueryAssumption DEF QueryType
<1>2. FirstPass(q) \in Rcode
  BY DEF FirstPass, Rcode
<1>3. ASSUME FirstPass(q) = "OK", q.count # 0
      PROVE  /\ q.questions[1] \in Question
             /\ QuestionSize(q) \in Nat
             /\ HeaderSize + QuestionSize(q) \in 0..MaxReply
  <2>1. q.questions # << >> /\ HeaderSize + QuestionSize(q) < MaxReply
    BY <1>3 DEF FirstPass
  <2>2. q.questions[1] \in Question
    <3>1. Len(q.questions) \in Nat \ {0}
      BY <1>1, <2>1, EmptySeq, LenProperties
    <3> QED  BY <1>1, <3>1, ElementOfSeq
  <2>3. q.questions[1].size \in Nat
    BY <2>2 DEF Question
  <2>4. QuestionSize(q) \in Nat
    BY <1>1, <2>3 DEF QuestionSize
  <2> QED  BY <2>1, <2>2, <2>4, SizeAssumption
<1> QED  BY <1>1, <1>2, <1>3

\* The task at hand and the work after it.
LEMMA TodoFacts ==
    ASSUME TypeInv, todo # << >>
    PROVE  /\ Head(todo) \in Job /\ Tail(todo) \in Seq(Job)
           /\ Head(todo).owner \in Seq(Label) /\ Head(todo).data \in Seq(Label)
           /\ Head(todo).type \in QType
           /\ Head(todo).do = "store" => Head(todo).type \in RType
<1>1. todo \in Seq(Job)
  BY DEF TypeInv
<1>2. Head(todo) \in Job /\ Tail(todo) \in Seq(Job)
  BY <1>1, HeadTailProperties
<1> QED  BY <1>2 DEF Job, Task

\* A lookup that has found something holds a reference.
LEMMA FoundFacts ==
    ASSUME TypeInv, found # NoRef
    PROVE  found \in Ref /\ found.tree \in Sound /\ found.node \in Name
<1>1. found \in Ref
  BY DEF TypeInv
<1> QED  BY <1>1 DEF Ref

\* Undefined changes the phase alone.
LEMMA UndefinedTypes ==
    ASSUME TypeInv, Undefined, stats' \in Stats,
           UNCHANGED <<manager, zones, commits, queries, query, questions, disturbed,
                       outcome, resets>>
    PROVE  TypeInv'
BY DEF TypeInv, Undefined, Phase

\* A datagram arrives.
LEMMA ReceiveTypes ==
    ASSUME TypeInv, NEW q \in Query, Receive(q)
    PROVE  TypeInv'
<1>1. q.count \in Nat /\ FirstPass(q) \in Rcode /\ q \in QueryType
  BY FirstPassFacts, QueryAssumption
<1>2. /\ manager' = manager /\ zones' = zones /\ commits' = commits /\ resets' = resets
      /\ queries' \in 0..MaxQueries /\ query' \in QueryType /\ disturbed' \in BOOLEAN
      /\ stats' \in Stats
  <2>1. queries' \in 0..MaxQueries
    BY BoundAssumption DEF Receive, TypeInv
  <2>2. stats' \in Stats
    <3>1. stats \in Stats /\ stats' = [stats EXCEPT !.udp_connections = @ + 1]
      BY DEF Receive, TypeInv
    <3> QED  BY <3>1 DEF Stats
  <2> QED  BY <1>1, <2>1, <2>2 DEF Receive
<1>3. authZones' \in Seq(Ref) /\ nsZones' \in Seq(Ref) /\ asked' \in Seq(Ref)
  BY EmptySeq DEF Receive
<1>4. /\ phase' \in Phase /\ questions' \in Seq(Question) /\ todo' \in Seq(Job)
      /\ found' \in Ref \cup {NoRef} /\ reply' \in Reply /\ outcome' \in {"UNSET", "BAD"}
  <2>1. CASE q.header = "short"
    <3>1. /\ phase' = "silent" /\ questions' = << >> /\ reply' = EmptyReply("OK", 0, 0)
          /\ UNCHANGED <<todo, found, outcome>>
      BY <2>1 DEF Receive
    <3>2. reply' \in Reply
      BY <3>1, ErrorReplyType DEF Rcode
    <3> QED  BY <3>1, <3>2, EmptySeq DEF TypeInv, Phase
  <2>2. CASE q.header # "short" /\ FirstPass(q) # "OK"
    <3>1. /\ questions' = << >> /\ CreateErrorReply(FirstPass(q))
          /\ outcome' = IF FirstPass(q) = "FORMAT_ERROR" THEN "BAD" ELSE "UNSET"
      BY <2>2 DEF Receive
    <3>2. reply' \in Reply
      BY <1>1, <3>1, ErrorReplyType DEF CreateErrorReply, Finish
    <3>3. phase' = "send" /\ todo' = << >> /\ found' = NoRef
      BY <3>1 DEF CreateErrorReply, Finish
    <3> QED  BY <3>1, <3>2, <3>3, EmptySeq DEF Phase
  <2>3. CASE q.header # "short" /\ FirstPass(q) = "OK"
    <3>1. /\ phase' = "answer" /\ questions' = Parsed(q) /\ found' = NoRef
          /\ todo' = [i \in 1..q.count |->
                        Look("question", Parsed(q)[i].type, Parsed(q)[i].name)]
          /\ reply' = EmptyReply("OK", q.count,
                        HeaderSize + IF q.count = 0 THEN 0 ELSE QuestionSize(q))
          /\ UNCHANGED outcome
      BY <2>3 DEF Receive
    <3>2. \A i \in 1..q.count : Parsed(q)[i] \in Question
      BY <1>1, <2>3, FirstPassFacts DEF Parsed
    <3>3. questions' \in Seq(Question)
      BY <1>1, <3>1, <3>2 DEF Parsed
    <3>4. todo' \in Seq(Job)
      <4>1. ASSUME NEW i \in 1..q.count
            PROVE  Look("question", Parsed(q)[i].type, Parsed(q)[i].name) \in Job
        <5>1. Parsed(q)[i].type \in QType /\ Parsed(q)[i].name \in Seq(Label)
          BY <3>2 DEF Question
        <5> QED  BY <5>1, LookType
      <4> QED  BY <1>1, <3>1, <4>1
    <3>5. reply' \in Reply
      <4>1. HeaderSize + (IF q.count = 0 THEN 0 ELSE QuestionSize(q)) \in 0..MaxReply
        BY <2>3, FirstPassFacts, SizeAssumption
      <4>2. "OK" \in Rcode
        BY DEF Rcode
      <4> QED  BY <1>1, <3>1, <4>1, <4>2, EmptyReplyType
    <3> QED  BY <3>1, <3>3, <3>4, <3>5 DEF TypeInv, Phase, Section
  <2> QED  BY <2>1, <2>2, <2>3
<1> QED  BY <1>2, <1>3, <1>4 DEF TypeInv

\* The reply with one more record is a reply as long as it fits.
LEMMA WithRecordType ==
    ASSUME TypeInv, phase \in Section, todo # << >>, Head(todo).do = "store",
           NEW s \in RecordSize, reply.size + s <= MaxReply
    PROVE  /\ WithRecord(s) \in Reply
           /\ WithRecord(s).records =
                Append(reply.records,
                       [section |-> phase, type |-> Head(todo).type,
                        owner |-> Head(todo).owner, data |-> Head(todo).data,
                        from |-> reply.size, to |-> reply.size + s])
           /\ WithRecord(s).size = reply.size + s
           /\ WithRecord(s).rcode = reply.rcode
           /\ WithRecord(s).questions = reply.questions
           /\ WithRecord(s).authoritative = reply.authoritative
           /\ WithRecord(s).count = [reply.count EXCEPT ![phase] = @ + 1]
<1> DEFINE rec == [section |-> phase, type |-> Head(todo).type,
                   owner |-> Head(todo).owner, data |-> Head(todo).data,
                   from |-> reply.size, to |-> reply.size + s]
<1>1. reply \in Reply /\ s \in Nat
  BY SizeAssumption DEF TypeInv
<1>2. /\ reply.size \in 0..MaxReply /\ reply.records \in Seq(Record)
      /\ reply.count \in [Section -> Nat]
  BY <1>1 DEF Reply
<1>3. rec \in Record
  BY <1>1, <1>2, TodoFacts, SizeAssumption DEF Record
<1>4. Append(reply.records, rec) \in Seq(Record)
  BY <1>2, <1>3, AppendProperties
<1>5. reply.size + s \in 0..MaxReply
  BY <1>1, <1>2, SizeAssumption
<1>6. [reply.count EXCEPT ![phase] = @ + 1] \in [Section -> Nat]
  BY <1>2
<1>7. WithRecord(s) = [reply EXCEPT !.records = Append(@, rec), !.size = @ + s,
                                    !.count[phase] = @ + 1]
  BY DEF WithRecord
<1> HIDE DEF rec
<1>8. WithRecord(s) \in Reply
  BY <1>1, <1>4, <1>5, <1>6, <1>7 DEF Reply
<1> QED  BY <1>1, <1>2, <1>7, <1>8 DEF rec, Reply

\* A record is stored, or taken back.
LEMMA StoreTypes ==
    ASSUME TypeInv, Store
    PROVE  TypeInv'
<1>1. /\ phase \in Section /\ todo # << >> /\ Head(todo).do = "store"
      /\ UNCHANGED <<manager, zones, commits, queries, query, questions, disturbed, outcome,
                     resets, authZones, nsZones, asked, stats>>
  BY DEF Store, At
<1>2. PICK s \in RecordSize :
        \/ /\ reply.size + s > MaxReply
           /\ Finish([reply EXCEPT !.truncated = TRUE])
        \/ /\ reply.size + s <= MaxReply
           /\ reply' = WithRecord(s)
           /\ todo' = Tail(todo)
           /\ UNCHANGED <<phase, found>>
  BY DEF Store
<1>3. CASE Finish([reply EXCEPT !.truncated = TRUE])
  <2>1. [reply EXCEPT !.truncated = TRUE] \in Reply
    BY DEF TypeInv, Reply
  <2> QED  BY <1>1, <1>3, <2>1, EmptySeq DEF TypeInv, Finish, Phase
<1>4. CASE /\ reply.size + s <= MaxReply
           /\ reply' = WithRecord(s)
           /\ todo' = Tail(todo)
           /\ UNCHANGED <<phase, found>>
  <2>1. reply' \in Reply
    BY <1>1, <1>4, WithRecordType
  <2>2. todo' \in Seq(Job)
    BY <1>1, <1>4, TodoFacts
  <2> QED  BY <1>1, <1>4, <2>1, <2>2 DEF TypeInv
<1> QED  BY <1>2, <1>3, <1>4

\* What a Lookup finds is a node of the zones.
LEMMA LookupSearchTypes ==
    ASSUME TypeInv, LookupSearch
    PROVE  TypeInv'
<1>1. /\ todo # << >> /\ Found(zones, Head(todo).owner) # Root
      /\ found' = [tree |-> zones, node |-> Found(zones, Head(todo).owner)]
      /\ UNCHANGED <<manager, zones, commits, phase, queries, query, questions, todo, reply,
                     authZones, nsZones, asked, disturbed, stats, outcome, resets>>
  BY DEF LookupSearch, IsLookup, At
<1>2. zones \in Sound /\ zones \in Tree /\ Head(todo).owner \in Seq(Label)
  BY <1>1, TodoFacts DEF TypeInv, Sound
<1>3. Found(zones, Head(todo).owner) \in Name \cup {Root}
  BY <1>2, SearchType, LookupType DEF Found
<1>4. found' \in Ref
  BY <1>1, <1>2, <1>3 DEF Ref
<1> QED  BY <1>1, <1>4 DEF TypeInv

\* What a Lookup does not find ends the query or is skipped.
LEMMA LookupMissTypes ==
    ASSUME TypeInv, LookupMiss
    PROVE  TypeInv'
<1>1. /\ todo # << >> /\ stats \in Stats
      /\ UNCHANGED <<manager, zones, commits, queries, query, questions, disturbed, outcome,
                     resets, authZones, nsZones, asked>>
  BY DEF LookupMiss, IsLookup, At, TypeInv
<1>2. CASE CreateErrorReply("NAME_ERROR") /\ stats' = [stats EXCEPT !.unknown_names = @ + 1]
  <2>1. reply' \in Reply
    BY <1>2, ErrorReplyType DEF CreateErrorReply, Finish, Rcode
  <2>2. stats' \in Stats
    BY <1>1, <1>2 DEF Stats
  <2>3. phase' = "send" /\ todo' = << >> /\ found' = NoRef
    BY <1>2 DEF CreateErrorReply, Finish
  <2> QED  BY <1>1, <2>1, <2>2, <2>3, EmptySeq DEF TypeInv, Phase
<1>3. CASE /\ phase' = "silent" /\ todo' = << >>
           /\ stats' = [stats EXCEPT !.unknown_names = @ + 2]
           /\ UNCHANGED <<found, reply>>
  <2>1. stats' \in Stats
    BY <1>1, <1>3 DEF Stats
  <2> QED  BY <1>1, <1>3, <2>1, EmptySeq DEF TypeInv, Phase
<1>4. CASE todo' = Skipped /\ UNCHANGED <<phase, found, reply, stats>>
  <2>1. todo' \in Seq(Job)
    BY <1>1, <1>4, TodoFacts DEF Skipped
  <2> QED  BY <1>1, <1>4, <2>1 DEF TypeInv
<1> QED  BY <1>2, <1>3, <1>4 DEF LookupMiss

\* AddZone keeps a list of references one.
LEMMA AddZoneType ==
    ASSUME NEW refs \in Seq(Ref), NEW t \in Sound, NEW n \in Name \cup {Root}
    PROVE  AddZone(refs, t, n) \in Seq(Ref)
<1>1. n \in Name => [tree |-> t, node |-> n] \in Ref
  BY DEF Ref
<1>2. AddZone(refs, t, n) \in {refs, Append(refs, [tree |-> t, node |-> n])}
  BY DEF AddZone
<1>3. n = Root => AddZone(refs, t, n) = refs
  BY DEF AddZone
<1> QED  BY <1>1, <1>2, <1>3, AppendProperties

\* ProcessQuestion gives up, or plans the records of the question.
LEMMA ProcessQuestionTypes ==
    ASSUME TypeInv, ProcessQuestion
    PROVE  TypeInv'
<1> DEFINE t == found.tree
           n == found.node
           q == Head(todo)
           soa == GetSoaZone(t, n)
<1>1. /\ todo # << >> /\ found # NoRef
      /\ UNCHANGED <<manager, zones, commits, queries, query, questions, disturbed, outcome,
                     resets, stats>>
  BY DEF ProcessQuestion, At
<1>2. /\ t \in Sound /\ n \in Name /\ found \in Ref /\ q \in Job /\ Tail(todo) \in Seq(Job)
      /\ stats' \in Stats
  BY <1>1, FoundFacts, TodoFacts DEF TypeInv
<1>3. CASE Undefined
  BY <1>1, <1>2, <1>3, UndefinedTypes
<1>4. CASE /\ CreateErrorReply("SERVER_FAILURE")
           /\ UNCHANGED <<authZones, nsZones, asked>>
  <2>1. reply' \in Reply
    BY <1>4, ErrorReplyType DEF CreateErrorReply, Finish, Rcode
  <2>2. phase' = "send" /\ todo' = << >> /\ found' = NoRef
    BY <1>4 DEF CreateErrorReply, Finish
  <2> QED  BY <1>1, <1>4, <2>1, <2>2, EmptySeq DEF TypeInv, Phase
<1>5. CASE /\ ~QuestionDangles(t, n, q)
           /\ q.type = "SOA" => soa # Root
           /\ todo' = QuestionTasks(t, n, q) \o Tail(todo)
           /\ reply' = [reply EXCEPT !.authoritative = AuthorityAfter(t, n)]
           /\ authZones' = IF q.type \in {"SOA", "NS", "ALL"}
                           THEN AddZone(authZones, t, soa) ELSE authZones
           /\ asked' = Append(asked, found)
           /\ found' = NoRef
           /\ UNCHANGED <<phase, nsZones>>
  <2>1. todo' \in Seq(Job)
    BY <1>2, <1>5, QuestionTasksFacts, ConcatProperties
  <2>2. reply' \in Reply
    BY <1>5 DEF TypeInv, Reply, AuthorityAfter
  <2>3. authZones' \in Seq(Ref)
    <3>1. soa \in Name \cup {Root}
      BY <1>2, <1>5, GetSoaZoneType DEF QuestionDangles
    <3>2. AddZone(authZones, t, soa) \in Seq(Ref)
      BY <1>2, <3>1, AddZoneType DEF TypeInv
    <3> QED  BY <1>5, <3>2 DEF TypeInv
  <2>4. asked' \in Seq(Ref)
    BY <1>2, <1>5, AppendProperties DEF TypeInv
  <2> QED  BY <1>1, <1>5, <2>1, <2>2, <2>3, <2>4 DEF TypeInv
<1> QED  BY <1>3, <1>4, <1>5 DEF ProcessQuestion

\* The addresses of a cname's target are planned.
LEMMA FollowCnameTypes ==
    ASSUME TypeInv, FollowCname
    PROVE  TypeInv'
<1>1. /\ todo # << >> /\ found' = NoRef
      /\ todo' = CnameTasks(found.tree, found.node, Head(todo).owner) \o Tail(todo)
      /\ UNCHANGED <<manager, zones, commits, phase, queries, query, questions, reply,
                     authZones, nsZones, asked, disturbed, stats, outcome, resets>>
  BY DEF FollowCname, At
<1>2. todo' \in Seq(Job)
  BY <1>1, TodoFacts, CnameTasksFacts, ConcatProperties
<1> QED  BY <1>1, <1>2 DEF TypeInv

\* A server goes to the list for the last section.
LEMMA AddServerTypes ==
    ASSUME TypeInv, AddServer
    PROVE  TypeInv'
<1>1. /\ todo # << >> /\ found # NoRef /\ found' = NoRef /\ todo' = Tail(todo)
      /\ nsZones' = AddZone(nsZones, found.tree, found.node)
      /\ UNCHANGED <<manager, zones, commits, phase, queries, query, questions, reply,
                     authZones, asked, disturbed, stats, outcome, resets>>
  BY DEF AddServer, At
<1>2. nsZones' \in Seq(Ref) /\ todo' \in Seq(Job)
  BY <1>1, FoundFacts, TodoFacts, AddZoneType DEF TypeInv
<1> QED  BY <1>1, <1>2 DEF TypeInv

\* The next section begins.
LEMMA NextSectionTypes ==
    ASSUME TypeInv, NEW from, NEW to \in Section, NEW dangles, NEW tasks,
           ~dangles => tasks \in Seq(Job),
           NextSection(from, to, dangles, tasks)
    PROVE  TypeInv'
<1>1. UNCHANGED <<manager, zones, commits, queries, query, questions, disturbed, stats,
                  outcome, resets>>
  BY DEF NextSection, counters
<1>2. CASE Undefined
  BY <1>1, <1>2, UndefinedTypes DEF TypeInv
<1>3. CASE /\ ~dangles /\ phase' = to /\ todo' = tasks
           /\ UNCHANGED <<found, reply, authZones, nsZones, asked>>
  BY <1>1, <1>3 DEF TypeInv, Phase
<1> QED  BY <1>2, <1>3 DEF NextSection

\* The authority section begins.
LEMMA BeginAuthorityTypes ==
    ASSUME TypeInv, BeginAuthority
    PROVE  TypeInv'
<1> DEFINE dangles == \E i \in DOMAIN authZones : AuthDangles(authZones[i])
           parts == [i \in DOMAIN authZones |-> AuthTasks(authZones[i])]
           tasks == FlattenSeq(parts)
<1>1. authZones \in Seq(Ref) /\ DOMAIN authZones = 1..Len(authZones) /\ Len(authZones) \in Nat
  BY LenProperties DEF TypeInv
<1>2. ASSUME ~dangles PROVE tasks \in Seq(Job)
  <2>1. \A i \in DOMAIN authZones : AuthTasks(authZones[i]) \in Seq(Job)
    BY <1>1, <1>2, RefsFacts, AuthTasksType
  <2>2. parts \in Seq(Seq(Job))
    BY <1>1, <2>1
  <2> HIDE DEF parts
  <2> QED  BY <2>2, FlattenType
<1>3. NextSection("answer", "authority", dangles, tasks) /\ "authority" \in Section
  BY DEF BeginAuthority, Section
<1> HIDE DEF dangles, tasks
<1> QED  BY <1>2, <1>3, NextSectionTypes

\* The additional section begins.
LEMMA BeginAdditionalTypes ==
    ASSUME TypeInv, BeginAdditional
    PROVE  TypeInv'
<1> DEFINE dangles == \E i \in DOMAIN nsZones : NsDangles(nsZones[i])
           parts == [i \in DOMAIN nsZones |-> NsTasks(nsZones[i])]
           tasks == FlattenSeq(parts)
<1>1. nsZones \in Seq(Ref) /\ DOMAIN nsZones = 1..Len(nsZones) /\ Len(nsZones) \in Nat
  BY LenProperties DEF TypeInv
<1>2. ASSUME ~dangles PROVE tasks \in Seq(Job)
  <2>1. \A i \in DOMAIN nsZones : NsTasks(nsZones[i]) \in Seq(Job)
    BY <1>1, <1>2, RefsFacts, NsTasksType
  <2>2. parts \in Seq(Seq(Job))
    BY <1>1, <2>1
  <2> HIDE DEF parts
  <2> QED  BY <2>2, FlattenType
<1>3. NextSection("authority", "additional", dangles, tasks) /\ "additional" \in Section
  BY DEF BeginAdditional, Section
<1> HIDE DEF dangles, tasks
<1> QED  BY <1>2, <1>3, NextSectionTypes

\* Counting a request.
LEMMA CountedFacts ==
    ASSUME stats \in Stats, NEW state \in {"SUCESS", "UNSET", "BAD"}
    PROVE  /\ Counted(state) \in Stats
           /\ Counted(state).udp_connections = stats.udp_connections
           /\ Counted(state).ok_requests + Counted(state).failed_requests
                + Counted(state).bad_requests
              = stats.ok_requests + stats.failed_requests + stats.bad_requests + 1
<1>1. CASE state = "SUCESS"
  BY <1>1 DEF Counted, Stats
<1>2. CASE state = "UNSET"
  BY <1>2 DEF Counted, Stats
<1>3. CASE state = "BAD"
  BY <1>3 DEF Counted, Stats
<1> QED  BY <1>1, <1>2, <1>3

\* The work on a datagram is over.
LEMMA OverTypes ==
    ASSUME TypeInv, NEW next \in Phase, NEW state \in {"SUCESS", "UNSET", "BAD"},
           Over(next, state)
    PROVE  TypeInv'
<1>1. stats' \in Stats
  BY CountedFacts DEF Over, TypeInv
<1>2. reply' \in Reply
  BY ErrorReplyType DEF Over, Rcode
<1>3. query' \in QueryType
  BY EmptySeq DEF Over, NoQuery, QueryType
<1>4. /\ questions' \in Seq(Question) /\ authZones' \in Seq(Ref) /\ nsZones' \in Seq(Ref)
      /\ asked' \in Seq(Ref)
  BY EmptySeq DEF Over
<1> QED  BY <1>1, <1>2, <1>3, <1>4 DEF Over, TypeInv

\* The zones are changed.
LEMMA CommitTypes ==
    ASSUME TypeInv, NEW e \in Edit, Commit(e)
    PROVE  TypeInv'
<1>1. /\ e.kind = "create" <=> ~Has(zones.zone, e.name)
      /\ IF e.kind = "delete" THEN Parent(e.name) # Root ELSE Exclusive(e.zone)
      /\ Authorities(Edited(e).zone, e.name) # {}
      /\ zones' = Changed(e) /\ zones \in Sound
  BY DEF Commit, TypeInv
<1>2. zones' \in Sound
  BY <1>1, ChangedIsSound
<1>3. commits' \in 0..MaxCommits
  BY BoundAssumption DEF Commit, TypeInv
<1> QED  BY <1>2, <1>3 DEF Commit, TypeInv, counters

\* Every step keeps the types.
LEMMA NextTypes ==
    ASSUME TypeInv, [Next]_vars
    PROVE  TypeInv'
<1>1. ASSUME NEW q \in Query, Receive(q) PROVE TypeInv'
  BY <1>1, ReceiveTypes
<1>2. CASE Store
  BY <1>2, StoreTypes
<1>3. CASE LookupSearch
  BY <1>3, LookupSearchTypes
<1>4. CASE LookupMiss
  BY <1>4, LookupMissTypes
<1>5. CASE LookupRaced
  BY <1>5, UndefinedTypes DEF LookupRaced, IsLookup, At, TypeInv
<1>6. CASE ProcessQuestion
  BY <1>6, ProcessQuestionTypes
<1>7. CASE FollowCname
  BY <1>7, FollowCnameTypes
<1>8. CASE AddServer
  BY <1>8, AddServerTypes
<1>9. CASE BeginAuthority
  BY <1>9, BeginAuthorityTypes
<1>10. CASE BeginAdditional
  BY <1>10, BeginAdditionalTypes
<1>11. CASE EndReply
  BY <1>11 DEF EndReply, TypeInv, Phase, counters
<1>12. CASE Sent
  <2>1. "receive" \in Phase /\ outcome \in {"SUCESS", "UNSET", "BAD"}
    BY DEF Phase, TypeInv
  <2> QED  BY <1>12, <2>1, OverTypes DEF Sent
<1>13. CASE EndpointFails
  <2>1. CASE Over("ended", outcome)
    <3>1. "ended" \in Phase /\ outcome \in {"SUCESS", "UNSET", "BAD"}
      BY DEF Phase, TypeInv
    <3> QED  BY <2>1, <3>1, OverTypes
  <2>2. CASE ~Over("ended", outcome)
    BY <1>13, <2>2 DEF EndpointFails, TypeInv, Phase, counters
  <2> QED  BY <2>1, <2>2
<1>14. CASE Housekeeping
  <2>1. NoStats \in Stats
    BY DEF NoStats, Stats
  <2> QED  BY <1>14, <2>1, BoundAssumption DEF Housekeeping, TypeInv
<1>15. ASSUME NEW e \in Edit, Commit(e) PROVE TypeInv'
  BY <1>15, CommitTypes
<1>16. CASE UNCHANGED vars
  BY <1>16 DEF vars, TypeInv
<1>17. CASE Stopped
  BY <1>16, <1>17 DEF Stopped
<1> QED  BY <1>1, <1>2, <1>3, <1>4, <1>5, <1>6, <1>7, <1>8, <1>9, <1>10, <1>11, <1>12,
            <1>13, <1>14, <1>15, <1>16, <1>17 DEF Next, Process

-----------------------------------------------------------------------------
(* The reply is a message.                                                 *)

\* While records are written, no error has been met, and there is no record of a
\* later section.
WireInv ==
    /\ WireSound
    /\ phase \in Section =>
        /\ reply.rcode = "OK"
        /\ \A i \in DOMAIN reply.records : Rank[reply.records[i].section] <= Rank[phase]

\* The sections have numbers.
LEMMA RankFacts ==
    /\ \A s \in Section : Rank[s] \in Nat
    /\ Rank["answer"] < Rank["authority"] /\ Rank["authority"] < Rank["additional"]
BY DEF Rank, Section

\* A reply without records.
LEMMA EmptyWire ==
    ASSUME NEW rcode, NEW n, NEW size, reply' = EmptyReply(rcode, n, size),
           rcode # "OK" => n = 0
    PROVE  WireSound' /\ reply'.records = << >> /\ reply'.rcode = rcode
<1>1. /\ reply'.records = << >> /\ reply'.rcode = rcode /\ reply'.questions = n
      /\ \A s \in Section : reply'.count[s] = 0
  BY DEF EmptyReply
<1>2. ASSUME NEW s PROVE Cardinality({i \in DOMAIN << >> : << >>[i].section = s}) = 0
  <2>1. {i \in DOMAIN << >> : << >>[i].section = s} = {}
    OBVIOUS
  <2> QED  BY <2>1, FS_EmptySet
<1> QED  BY <1>1, <1>2 DEF WireSound

\* What Store and Finish leave alone.
LEMMA SameWire ==
    ASSUME WireSound, reply'.records = reply.records, reply'.size = reply.size,
           reply'.count = reply.count, reply'.rcode = reply.rcode,
           reply'.questions = reply.questions
    PROVE  WireSound'
BY DEF WireSound

\* One more record.
LEMMA AppendWire ==
    ASSUME TypeInv, WireInv, phase \in Section, todo # << >>, Head(todo).do = "store",
           NEW s \in RecordSize, reply.size + s <= MaxReply, reply' = WithRecord(s)
    PROVE  /\ WireSound' /\ reply'.rcode = "OK"
           /\ \A i \in DOMAIN reply'.records : Rank[reply'.records[i].section] <= Rank[phase]
<1> DEFINE rec == [section |-> phase, type |-> Head(todo).type,
                   owner |-> Head(todo).owner, data |-> Head(todo).data,
                   from |-> reply.size, to |-> reply.size + s]
           old == reply.records
           new == reply'.records
           N == Len(old)
           In(recs, c) == {i \in DOMAIN recs : recs[i].section = c}
<1>1. /\ new = Append(old, rec) /\ reply'.size = reply.size + s
      /\ reply'.rcode = reply.rcode /\ reply.rcode = "OK"
      /\ reply'.count = [reply.count EXCEPT ![phase] = @ + 1]
  BY WithRecordType DEF WireInv
<1>2. reply.count \in [Section -> Nat] /\ old \in Seq(Record) /\ reply.size \in Nat
  BY DEF TypeInv, Reply
<1>3. /\ N \in Nat /\ DOMAIN old = 1..N /\ DOMAIN new = 1..(N + 1) /\ Len(new) = N + 1
      /\ \A i \in 1..N : new[i] = old[i]
      /\ new[N + 1] = rec
  <2>1. N \in Nat /\ DOMAIN old = 1..N
    BY <1>2, LenProperties
  <2> HIDE DEF rec, old, new
  <2>2. old \in Seq(Record \cup {rec}) /\ rec \in Record \cup {rec}
    BY <1>2
  <2> QED  BY <1>1, <2>1, <2>2, AppendProperties
<1>4. rec.section = phase /\ rec.from = reply.size /\ rec.to = reply.size + s
  OBVIOUS
<1>5. \A c \in Section : reply.count[c] = Cardinality(In(old, c))
  BY DEF WireInv, WireSound
<1>6. /\ \A i \in DOMAIN old : i > 1 =>
            old[i].from = old[i - 1].to /\ Rank[old[i - 1].section] <= Rank[old[i].section]
      /\ old # << >> => old[N].to = reply.size
      /\ \A i \in DOMAIN old : Rank[old[i].section] <= Rank[phase]
  BY DEF WireInv, WireSound
<1> HIDE DEF rec, old, new
<1>7. ASSUME NEW c \in Section PROVE reply'.count[c] = Cardinality(In(new, c))
  <2>1. IsFiniteSet(In(old, c))
    <3>1. IsFiniteSet(1..N) /\ In(old, c) \subseteq 1..N
      BY <1>3, FS_Interval
    <3> QED  BY <3>1, FS_Subset
  <2>2. CASE c = phase
    <3>1. In(new, c) = In(old, c) \cup {N + 1} /\ N + 1 \notin In(old, c)
      BY <1>3, <1>4, <2>2
    <3>2. Cardinality(In(new, c)) = Cardinality(In(old, c)) + 1
      <4> HIDE DEF In
      <4> QED  BY <2>1, <3>1, FS_AddElement
    <3> QED  BY <1>1, <1>2, <1>5, <2>2, <3>2
  <2>3. CASE c # phase
    <3>1. In(new, c) = In(old, c)
      BY <1>3, <1>4, <2>3
    <3> QED  BY <1>1, <1>2, <1>5, <2>3, <3>1
  <2> QED  BY <2>2, <2>3
<1>8. ASSUME NEW i \in DOMAIN new PROVE Rank[new[i].section] <= Rank[phase]
  <2>1. Rank[phase] \in Nat
    BY RankFacts
  <2> QED  BY <1>3, <1>4, <1>6, <2>1
<1>9. ASSUME NEW i \in DOMAIN new, i > 1
      PROVE  new[i].from = new[i - 1].to /\ Rank[new[i - 1].section] <= Rank[new[i].section]
  <2>1. CASE i <= N
    <3>1. i \in DOMAIN old /\ i - 1 \in 1..N
      BY <1>3, <1>9, <2>1
    <3> QED  BY <1>3, <1>6, <1>9, <3>1
  <2>2. CASE i = N + 1
    <3>1. i - 1 = N /\ N \in 1..N /\ old # << >>
      BY <1>3, <1>9, <2>2
    <3> QED  BY <1>3, <1>4, <1>6, <2>2, <3>1
  <2> QED  BY <1>3, <2>1, <2>2
<1>10. new[Len(new)].to = reply'.size
  BY <1>1, <1>3, <1>4
<1>11. WireSound'
  <2> HIDE DEF In
  <2>1. \A c \in Section :
          reply'.count[c] = Cardinality({i \in DOMAIN new : new[i].section = c})
    BY <1>7 DEF In
  <2> QED  BY <1>1, <1>9, <1>10, <2>1 DEF WireSound, new
<1> QED  BY <1>1, <1>8, <1>11 DEF new

-----------------------------------------------------------------------------
(* What the steps do to the reply and the work on it, whichever action     *)
(* they belong to.                                                         *)

work == <<reply, asked, questions>>

\* Nothing.
Keeps == UNCHANGED <<phase, todo, work>>
\* The work on the query stops without a reply, or goes astray.
Leaves == phase' \in {"undefined", "silent", "ended"} /\ UNCHANGED work
\* Everything is as before the first query.
Forgets ==
    /\ phase' \in {"receive", "silent", "ended"}
    /\ reply' = EmptyReply("OK", 0, 0)
    /\ questions' = << >>
\* An error is the reply.
Fails ==
    /\ phase' = "send"
    /\ \E rcode \in Rcode \ {"OK"} : reply' = EmptyReply(rcode, 0, HeaderSize)
\* The questions are there to be answered.
Starts ==
    /\ phase' = "answer"
    /\ asked' = << >>
    /\ \E n, size : reply' = EmptyReply("OK", n, size)
    /\ todo' = [i \in DOMAIN questions' |->
                    Look("question", questions'[i].type, questions'[i].name)]
\* All is written, or all there is room for.
Ends ==
    /\ phase \in Section
    /\ phase' = "send"
    /\ reply' \in {reply, [reply EXCEPT !.truncated = TRUE]}
    /\ UNCHANGED <<asked, questions>>
\* A record is written.
Stores ==
    /\ phase \in Section
    /\ todo # << >>
    /\ Head(todo).do = "store"
    /\ \E s \in RecordSize : reply.size + s <= MaxReply /\ reply' = WithRecord(s)
    /\ todo' = Tail(todo)
    /\ UNCHANGED <<phase, asked, questions>>
\* A lookup makes way for the tasks it leads to.
Makes ==
    /\ phase \in Section
    /\ todo # << >>
    /\ Head(todo).do # "store"
    /\ \E tasks \in Seq(Job) :
        /\ tasks # << >> => Head(todo).do \in {"question", "cname"}
        /\ ReasonableFor(tasks, Head(todo).owner)
        /\ todo' = tasks \o Tail(todo)
    /\ UNCHANGED <<phase, questions>>
Follows == Makes /\ UNCHANGED <<reply, asked>>
Answers ==
    /\ Makes
    /\ reply' = [reply EXCEPT !.authoritative = AuthorityAfter(found.tree, found.node)]
    /\ asked' = Append(asked, found)
\* The next section begins.
Moves ==
    /\ <<phase, phase'>> \in {<<"answer", "authority">>, <<"authority", "additional">>}
    /\ UNCHANGED work

StepKind ==
    \/ Keeps \/ Leaves \/ Forgets \/ Fails \/ Starts \/ Ends
    \/ Stores \/ Follows \/ Answers \/ Moves

\* Without tasks of its own a lookup is just gone.
LEMMA SkipMakes ==
    ASSUME TypeInv, phase \in Section, todo # << >>, Head(todo).do # "store",
           todo' = Tail(todo), UNCHANGED <<phase, work>>
    PROVE  Follows
<1>1. << >> \in Seq(Job) /\ ReasonableFor(<< >>, Head(todo).owner)
  BY EmptySeq DEF ReasonableFor
<1>2. Tail(todo) \in Seq(Job)
  BY TodoFacts
<1>3. << >> \o Tail(todo) = Tail(todo)
  BY <1>2
<1> QED  BY <1>1, <1>3 DEF Follows, Makes, work

\* From one section to the next.
LEMMA NextSectionKinds ==
    ASSUME NEW from, NEW to, NEW dangles, NEW tasks,
           <<from, to>> \in {<<"answer", "authority">>, <<"authority", "additional">>},
           NextSection(from, to, dangles, tasks)
    PROVE  Leaves \/ Moves
<1>1. phase = from /\ UNCHANGED questions
  BY DEF NextSection
<1>2. CASE Undefined
  BY <1>1, <1>2 DEF Undefined, Leaves, work
<1>3. CASE phase' = to /\ UNCHANGED <<reply, asked>>
  BY <1>1, <1>3 DEF Moves, work
<1> QED  BY <1>2, <1>3 DEF NextSection

\* A step of the specification is one of these.
LEMMA StepKinds ==
    ASSUME TypeInv, [Next]_vars
    PROVE  StepKind
<1>1. ASSUME NEW q \in Query, Receive(q) PROVE StepKind
  <2>1. CASE q.header = "short"
    <3>1. Forgets
      BY <1>1, <2>1 DEF Receive, Forgets
    <3> QED  BY <3>1 DEF StepKind
  <2>2. CASE q.header # "short" /\ FirstPass(q) # "OK"
    <3>1. Fails
      BY <1>1, <2>2, FirstPassFacts DEF Receive, CreateErrorReply, Finish, Fails
    <3> QED  BY <3>1 DEF StepKind
  <2>3. CASE q.header # "short" /\ FirstPass(q) = "OK"
    <3>1. /\ phase' = "answer" /\ asked' = << >> /\ questions' = Parsed(q)
          /\ \E n, size : reply' = EmptyReply("OK", n, size)
          /\ todo' = [i \in 1..q.count |->
                        Look("question", Parsed(q)[i].type, Parsed(q)[i].name)]
      BY <1>1, <2>3 DEF Receive
    <3>2. DOMAIN questions' = 1..q.count
      BY <3>1 DEF Parsed
    <3>3. Starts
      BY <3>1, <3>2 DEF Starts
    <3> QED  BY <3>3 DEF StepKind
  <2> QED  BY <2>1, <2>2, <2>3
<1>2. CASE Store
  <2>1. /\ phase \in Section /\ todo # << >> /\ Head(todo).do = "store"
        /\ UNCHANGED <<asked, questions>>
    BY <1>2 DEF Store, At
  <2>2. PICK s \in RecordSize :
          \/ /\ reply.size + s > MaxReply
             /\ Finish([reply EXCEPT !.truncated = TRUE])
          \/ /\ reply.size + s <= MaxReply
             /\ reply' = WithRecord(s)
             /\ todo' = Tail(todo)
             /\ UNCHANGED <<phase, found>>
    BY <1>2 DEF Store
  <2>3. CASE Finish([reply EXCEPT !.truncated = TRUE])
    <3>1. Ends
      BY <2>1, <2>3 DEF Finish, Ends
    <3> QED  BY <3>1 DEF StepKind
  <2>4. CASE reply.size + s <= MaxReply /\ reply' = WithRecord(s) /\ todo' = Tail(todo)
             /\ UNCHANGED <<phase, found>>
    <3>1. Stores
      BY <2>1, <2>4 DEF Stores
    <3> QED  BY <3>1 DEF StepKind
  <2> QED  BY <2>2, <2>3, <2>4
<1>3. CASE LookupSearch
  <2>1. Keeps
    BY <1>3 DEF LookupSearch, IsLookup, At, Keeps, work
  <2> QED  BY <2>1 DEF StepKind
<1>4. CASE LookupMiss
  <2>1. /\ phase \in Section /\ todo # << >> /\ Head(todo).do # "store"
        /\ UNCHANGED <<asked, questions>>
    BY <1>4 DEF LookupMiss, IsLookup, At
  <2>2. CASE CreateErrorReply("NAME_ERROR")
    <3>1. Fails
      BY <2>2 DEF CreateErrorReply, Finish, Fails, Rcode
    <3> QED  BY <3>1 DEF StepKind
  <2>3. CASE phase' = "silent" /\ UNCHANGED reply
    <3>1. Leaves
      BY <2>1, <2>3 DEF Leaves, work
    <3> QED  BY <3>1 DEF StepKind
  <2>4. CASE todo' = Skipped /\ UNCHANGED <<phase, reply>>
    <3>1. Follows
      BY <2>1, <2>4, SkipMakes DEF Skipped, work
    <3> QED  BY <3>1 DEF StepKind
  <2> QED  BY <1>4, <2>2, <2>3, <2>4 DEF LookupMiss
<1>5. CASE LookupRaced
  <2>1. Leaves
    BY <1>5 DEF LookupRaced, Undefined, IsLookup, At, Leaves, work
  <2> QED  BY <2>1 DEF StepKind
<1>6. CASE ProcessQuestion
  <2> DEFINE t == found.tree
             n == found.node
             q == Head(todo)
  <2>1. /\ phase \in Section /\ todo # << >> /\ q.do = "question" /\ found # NoRef
        /\ UNCHANGED questions
    BY <1>6 DEF ProcessQuestion, At
  <2>2. CASE Undefined
    <3>1. Leaves
      BY <2>1, <2>2 DEF Undefined, Leaves, work
    <3> QED  BY <3>1 DEF StepKind
  <2>3. CASE CreateErrorReply("SERVER_FAILURE")
    <3>1. Fails
      BY <2>3 DEF CreateErrorReply, Finish, Fails, Rcode
    <3> QED  BY <3>1 DEF StepKind
  <2>4. CASE /\ ~QuestionDangles(t, n, q)
             /\ q.type = "SOA" => GetSoaZone(t, n) # Root
             /\ todo' = QuestionTasks(t, n, q) \o Tail(todo)
             /\ reply' = [reply EXCEPT !.authoritative = AuthorityAfter(t, n)]
             /\ asked' = Append(asked, found)
             /\ UNCHANGED phase
    <3>1. QuestionTasks(t, n, q) \in Seq(Job) /\ ReasonableFor(QuestionTasks(t, n, q), q.owner)
      BY <2>1, <2>4, TodoFacts, FoundFacts, QuestionTasksFacts
    <3>2. Makes
      BY <2>1, <2>4, <3>1 DEF Makes
    <3>3. Answers
      BY <2>4, <3>2 DEF Answers
    <3> QED  BY <3>3 DEF StepKind
  <2> QED  BY <1>6, <2>2, <2>3, <2>4 DEF ProcessQuestion
<1>7. CASE FollowCname
  <2>1. /\ phase \in Section /\ todo # << >> /\ Head(todo).do = "cname"
        /\ todo' = CnameTasks(found.tree, found.node, Head(todo).owner) \o Tail(todo)
        /\ UNCHANGED <<phase, reply, asked, questions>>
    BY <1>7 DEF FollowCname, At
  <2>2. /\ CnameTasks(found.tree, found.node, Head(todo).owner) \in Seq(Job)
        /\ ReasonableFor(CnameTasks(found.tree, found.node, Head(todo).owner), Head(todo).owner)
    BY <2>1, TodoFacts, CnameTasksFacts
  <2>3. Follows
    BY <2>1, <2>2 DEF Follows, Makes
  <2> QED  BY <2>3 DEF StepKind
<1>8. CASE AddServer
  <2>1. Follows
    BY <1>8, SkipMakes DEF AddServer, At, work
  <2> QED  BY <2>1 DEF StepKind
<1>9. CASE BeginAuthority
  <2> DEFINE dangles == \E i \in DOMAIN authZones : AuthDangles(authZones[i])
             tasks == FlattenSeq([i \in DOMAIN authZones |-> AuthTasks(authZones[i])])
  <2>1. NextSection("answer", "authority", dangles, tasks)
    BY <1>9 DEF BeginAuthority
  <2> HIDE DEF dangles, tasks
  <2>2. Leaves \/ Moves
    BY <2>1, NextSectionKinds
  <2> QED  BY <2>2 DEF StepKind
<1>10. CASE BeginAdditional
  <2> DEFINE dangles == \E i \in DOMAIN nsZones : NsDangles(nsZones[i])
             tasks == FlattenSeq([i \in DOMAIN nsZones |-> NsTasks(nsZones[i])])
  <2>1. NextSection("authority", "additional", dangles, tasks)
    BY <1>10 DEF BeginAdditional
  <2> HIDE DEF dangles, tasks
  <2>2. Leaves \/ Moves
    BY <2>1, NextSectionKinds
  <2> QED  BY <2>2 DEF StepKind
<1>11. CASE EndReply
  <2>1. Ends
    BY <1>11 DEF EndReply, Ends, Section
  <2> QED  BY <2>1 DEF StepKind
<1>12. CASE Sent
  <2>1. Forgets
    BY <1>12 DEF Sent, Over, Forgets
  <2> QED  BY <2>1 DEF StepKind
<1>13. CASE EndpointFails
  <2>1. Forgets \/ Leaves
    BY <1>13 DEF EndpointFails, Over, Forgets, Leaves, work
  <2> QED  BY <2>1 DEF StepKind
<1>14. CASE Housekeeping
  <2>1. Keeps
    BY <1>14 DEF Housekeeping, Keeps, work
  <2> QED  BY <2>1 DEF StepKind
<1>15. ASSUME NEW e \in Edit, Commit(e) PROVE StepKind
  <2>1. Keeps
    BY <1>15 DEF Commit, Keeps, work
  <2> QED  BY <2>1 DEF StepKind
<1>16. CASE Stopped \/ UNCHANGED vars
  <2>1. Keeps
    BY <1>16 DEF Stopped, vars, Keeps, work
  <2> QED  BY <2>1 DEF StepKind
<1> QED  BY <1>1, <1>2, <1>3, <1>4, <1>5, <1>6, <1>7, <1>8, <1>9, <1>10, <1>11, <1>12,
            <1>13, <1>14, <1>15, <1>16 DEF Next, Process

-----------------------------------------------------------------------------
(* The reply stays a message.                                              *)

\* Every step keeps it.
LEMMA NextWire ==
    ASSUME TypeInv, WireInv, [Next]_vars
    PROVE  WireInv'
<1> USE DEF WireInv
<1>1. CASE Keeps
  BY <1>1, SameWire DEF Keeps, work
<1>2. CASE Leaves
  BY <1>2, SameWire DEF Leaves, work, Section
<1>3. CASE Forgets
  BY <1>3, EmptyWire DEF Forgets, Section
<1>4. CASE Fails
  <2>1. WireSound'
    BY <1>4, EmptyWire DEF Fails
  <2> QED  BY <1>4, <2>1 DEF Fails, Section
<1>5. CASE Starts
  <2>1. PICK n, size : reply' = EmptyReply("OK", n, size)
    BY <1>5 DEF Starts
  <2>2. WireSound' /\ reply'.records = << >> /\ reply'.rcode = "OK"
    BY <2>1, EmptyWire
  <2> QED  BY <2>2
<1>6. CASE Ends
  <2>1. /\ reply'.records = reply.records /\ reply'.size = reply.size
        /\ reply'.count = reply.count /\ reply'.rcode = reply.rcode
        /\ reply'.questions = reply.questions
    BY <1>6 DEF Ends, TypeInv, Reply
  <2> QED  BY <1>6, <2>1, SameWire DEF Ends, Section
<1>7. CASE Stores
  BY <1>7, AppendWire DEF Stores
<1>8. CASE Follows
  BY <1>8, SameWire DEF Follows, Makes
<1>9. CASE Answers
  <2>1. /\ reply'.records = reply.records /\ reply'.size = reply.size
        /\ reply'.count = reply.count /\ reply'.rcode = reply.rcode
        /\ reply'.questions = reply.questions
    BY <1>9 DEF Answers, TypeInv, Reply
  <2> QED  BY <1>9, <2>1, SameWire DEF Answers, Makes
<1>10. CASE Moves
  <2>1. /\ phase \in Section /\ phase' \in Section /\ Rank[phase] <= Rank[phase']
        /\ Rank[phase] \in Nat /\ Rank[phase'] \in Nat /\ UNCHANGED reply
    BY <1>10, RankFacts DEF Moves, Section, work
  <2>2. \A i \in DOMAIN reply.records : Rank[reply.records[i].section] \in Nat
    <3>1. reply.records \in Seq(Record)
      BY DEF TypeInv, Reply
    <3>2. DOMAIN reply.records = 1..Len(reply.records)
      BY <3>1, LenProperties
    <3>3. \A i \in DOMAIN reply.records : reply.records[i] \in Record
      BY <3>1, <3>2, ElementOfSeq
    <3>4. \A i \in DOMAIN reply.records : reply.records[i].section \in Section
      BY <3>3 DEF Record
    <3> QED  BY <3>4, RankFacts
  <2>3. \A i \in DOMAIN reply.records : Rank[reply.records[i].section] <= Rank[phase']
    BY <2>1, <2>2
  <2> QED  BY <2>1, <2>3, SameWire
<1> QED
  BY <1>1, <1>2, <1>3, <1>4, <1>5, <1>6, <1>7, <1>8, <1>9, <1>10, StepKinds DEF StepKind

-----------------------------------------------------------------------------
(* Authority is earned, question by question.                              *)

\* Every step keeps it.
LEMMA NextAuthority ==
    ASSUME TypeInv, WireInv, AuthorityIsEarned, [Next]_vars
    PROVE  AuthorityIsEarned'
<1> USE DEF AuthorityIsEarned
<1>1. CASE Keeps
  BY <1>1 DEF Keeps, work, Owned
<1>2. CASE Leaves \/ Forgets
  BY <1>2 DEF Leaves, Forgets, Section
<1>3. CASE Fails
  BY <1>3 DEF Fails, EmptyReply
<1>4. CASE Starts
  <2>1. PICK n, size : reply' = EmptyReply("OK", n, size)
    BY <1>4 DEF Starts
  <2>2. reply'.authoritative
    BY <2>1 DEF EmptyReply
  <2>3. DOMAIN asked' = {}
    BY <1>4 DEF Starts
  <2> QED  BY <2>2, <2>3
<1>5. CASE Ends
  <2>1. reply'.authoritative = reply.authoritative /\ reply.rcode = "OK" /\ asked' = asked
    BY <1>5 DEF Ends, TypeInv, Reply, WireInv
  <2> QED  BY <1>5, <2>1 DEF Ends, Owned
<1>6. CASE Stores
  <2>1. reply'.authoritative = reply.authoritative /\ reply.rcode = "OK" /\ asked' = asked
    BY <1>6, WithRecordType DEF Stores, WireInv
  <2> QED  BY <1>6, <2>1 DEF Stores, Owned
<1>7. CASE Follows
  BY <1>7 DEF Follows, Makes, Owned
<1>8. CASE Answers
  <2>1. /\ phase \in Section /\ reply.rcode = "OK" /\ asked' = Append(asked, found)
        /\ asked \in Seq(Ref)
    BY <1>8 DEF Answers, Makes, WireInv, TypeInv
  <2>2. reply'.authoritative <=> reply.authoritative /\ Owned(found)
    BY <1>8 DEF Answers, TypeInv, Reply, AuthorityAfter, Owned
  <2>3. reply.authoritative <=> \A i \in DOMAIN asked : Owned(asked[i])
    BY <2>1
  <2>4. /\ Len(asked) \in Nat /\ DOMAIN asked = 1..Len(asked)
        /\ DOMAIN asked' = 1..(Len(asked) + 1)
        /\ \A i \in 1..Len(asked) : asked'[i] = asked[i]
        /\ asked'[Len(asked) + 1] = found
    <3>1. asked \in Seq(Ref \cup {found}) /\ found \in Ref \cup {found}
      BY <2>1
    <3> QED  BY <2>1, <3>1, AppendProperties, LenProperties
  <2>5. (\A i \in DOMAIN asked' : Owned(asked'[i])) <=>
            (\A i \in DOMAIN asked : Owned(asked[i])) /\ Owned(found)
    BY <2>4
  <2>6. reply'.authoritative <=> \A i \in DOMAIN asked' : Owned(asked'[i])
    BY <2>2, <2>3, <2>5
  <2> QED  BY <2>6 DEF Owned
<1>9. CASE Moves
  BY <1>9 DEF Moves, WireInv, Section, Owned, work
<1> QED
  BY <1>1, <1>2, <1>3, <1>4, <1>5, <1>6, <1>7, <1>8, <1>9, StepKinds DEF StepKind

-----------------------------------------------------------------------------
(* Addresses have a reason.                                                *)

\* The name is one of those that were asked for, or the target of a cname in the records.
Known(asks, recs, name) ==
    \/ \E i \in DOMAIN asks : asks[i].name = name
    \/ \E i \in DOMAIN recs : recs[i].type = "CNAME" /\ recs[i].data = name

\* In the answer section, whatever leads to addresses is for a known name or comes
\* after the cname that is to make it known.
Planned ==
    \A j \in DOMAIN todo : NeedsReason(todo[j]) =>
        \/ Known(questions, reply.records, todo[j].owner)
        \/ \E i \in 1..(j - 1) : IsAlias(todo[i], todo[j].owner)

CnameInv == AddressesFollowCname /\ (phase = "answer" => Planned)

\* A lookup that makes way for reasonable tasks.
LEMMA MakesPlanned ==
    ASSUME TypeInv, Planned, Makes, reply'.records = reply.records
    PROVE  Planned'
<1>1. PICK tasks \in Seq(Job) :
        /\ tasks # << >> => Head(todo).do \in {"question", "cname"}
        /\ ReasonableFor(tasks, Head(todo).owner)
        /\ todo' = tasks \o Tail(todo)
  BY DEF Makes
<1> DEFINE N == Len(tasks)
           M == Len(todo)
<1>2. todo \in Seq(Job) /\ todo # << >> /\ Head(todo).do # "store" /\ questions' = questions
  BY DEF TypeInv, Makes
<1>3. /\ N \in Nat /\ DOMAIN tasks = 1..N /\ M \in Nat \ {0} /\ DOMAIN todo = 1..M
      /\ Tail(todo) \in Seq(Job) /\ Len(Tail(todo)) = M - 1
      /\ Head(todo) = todo[1]
      /\ \A i \in 1..(M - 1) : Tail(todo)[i] = todo[i + 1]
  <2>1. Tail(todo) \in Seq(Job) /\ Len(Tail(todo)) = M - 1
        /\ \A i \in 1..(M - 1) : Tail(todo)[i] = todo[i + 1]
    BY <1>2, HeadTailProperties
  <2>2. Head(todo) = todo[1]
    BY <1>2
  <2> QED  BY <1>1, <1>2, <2>1, <2>2, LenProperties, EmptySeq
<1>4. /\ DOMAIN todo' = 1..(N + M - 1)
      /\ \A i \in 1..N : todo'[i] = tasks[i]
      /\ \A i \in (N + 1)..(N + M - 1) : todo'[i] = todo[i - N + 1]
  <2>1. /\ todo' \in Seq(Job) /\ Len(todo') = N + M - 1
        /\ \A i \in 1..(N + M - 1) :
             todo'[i] = IF i <= N THEN tasks[i] ELSE Tail(todo)[i - N]
    BY <1>1, <1>3, ConcatProperties
  <2>2. DOMAIN todo' = 1..(N + M - 1)
    BY <2>1, LenProperties
  <2> QED  BY <1>3, <2>1, <2>2
<1>5. questions' = questions /\ reply'.records = reply.records
  BY <1>2
<1>6. tasks # << >> => Known(questions, reply.records, Head(todo).owner)
  <2>1. tasks # << >> => NeedsReason(todo[1])
    BY <1>1, <1>3 DEF NeedsReason
  <2>2. 1 \in DOMAIN todo /\ 1..(1 - 1) = {}
    BY <1>3
  <2> QED  BY <1>3, <2>1, <2>2 DEF Planned
<1>7. ASSUME NEW j \in DOMAIN todo', NeedsReason(todo'[j])
      PROVE  \/ Known(questions, reply.records, todo'[j].owner)
             \/ \E i \in 1..(j - 1) : IsAlias(todo'[i], todo'[j].owner)
  <2>1. CASE j <= N
    <3>1. j \in 1..N /\ todo'[j] = tasks[j]
      BY <1>3, <1>4, <2>1
    <3>2. \/ tasks[j].owner = Head(todo).owner
          \/ \E i \in 1..(j - 1) : IsAlias(tasks[i], tasks[j].owner)
      BY <1>1, <1>3, <1>7, <3>1 DEF ReasonableFor
    <3>3. CASE tasks[j].owner = Head(todo).owner
      <4>1. tasks # << >>
        BY <1>3, <3>1
      <4> QED  BY <1>6, <3>1, <3>3, <4>1
    <3>4. CASE \E i \in 1..(j - 1) : IsAlias(tasks[i], tasks[j].owner)
      <4>1. PICK i \in 1..(j - 1) : IsAlias(tasks[i], tasks[j].owner)
        BY <3>4
      <4>2. todo'[i] = tasks[i]
        BY <1>3, <1>4, <3>1
      <4> QED  BY <3>1, <4>1, <4>2
    <3> QED  BY <3>2, <3>3, <3>4
  <2>2. CASE j > N
    <3> DEFINE k == j - N + 1
    <3>1. k \in 2..M /\ todo'[j] = todo[k] /\ j \in 1..(N + M - 1)
      BY <1>3, <1>4, <2>2
    <3>2. \/ Known(questions, reply.records, todo[k].owner)
          \/ \E i \in 1..(k - 1) : IsAlias(todo[i], todo[k].owner)
      BY <1>3, <1>7, <3>1 DEF Planned
    <3>3. ASSUME NEW i \in 1..(k - 1), IsAlias(todo[i], todo[k].owner)
          PROVE  \E h \in 1..(j - 1) : IsAlias(todo'[h], todo'[j].owner)
      <4>1. i # 1
        BY <1>2, <1>3, <3>3 DEF IsAlias
      <4>2. /\ i + N - 1 \in 1..(j - 1) /\ i + N - 1 \in (N + 1)..(N + M - 1)
            /\ (i + N - 1) - N + 1 = i
        BY <1>3, <3>1, <4>1
      <4>3. todo'[i + N - 1] = todo[i]
        BY <1>4, <4>2
      <4> QED  BY <3>1, <3>3, <4>2, <4>3
    <3> QED  BY <3>1, <3>2, <3>3
  <2> QED  BY <1>3, <1>4, <2>1, <2>2
<1>8. \A j \in DOMAIN todo' : NeedsReason(todo'[j]) =>
        \/ Known(questions', reply'.records, todo'[j].owner)
        \/ \E i \in 1..(j - 1) : IsAlias(todo'[i], todo'[j].owner)
  BY <1>5, <1>7
<1> QED  BY <1>8 DEF Planned

\* A record is written: an alias becomes known, an address has its reason before it.
LEMMA StoresCname ==
    ASSUME TypeInv, CnameInv, Stores
    PROVE  CnameInv'
<1>1. PICK s \in RecordSize : reply.size + s <= MaxReply /\ reply' = WithRecord(s)
  BY DEF Stores
<1> DEFINE rec == [section |-> phase, type |-> Head(todo).type,
                   owner |-> Head(todo).owner, data |-> Head(todo).data,
                   from |-> reply.size, to |-> reply.size + s]
           old == reply.records
           new == reply'.records
           N == Len(old)
           M == Len(todo)
<1>2. /\ todo \in Seq(Job) /\ todo # << >> /\ Head(todo).do = "store" /\ phase \in Section
      /\ todo' = Tail(todo) /\ questions' = questions /\ phase' = phase
  BY DEF TypeInv, Stores
<1>3. new = Append(old, rec)
  BY <1>1, <1>2, WithRecordType
<1>4. old \in Seq(Record)
  BY DEF TypeInv, Reply
<1>5. /\ N \in Nat /\ DOMAIN old = 1..N /\ DOMAIN new = 1..(N + 1)
      /\ \A i \in 1..N : new[i] = old[i]
      /\ new[N + 1] = rec
  <2>1. N \in Nat /\ DOMAIN old = 1..N
    BY <1>4, LenProperties
  <2> HIDE DEF rec, old, new
  <2>2. old \in Seq(Record \cup {rec}) /\ rec \in Record \cup {rec}
    BY <1>4
  <2> QED  BY <1>3, <2>1, <2>2, AppendProperties
<1>6. /\ M \in Nat \ {0} /\ DOMAIN todo = 1..M /\ DOMAIN todo' = 1..(M - 1)
      /\ \A i \in 1..(M - 1) : todo'[i] = todo[i + 1]
      /\ Head(todo) = todo[1]
  <2>1. Tail(todo) \in Seq(Job) /\ Len(Tail(todo)) = M - 1
        /\ \A i \in 1..(M - 1) : Tail(todo)[i] = todo[i + 1]
    BY <1>2, HeadTailProperties
  <2>2. Head(todo) = todo[1]
    BY <1>2
  <2> QED  BY <1>2, <2>1, <2>2, LenProperties, EmptySeq
<1>7. /\ rec.section = phase /\ rec.type = Head(todo).type /\ rec.owner = Head(todo).owner
      /\ rec.data = Head(todo).data
  OBVIOUS
<1>8. \A j \in DOMAIN old :
        old[j].section = "answer" /\ old[j].type \in {"A", "AAAA"} =>
            \/ \E i \in DOMAIN questions : questions[i].name = old[j].owner
            \/ \E i \in 1..(j - 1) : old[i].type = "CNAME" /\ old[i].data = old[j].owner
  BY DEF CnameInv, AddressesFollowCname
<1>9. phase = "answer" => \A j \in DOMAIN todo : NeedsReason(todo[j]) =>
        \/ Known(questions, old, todo[j].owner)
        \/ \E i \in 1..(j - 1) : IsAlias(todo[i], todo[j].owner)
  BY DEF CnameInv, Planned
<1> HIDE DEF rec, old, new
<1>10. ASSUME NEW j \in DOMAIN new, new[j].section = "answer", new[j].type \in {"A", "AAAA"}
       PROVE  \/ \E i \in DOMAIN questions : questions[i].name = new[j].owner
              \/ \E i \in 1..(j - 1) : new[i].type = "CNAME" /\ new[i].data = new[j].owner
  <2>1. CASE j \in 1..N
    <3>1. new[j] = old[j] /\ j \in DOMAIN old /\ \A i \in 1..(j - 1) : new[i] = old[i]
      BY <1>5, <2>1
    <3> QED  BY <1>8, <1>10, <3>1
  <2>2. CASE j = N + 1
    <3>1. phase = "answer" /\ NeedsReason(todo[1]) /\ new[j].owner = todo[1].owner
      BY <1>2, <1>5, <1>6, <1>7, <1>10, <2>2 DEF NeedsReason
    <3>2. Known(questions, old, todo[1].owner)
      <4>1. 1 \in DOMAIN todo /\ 1..(1 - 1) = {}
        BY <1>6
      <4> QED  BY <1>9, <3>1, <4>1
    <3>3. DOMAIN old = 1..(j - 1) /\ \A i \in 1..(j - 1) : new[i] = old[i]
      BY <1>5, <2>2
    <3> QED  BY <3>1, <3>2, <3>3 DEF Known
  <2> QED  BY <1>5, <2>1, <2>2
<1>11. AddressesFollowCname'
  BY <1>2, <1>10 DEF AddressesFollowCname, new
<1>12. ASSUME phase = "answer", NEW j \in DOMAIN todo', NeedsReason(todo'[j])
       PROVE  \/ Known(questions, new, todo'[j].owner)
              \/ \E i \in 1..(j - 1) : IsAlias(todo'[i], todo'[j].owner)
  <2>1. j \in 1..(M - 1) /\ todo'[j] = todo[j + 1] /\ j + 1 \in DOMAIN todo
    BY <1>6
  <2>2. \/ Known(questions, old, todo[j + 1].owner)
        \/ \E i \in 1..j : IsAlias(todo[i], todo[j + 1].owner)
    <3>1. (j + 1) - 1 = j
      BY <1>6
    <3> QED  BY <1>9, <1>12, <2>1, <3>1
  <2>3. CASE Known(questions, old, todo[j + 1].owner)
    BY <1>5, <2>1, <2>3 DEF Known
  <2>4. ASSUME NEW i \in 1..j, IsAlias(todo[i], todo[j + 1].owner)
        PROVE  \/ Known(questions, new, todo'[j].owner)
               \/ \E h \in 1..(j - 1) : IsAlias(todo'[h], todo'[j].owner)
    <3>1. CASE i = 1
      <4>1. rec.type = "CNAME" /\ rec.data = todo'[j].owner
        BY <1>6, <1>7, <2>1, <2>4, <3>1 DEF IsAlias
      <4>2. N + 1 \in DOMAIN new /\ new[N + 1] = rec
        BY <1>5
      <4> QED  BY <4>1, <4>2 DEF Known
    <3>2. CASE i # 1
      <4>1. i - 1 \in 1..(j - 1) /\ todo'[i - 1] = todo[i]
        BY <1>6, <2>1, <3>2
      <4> QED  BY <2>1, <2>4, <4>1
    <3> QED  BY <3>1, <3>2
  <2> QED  BY <2>2, <2>3, <2>4
<1>13. phase' = "answer" => Planned'
  BY <1>2, <1>12 DEF Planned, new
<1> QED  BY <1>11, <1>13 DEF CnameInv

\* The records and the questions stay, and what is planned of the answers is
\* reasonable.
LEMMA SameCname ==
    ASSUME CnameInv, questions' = questions, reply'.records = reply.records,
           phase' = "answer" => Planned'
    PROVE  CnameInv'
<1>1. AddressesFollowCname'
  BY DEF CnameInv, AddressesFollowCname
<1> QED  BY <1>1 DEF CnameInv

\* A reply without records.
LEMMA EmptyCname ==
    ASSUME reply'.records = << >>, phase' = "answer" => Planned'
    PROVE  CnameInv'
<1>1. AddressesFollowCname'
  BY DEF AddressesFollowCname
<1> QED  BY <1>1 DEF CnameInv

\* Addresses have a reason after every step.
LEMMA NextCname ==
    ASSUME TypeInv, CnameInv, [Next]_vars
    PROVE  CnameInv'
<1>1. CASE Keeps
  <2>1. phase' = "answer" => Planned'
    BY <1>1 DEF Keeps, work, CnameInv, Planned
  <2> QED  BY <1>1, <2>1, SameCname DEF Keeps, work
<1>2. CASE Leaves
  BY <1>2, SameCname DEF Leaves, work
<1>3. CASE Forgets
  BY <1>3, EmptyCname DEF Forgets, EmptyReply
<1>4. CASE Fails
  <2>1. reply'.records = << >>
    BY <1>4 DEF Fails, EmptyReply
  <2> QED  BY <1>4, <2>1, EmptyCname DEF Fails
<1>5. CASE Starts
  <2>1. reply'.records = << >>
    BY <1>5 DEF Starts, EmptyReply
  <2>2. \A j \in DOMAIN todo' : Known(questions', reply'.records, todo'[j].owner)
    BY <1>5 DEF Starts, Look, Known
  <2>3. Planned'
    BY <2>2 DEF Planned
  <2> QED  BY <2>1, <2>3, EmptyCname
<1>6. CASE Ends
  <2>1. reply'.records = reply.records
    BY <1>6 DEF Ends, TypeInv, Reply
  <2> QED  BY <1>6, <2>1, SameCname DEF Ends
<1>7. CASE Stores
  BY <1>7, StoresCname
<1>8. ASSUME Makes, reply'.records = reply.records PROVE CnameInv'
  <2>1. phase' = phase /\ questions' = questions
    BY <1>8 DEF Makes
  <2>2. phase' = "answer" => Planned'
    BY <1>8, <2>1, MakesPlanned DEF CnameInv
  <2> QED  BY <1>8, <2>1, <2>2, SameCname
<1>9. CASE Follows
  BY <1>8, <1>9 DEF Follows
<1>10. CASE Answers
  <2>1. reply'.records = reply.records
    BY <1>10 DEF Answers, TypeInv, Reply
  <2> QED  BY <1>8, <1>10, <2>1 DEF Answers
<1>11. CASE Moves
  BY <1>11, SameCname DEF Moves, work
<1> QED
  BY <1>1, <1>2, <1>3, <1>4, <1>5, <1>6, <1>7, <1>9, <1>10, <1>11, StepKinds
  DEF StepKind

-----------------------------------------------------------------------------
(* Every datagram is counted once.                                         *)

\* The number of requests in s that came to an end.
Ended(s) == s.ok_requests + s.failed_requests + s.bad_requests

Busy == Section \cup {"send", "silent"}
Idle == {"receive", "ended"}

\* While a datagram is being worked on, it is not counted yet; one that was counted
\* again after the statistics were set back stays ahead.
CountInv ==
    /\ phase \in Busy =>
        /\ Ended(stats) \in (stats.udp_connections - 1)..stats.udp_connections
        /\ resets = 0 => Ended(stats) + 1 = queries /\ stats.udp_connections = queries
    /\ phase \in Idle =>
        /\ Ended(stats) \in stats.udp_connections..(stats.udp_connections + 1)
        /\ resets = 0 => Ended(stats) = queries /\ stats.udp_connections = queries

\* What is busy is not idle.
LEMMA PhasesDiffer ==
    /\ Section \subseteq Busy /\ "send" \in Busy /\ "silent" \in Busy
    /\ \A p \in Busy : p \notin Idle /\ p # "receive" /\ p # "ended" /\ p # "undefined"
    /\ "receive" \in Idle /\ "ended" \in Idle
    /\ "undefined" \notin Busy /\ "undefined" \notin Idle
BY DEF Busy, Idle, Section

\* Nothing that is counted happens, and the endpoint does not start or end its work.
LEMMA SameCount ==
    ASSUME CountInv, Ended(stats') = Ended(stats),
           stats'.udp_connections = stats.udp_connections,
           UNCHANGED <<queries, resets>>,
           \/ phase' = "undefined"
           \/ phase \in Busy /\ phase' \in Busy
           \/ phase \in Idle /\ phase' \in Idle
           \/ phase' = phase
    PROVE  CountInv'
BY PhasesDiffer DEF CountInv

\* A datagram arrives.
LEMMA ReceiveCount ==
    ASSUME TypeInv, CountInv, NEW q \in Query, Receive(q)
    PROVE  CountInv'
<1>1. /\ phase = "receive" /\ queries' = queries + 1 /\ resets' = resets
      /\ stats' = [stats EXCEPT !.udp_connections = @ + 1]
  BY DEF Receive
<1>2. phase' \in Busy
  <2>1. phase' = "silent" \/ CreateErrorReply(FirstPass(q)) \/ phase' = "answer"
    BY DEF Receive
  <2>2. CreateErrorReply(FirstPass(q)) => phase' = "send"
    BY DEF CreateErrorReply, Finish
  <2> QED  BY <2>1, <2>2 DEF Busy, Section
<1>3. /\ stats'.udp_connections = stats.udp_connections + 1
      /\ Ended(stats') = Ended(stats)
      /\ Ended(stats) \in Nat /\ stats.udp_connections \in Nat /\ queries \in Nat
  <2>1. stats \in Stats
    BY DEF TypeInv
  <2>2. queries \in Nat
    BY BoundAssumption DEF TypeInv
  <2> QED  BY <1>1, <2>1, <2>2 DEF Stats, Ended
<1>4. /\ Ended(stats) \in stats.udp_connections..(stats.udp_connections + 1)
      /\ resets = 0 => Ended(stats) = queries /\ stats.udp_connections = queries
  BY <1>1, PhasesDiffer DEF CountInv
<1>5. /\ Ended(stats') \in (stats'.udp_connections - 1)..stats'.udp_connections
      /\ resets' = 0 => Ended(stats') + 1 = queries' /\ stats'.udp_connections = queries'
  BY <1>1, <1>3, <1>4
<1> QED  BY <1>2, <1>5, PhasesDiffer DEF CountInv

\* The work on a datagram is over: it is counted now.
LEMMA OverCount ==
    ASSUME TypeInv, CountInv, phase \in Busy,
           NEW next \in Idle, NEW state \in {"SUCESS", "UNSET", "BAD"}, Over(next, state)
    PROVE  CountInv'
<1>1. /\ phase' = next /\ queries' = queries /\ resets' = resets
      /\ stats' = Counted(state)
  BY DEF Over
<1>2. /\ stats'.udp_connections = stats.udp_connections
      /\ Ended(stats') = Ended(stats) + 1
      /\ Ended(stats) \in Nat /\ stats.udp_connections \in Nat /\ queries \in Nat
  <2>1. stats \in Stats
    BY DEF TypeInv
  <2>2. Ended(stats) \in Nat /\ stats.udp_connections \in Nat
    BY <2>1 DEF Stats, Ended
  <2>3. queries \in Nat
    BY BoundAssumption DEF TypeInv
  <2> QED  BY <1>1, <2>1, <2>2, <2>3, CountedFacts DEF Ended
<1>3. /\ Ended(stats) \in (stats.udp_connections - 1)..stats.udp_connections
      /\ resets = 0 => Ended(stats) + 1 = queries /\ stats.udp_connections = queries
  BY DEF CountInv
<1>4. /\ Ended(stats') \in stats'.udp_connections..(stats'.udp_connections + 1)
      /\ resets' = 0 => Ended(stats') = queries' /\ stats'.udp_connections = queries'
  BY <1>1, <1>2, <1>3
<1> QED  BY <1>1, <1>4, PhasesDiffer DEF CountInv

\* The statistics are set back.
LEMMA HousekeepingCount ==
    ASSUME TypeInv, Housekeeping
    PROVE  CountInv'
<1>1. /\ stats' = NoStats /\ resets' = resets + 1 /\ resets \in Nat
  BY BoundAssumption DEF Housekeeping, TypeInv
<1>2. /\ Ended(stats') = 0 /\ stats'.udp_connections = 0 /\ resets' # 0
  BY <1>1 DEF NoStats, Ended
<1> QED  BY <1>2 DEF CountInv

\* The count is right after every step.
LEMMA NextCount ==
    ASSUME TypeInv, CountInv, [Next]_vars
    PROVE  CountInv'
<1>1. ASSUME UNCHANGED <<stats, queries, resets>>,
             \/ phase' = "undefined"
             \/ phase \in Section /\ phase' \in Busy
             \/ phase' = phase
      PROVE  CountInv'
  BY <1>1, SameCount, PhasesDiffer
<1>2. CASE \E q \in Query : Receive(q)
  BY <1>2, ReceiveCount
<1>3. CASE Store
  BY <1>1, <1>3, PhasesDiffer DEF Store, At, Finish
<1>4. CASE LookupSearch
  BY <1>1, <1>4 DEF LookupSearch, IsLookup, At
<1>5. CASE LookupMiss
  <2>1. phase \in Section /\ UNCHANGED <<queries, resets>>
    BY <1>5 DEF LookupMiss, IsLookup, At
  <2>2. phase' \in Busy
    <3>1. CreateErrorReply("NAME_ERROR") \/ phase' = "silent" \/ phase' = phase
      BY <1>5 DEF LookupMiss
    <3>2. CreateErrorReply("NAME_ERROR") => phase' = "send"
      BY DEF CreateErrorReply, Finish
    <3> QED  BY <2>1, <3>1, <3>2, PhasesDiffer
  <2>3. /\ Ended(stats') = Ended(stats)
        /\ stats'.udp_connections = stats.udp_connections
    <3>1. \/ stats' = [stats EXCEPT !.unknown_names = @ + 1]
          \/ stats' = [stats EXCEPT !.unknown_names = @ + 2]
          \/ stats' = stats
      BY <1>5 DEF LookupMiss
    <3>2. stats \in Stats
      BY DEF TypeInv
    <3> QED  BY <3>1, <3>2 DEF Ended, Stats
  <2> QED  BY <2>1, <2>2, <2>3, SameCount, PhasesDiffer
<1>6. CASE LookupRaced
  BY <1>1, <1>6 DEF LookupRaced, IsLookup, At, Undefined
<1>7. CASE ProcessQuestion
  <2>1. phase \in Section /\ UNCHANGED <<stats, queries, resets>>
    BY <1>7 DEF ProcessQuestion, At
  <2>2. phase' \in {"undefined", "send", phase}
    BY <1>7 DEF ProcessQuestion, Undefined, CreateErrorReply, Finish
  <2> QED  BY <1>1, <2>1, <2>2, PhasesDiffer
<1>8. CASE FollowCname
  BY <1>1, <1>8 DEF FollowCname, At
<1>9. CASE AddServer
  BY <1>1, <1>9 DEF AddServer, At
<1>10. ASSUME NEW from, NEW to, NEW dangles, NEW tasks,
              from \in Section, to \in Section, NextSection(from, to, dangles, tasks)
       PROVE  CountInv'
  BY <1>1, <1>10, PhasesDiffer DEF NextSection, Undefined, counters
<1>11. CASE BeginAuthority
  <2> DEFINE dangles == \E i \in DOMAIN authZones : AuthDangles(authZones[i])
             tasks == FlattenSeq([i \in DOMAIN authZones |-> AuthTasks(authZones[i])])
  <2>1. NextSection("answer", "authority", dangles, tasks)
    BY <1>11 DEF BeginAuthority
  <2> HIDE DEF dangles, tasks
  <2> QED  BY <1>10, <2>1 DEF Section
<1>12. CASE BeginAdditional
  <2> DEFINE dangles == \E i \in DOMAIN nsZones : NsDangles(nsZones[i])
             tasks == FlattenSeq([i \in DOMAIN nsZones |-> NsTasks(nsZones[i])])
  <2>1. NextSection("authority", "additional", dangles, tasks)
    BY <1>12 DEF BeginAdditional
  <2> HIDE DEF dangles, tasks
  <2> QED  BY <1>10, <2>1 DEF Section
<1>13. CASE EndReply
  BY <1>1, <1>13, PhasesDiffer DEF EndReply, Section, counters
<1>14. CASE Sent
  <2>1. outcome \in {"SUCESS", "UNSET", "BAD"}
    BY DEF TypeInv
  <2> QED  BY <1>14, <2>1, OverCount, PhasesDiffer DEF Sent
<1>15. CASE EndpointFails
  <2>1. outcome \in {"SUCESS", "UNSET", "BAD"}
    BY DEF TypeInv
  <2>2. CASE phase = "send" /\ Over("ended", outcome)
    BY <2>1, <2>2, OverCount, PhasesDiffer
  <2>3. CASE phase = "receive" /\ phase' = "ended" /\ UNCHANGED <<queries, counters>>
    BY <2>3, SameCount, PhasesDiffer DEF counters
  <2> QED  BY <1>15, <2>2, <2>3 DEF EndpointFails
<1>16. CASE Housekeeping
  BY <1>16, HousekeepingCount
<1>17. CASE \E e \in Edit : Commit(e)
  BY <1>1, <1>17 DEF Commit, counters
<1>18. CASE Stopped \/ UNCHANGED vars
  BY <1>1, <1>18 DEF Stopped, vars
<1> QED
  BY <1>2, <1>3, <1>4, <1>5, <1>6, <1>7, <1>8, <1>9, <1>11, <1>12, <1>13, <1>14, <1>15,
     <1>16, <1>17, <1>18
  DEF Next, Process

-----------------------------------------------------------------------------
(* The theorems.                                                           *)

IInv == TypeInv /\ WireInv /\ AuthorityIsEarned /\ CnameInv /\ CountInv

\* It holds before the first query.
LEMMA InitInv ==
    Init => IInv
<1> SUFFICES ASSUME Init PROVE IInv
  OBVIOUS
<1>1. TypeInv
  BY InitTypes
<1>2. /\ reply = EmptyReply("OK", 0, 0) /\ phase \in {"receive", "undefined"}
      /\ stats = NoStats /\ resets = 0 /\ queries = 0
  BY DEF Init
<1>3. reply.records = << >> /\ reply.rcode = "OK" /\ reply.count = [s \in Section |-> 0]
  BY <1>2 DEF EmptyReply
<1>4. WireSound
  <2>1. \A s \in Section : {i \in DOMAIN reply.records : reply.records[i].section = s} = {}
    BY <1>3
  <2>2. Cardinality({}) = 0
    BY FS_EmptySet
  <2> QED  BY <1>3, <2>1, <2>2 DEF WireSound
<1>5. WireInv
  BY <1>2, <1>3, <1>4 DEF WireInv, Section
<1>6. AuthorityIsEarned
  BY <1>2 DEF AuthorityIsEarned, Section
<1>7. CnameInv
  BY <1>2, <1>3 DEF CnameInv, AddressesFollowCname
<1>8. CountInv
  <2>1. Ended(stats) = 0 /\ stats.udp_connections = 0 /\ phase \notin Busy
    BY <1>2, PhasesDiffer DEF Ended, NoStats
  <2> QED  BY <1>2, <2>1 DEF CountInv
<1> QED  BY <1>1, <1>5, <1>6, <1>7, <1>8 DEF IInv

\* Every step keeps it.
LEMMA NextInv ==
    IInv /\ [Next]_vars => IInv'
BY NextTypes, NextWire, NextAuthority, NextCname, NextCount DEF IInv

\* The inductive invariant: the trees in use are well formed and their parent pointers
\* lead upwards, the buffer is a message, authority is that of the zones that were
\* asked, every planned address has a reason, and the count is that of the datagrams
\* that came to an end.
THEOREM DaemonInvariance == Spec => []IInv
<1>1. Init => IInv
  BY InitInv
<1>2. IInv /\ [Next]_vars => IInv'
  BY NextInv
<1> QED  BY <1>1, <1>2, PTL DEF Spec

\* The endpoint's variables have their types and the reply never outgrows
\* max_reply_buffer_, for every zone file, every set of changes and of queries.
THEOREM DaemonTypes == Spec => []TypeOK
<1>1. IInv => TypeOK
  BY TypeInvImplies DEF IInv
<1> QED  BY <1>1, DaemonInvariance, PTL

\* The reply buffer always is a message whose header counts what is there, a record
\* that was taken back included (Store, Revert).
THEOREM ReplyIsMessage == Spec => []WireSound
<1>1. IInv => WireSound
  BY DEF IInv, WireInv
<1> QED  BY <1>1, DaemonInvariance, PTL

\* The authoritative flag is exactly what the zones that were asked give, whatever is
\* committed between two questions (ProcessQuestion).
THEOREM AuthorityEarned == Spec => []AuthorityIsEarned
<1>1. IInv => AuthorityIsEarned
  BY DEF IInv
<1> QED  BY <1>1, DaemonInvariance, PTL

\* No address is in the answers without its name being asked for or the target of a
\* cname before it, whatever is committed between the lookups (StoreCname).
THEOREM AddressesHaveReason == Spec => []AddressesFollowCname
<1>1. IInv => AddressesFollowCname
  BY DEF IInv, CnameInv
<1> QED  BY <1>1, DaemonInvariance, PTL

\* Every datagram is counted once, and at most once more after the statistics were
\* set back (RequestStats, UpdateStats).
THEOREM DatagramsCounted == Spec => []RequestsCounted
<1>1. IInv => RequestsCounted
  BY PhasesDiffer DEF IInv, CountInv, RequestsCounted, Ended, Idle
<1> QED  BY <1>1, DaemonInvariance, PTL
=============================================================================
