------------------------------ MODULE ZoneTree ------------------------------
(***************************************************************************)
(* The tree of zones that ZoneMgrJson serves, and the algorithms that read *)
(* and edit one private copy of it: Search, CreateZone's walk, Update's    *)
(* assign, Delete's erase, IncrementSerial, and the parent pointers.       *)
(*                                                                         *)
(* A domain name is the sequence of its labels in lookup order, the order  *)
(* in which Search consumes a key: www.example.com is                      *)
(* <<"com", "example", "www">>.  Siblings have different labels, so a node *)
(* is identified by its name.  Everything that happens here happens on a   *)
(* copy that one thread owns; ZoneMgrJson.tla adds threads and the disk.   *)
(***************************************************************************)
EXTENDS Naturals, SequencesExt

CONSTANTS
    Label,      \* host labels
    Name,       \* the domain names of the instance
    Value,      \* contents of a record list or string; their detail is irrelevant
    NoZone,     \* marks a name with no node
    NoSoa,      \* std::optional<Soa> without a value
    Dangling,   \* a parent pointer into memory the node no longer occupies
    SerialMod   \* serials are uint32_t: 2^32 in the code

Root == << >>   \* the top level; as a pointer, nullptr
Parent(n) == Front(n)

ASSUME NameAssumption ==
    /\ Name \subseteq Seq(Label) \ {Root}
    /\ \A n \in Name : \A i \in 1..Len(n) : SubSeq(n, 1, i) \in Name
\* One name is the longest: a name is a std::string, and they have a limit.
ASSUME LengthAssumption == Name = {} \/ \E n \in Name : \A m \in Name : Len(m) <= Len(n)
ASSUME MarkAssumption ==
    /\ SerialMod \in Nat \ {0}
    /\ NoSoa \notin Nat
    /\ Value \cap {"absent", "empty"} = {}
    /\ Dangling \notin Name \cup {Root}

-----------------------------------------------------------------------------
(* ZoneData: of a Soa only the serial matters.  Optional lists and strings *)
(* are absent (no value), empty, or hold something.                        *)

Opt == {"absent", "empty"} \cup Value

ZoneData ==
    [soa : {NoSoa} \cup 0..(SerialMod - 1), authorative : BOOLEAN,
     txt : Opt, a : Opt, aaaa : Opt, cname : Opt, ns : Opt, mx : Opt]

ASSUME NoZoneAssumption == NoZone \notin ZoneData

\* A ZoneData that CreateZone's walk makes for a name on the way.
Blank ==
    [soa |-> NoSoa, authorative |-> FALSE,
     txt |-> "absent", a |-> "absent", aaaa |-> "absent", cname |-> "absent",
     ns |-> "absent", mx |-> "absent"]

\* ZoneRef's getters of optional strings return "" when there is no value.
StringOf(o) == IF o = "absent" THEN "empty" ELSE o

\* ZoneData::assign reads the new data through those getters.
Assigned(z) == [z EXCEPT !.txt = StringOf(@), !.cname = StringOf(@)]

\* A zone has a cname or addresses, not both.
Exclusive(z) == ~(z.cname \in Value /\ (z.a \in Value \/ z.aaaa \in Value))

\* Mutant: the check of cname against addresses is forgotten.
ValidateLabelOnly(n, label, z) == label = Last(n)

Validate(n, label, z) == Exclusive(z) /\ label = Last(n)

-----------------------------------------------------------------------------
(* The tree.  t.zone[n] is the data of the node n, t.children[n] the order *)
(* of its child vector (an absent vector and an empty one are treated      *)
(* alike by all the code), t.parent[n] where its parent pointer points.    *)

Image == [zone : [Name -> ZoneData \cup {NoZone}],
          children : [Name \cup {Root} -> Seq(Name)]]
Tree == [zone : [Name -> ZoneData \cup {NoZone}],
         children : [Name \cup {Root} -> Seq(Name)],
         parent : [Name -> Name \cup {Root, Dangling}]]

Has(s, n) == n \in Name /\ s[n] # NoZone

\* ZoneNode::Init, called for every root zone: each node points to its parent.
InitParents(i) == [zone |-> i.zone, children |-> i.children,
                   parent |-> [n \in Name |-> Parent(n)]]

\* No edit next to it has left a node pointing elsewhere.
Intact(t) == \A n \in Name : Has(t.zone, n) => t.parent[n] = Parent(n)

\* What SerializeToJson keeps of a tree: the pointers are not saved.
Serialized(t) == [zone |-> t.zone, children |-> t.children]

EmptyImage == [zone |-> [n \in Name |-> NoZone],
               children |-> [p \in Name \cup {Root} |-> << >>]]

\* CopyZones
CopyZones(t) == InitParents(Serialized(t))

-----------------------------------------------------------------------------
(* Search: one step per label.  The level moves down only when the node    *)
(* that matched has children; `current' is Root while there is no node.    *)

SearchStep(t, s, host) ==
    LET hits == {n \in Range(t.children[s.level]) : Last(n) = host}
        hit  == CHOOSE n \in hits : TRUE
    IN  IF s.stop \/ hits = {} THEN [s EXCEPT !.current = Root, !.stop = TRUE]
        ELSE [s EXCEPT !.current = hit,
                       !.level = IF t.children[hit] = << >> THEN @ ELSE hit]

Search(t, key) ==
    LET at[i \in 0..Len(key)] ==
          IF i = 0 THEN [level |-> Root, current |-> Root, stop |-> FALSE]
          ELSE SearchStep(t, at[i - 1], key[i])
    IN  at[Len(key)].current

\* GetDomainName follows the parent pointers of the node.
GetDomainName(t, node) ==
    LET name[n \in Name] ==
          CASE t.parent[n] = Root     -> <<Last(n)>>
            [] t.parent[n] = Dangling -> Dangling
            [] OTHER -> IF name[t.parent[n]] = Dangling THEN Dangling
                        ELSE Append(name[t.parent[n]], Last(n))
    IN  name[node]

(* LookupName(key): the zone that Search found, if its own idea of its     *)
(* name is the key.  Reading through a dangling pointer is undefined: the  *)
(* process dies, or some name comes out, the right one only by luck.       *)
LookupName(t, key) ==
    LET node == Search(t, key)
        dn   == GetDomainName(t, node)
    IN  CASE ~Has(t.zone, node) -> {"none"}
          [] Has(t.zone, node) /\ dn = Dangling ->
               {"mismatch", "died"} \cup {r \in {"match"} : node = key}
          [] OTHER -> {IF dn = key THEN "match" ELSE "mismatch"}

-----------------------------------------------------------------------------
(* IncrementSerial(n): the nearest ancestor-or-self with a Soa and the     *)
(* authorative flag.  It runs before Delete's erase and on nodes whose     *)
(* pointers Init or CreateZone has just set, so the chain of pointers it   *)
(* climbs is the chain of prefixes of the name.                            *)

Authorities(s, n) ==
    {m \in Name : IsPrefix(m, n) /\ Has(s, m)
                    /\ s[m].soa # NoSoa /\ s[m].authorative}

\* Mutant: the serial is wider than the 32 bits of the wire.
BumpedPastEnd(z) == [z EXCEPT !.soa = @ + 1]

Bumped(z) == [z EXCEPT !.soa = (@ + 1) % SerialMod]

Nearest(s, n) ==
    {m \in Authorities(s, n) : \A k \in Authorities(s, n) : Len(k) <= Len(m)}

\* Only called when Authorities(s, n) # {}; otherwise the code throws.
IncrementSerial(s, n) ==
    [m \in Name |-> IF m \in Nearest(s, n) THEN Bumped(s[m]) ELSE s[m]]

\* Mutant: the call of IncrementSerial is left out.
WithoutSerial(t, n) == t

WithSerial(t, n) == [t EXCEPT !.zone = IncrementSerial(@, n)]

-----------------------------------------------------------------------------
(* The three edits, each of a tree whose pointers Init has set.            *)

\* The child of p on the way to n.
Toward(p, n) == SubSeq(n, 1, Len(p) + 1)

\* p is the node under which CreateZone's walk to n attaches its first new
\* node: the last one on the way that exists.
IsAttachPoint(t, n, p) ==
    /\ p = Root \/ Has(t.zone, p)
    /\ IsStrictPrefix(p, n)
    /\ ~Has(t.zone, Toward(p, n))

\* Mutant: the walk hooks the new node up but makes no data for names on the way.
InsertShallow(t, n, z) ==
    [t EXCEPT !.zone[n] = Assigned(z), !.children[Parent(n)] = Append(@, n)]

(* CreateZone's walk: nodes are made for every missing name on the way.    *)
(* emplace_back of the first one moves its siblings to a larger vector:    *)
(* the children of those siblings keep pointing to the old one.            *)
Insert(t, n, z) ==
    [zone |->
        [m \in Name |-> CASE m = n -> Assigned(z)
                          [] m # n /\ IsPrefix(m, n) /\ t.zone[m] = NoZone -> Blank
                          [] OTHER -> t.zone[m]],
     children |->
        [p \in Name \cup {Root} |->
            IF IsStrictPrefix(p, n) /\ ~Has(t.zone, Toward(p, n))
            THEN Append(t.children[p], Toward(p, n))
            ELSE t.children[p]],
     parent |->
        [m \in Name |->
            IF Has(t.zone, Parent(m)) /\ IsAttachPoint(t, n, Parent(Parent(m)))
            THEN Dangling ELSE t.parent[m]]]

\* Update: assign at the node n that Search found.
Assign(t, n, z) == [t EXCEPT !.zone[n] = Assigned(z)]

\* Mutant: the node goes, the nodes below it stay.
EraseNodeOnly(t, n) ==
    [t EXCEPT !.zone[n] = NoZone,
              !.children[Parent(n)] = SelectSeq(@, LAMBDA m : m # n)]

(* Delete's erase of the node n with all below it.  The siblings after n   *)
(* move one slot up: their children point to the slot that now holds the   *)
(* next sibling, and those of the last one to a destroyed slot.            *)
Erase(t, n) ==
    LET siblings == t.children[Parent(n)]
        slot     == CHOOSE i \in DOMAIN siblings : siblings[i] = n
        After(s) == {i \in DOMAIN siblings : i > slot /\ siblings[i] = s}
    IN  [zone |-> [m \in Name |-> IF IsPrefix(n, m) THEN NoZone ELSE t.zone[m]],
         children |->
            [p \in Name \cup {Root} |->
                CASE IsPrefix(n, p) -> << >>
                  [] p = Parent(n)  -> RemoveAt(siblings, slot)
                  [] OTHER          -> t.children[p]],
         parent |->
            [m \in Name |->
                IF After(Parent(m)) = {} THEN t.parent[m]
                ELSE LET i == CHOOSE i \in After(Parent(m)) : TRUE
                     IN  IF i = Len(siblings) THEN Dangling ELSE siblings[i + 1]]]

-----------------------------------------------------------------------------
(* RestHandler's Merge for PATCH: what the request leaves out is taken     *)
(* from the existing zone, except the addresses when a cname is given.     *)

Merge(z, old) ==
    LET noAddress == z.a = "absent" /\ z.aaaa = "absent" /\ z.cname = "absent"
        keepIp    == z.cname \notin Value
        Or(x, y)  == IF x = "absent" THEN y ELSE x
    IN  [z EXCEPT
            !.soa   = IF @ = NoSoa THEN old.soa ELSE @,
            !.a     = IF keepIp THEN Or(@, old.a) ELSE @,
            !.aaaa  = IF keepIp THEN Or(@, old.aaaa) ELSE @,
            !.cname = IF noAddress THEN StringOf(old.cname) ELSE @,
            !.txt   = Or(@, StringOf(old.txt)),
            !.ns    = Or(@, old.ns),
            !.mx    = Or(@, old.mx)]
=============================================================================
