------------------------------ MODULE RestGet -------------------------------
(***************************************************************************)
(* GET of the REST API: ProcessGet, GetZone and ForEachZone as functions   *)
(* of the tree that is served.  They change nothing.  A reply lists zones  *)
(* under the names that GetDomainName finds for them, so it is only as     *)
(* good as their parent pointers.                                          *)
(***************************************************************************)
EXTENDS ZoneTree

(* What Split makes of the path: the words up to the name, and the name,   *)
(* Root if the path ends before it.                                        *)
Path == {"", "zone", "zones", "zones/authorative", "zones/soa", "zones/recurse", "other"}

ReplyOf(status, nodes) == [status |-> status, nodes |-> nodes]
NoNodes == << >>

\* A name is read through a dangling pointer: nothing is known of the reply.
UndefinedReply == ReplyOf(0, NoNodes)

\* Mutant: ForEachZone_ does not go down.
ForEachZoneFlat(t, p) == t.children[p]

\* ForEachZone_ from the children of p: a node, all below it, then the next one.
ForEachZone(t, p) ==
    LET below[n \in Name \cup {Root}] ==
          FlattenSeq([i \in DOMAIN t.children[n] |->
              <<t.children[n][i]>> \o below[t.children[n][i]]])
    IN  below[p]

\* RestReply::add for each of the nodes that is in S: of two with one name the last
\* is kept.  The copy is made by ZoneData::assign.
Listing(t, nodes, S) ==
    LET name == [n \in Range(nodes) \cap S |-> GetDomainName(t, n)]
        LastNamed(d) == nodes[SelectLastInSeq(nodes, LAMBDA n : n \in S /\ name[n] = d)]
    IN  IF Dangling \in Range(name) THEN UndefinedReply
        ELSE ReplyOf(200, [d \in Range(name) |-> Assigned(t.zone[LastNamed(d)])])

\* GetZone.  Lookup does not compare the name it finds with the one that was asked.
GetZone(t, key, recurse) ==
    LET n == Search(t, key)
    IN  IF n = Root THEN ReplyOf(404, NoNodes)
        ELSE Listing(t, <<n>> \o (IF recurse THEN ForEachZone(t, n) ELSE << >>), Name)

\* The zones of the set S, found by a walk through the tree.
ListOf(t, S) == Listing(t, ForEachZone(t, Root), S)

HaveSoa(t) == {n \in Name : Has(t.zone, n) /\ t.zone[n].soa # NoSoa}

\* A path that ends after "zone" makes paths.at(1) throw: main's lambda answers 500.
ProcessGet(t, path, name) ==
    CASE path = "zone" /\ name = Root -> ReplyOf(500, NoNodes)
      [] path = "zone" /\ name # Root -> GetZone(t, name, FALSE)
      [] path = "zones" -> ListOf(t, {n \in Name : t.parent[n] = Root})
      [] path = "zones/authorative" ->
           ListOf(t, {n \in HaveSoa(t) : t.zone[n].authorative})
      [] path = "zones/soa" -> ListOf(t, HaveSoa(t))
      [] path = "zones/recurse" /\ name # Root -> GetZone(t, name, TRUE)
      [] OTHER -> ReplyOf(404, NoNodes)

-----------------------------------------------------------------------------
(* What api.md promises, from the zones alone.                             *)

Wanted(t, path, name) ==
    {n \in Name : /\ Has(t.zone, n)
                  /\ CASE path = "zone"  -> n = name
                       [] path = "zones" -> Len(n) = 1
                       [] path = "zones/authorative" ->
                            t.zone[n].soa # NoSoa /\ t.zone[n].authorative
                       [] path = "zones/soa" -> t.zone[n].soa # NoSoa
                       [] path = "zones/recurse" -> IsPrefix(name, n)
                       [] OTHER -> FALSE}

\* GET of a zone or of a list returns those zones, each under its own name with its
\* own data: the root zones at all times, the others while the parent pointers are
\* as Init set them.  A name that is not there gets 404, or a zone that Search
\* takes for it, under that zone's own name (doc/api.md: "Get a specific zone",
\* "Get the root zones from the server", "Get the child zones for a given zone").
GetIsExact(t) ==
    \A path \in Path, name \in Name \cup {Root} :
        LET r == ProcessGet(t, path, name)
            missing == path \in {"zone", "zones/recurse"} /\ ~Has(t.zone, name)
        IN  path = "zones" \/ Intact(t) =>
            IF path \in {"", "other"} \/ missing
            THEN \/ r.status \in {404, 500} /\ r.nodes = NoNodes
                 \/ /\ missing
                    /\ r.status = 200
                    /\ name \notin DOMAIN r.nodes
                    /\ \A n \in DOMAIN r.nodes :
                        Has(t.zone, n) /\ r.nodes[n] = Assigned(t.zone[n])
            ELSE /\ r.status = 200
                 /\ DOMAIN r.nodes = Wanted(t, path, name)
                 /\ \A n \in DOMAIN r.nodes : r.nodes[n] = Assigned(t.zone[n])
=============================================================================
