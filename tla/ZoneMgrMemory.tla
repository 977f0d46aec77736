--------------------------- MODULE ZoneMgrMemory ----------------------------
(***************************************************************************)
(* ZoneMgrMemory: the zones of a file in the format of Boost's property    *)
(* trees, loaded once and never changed.  It keeps the same tree as        *)
(* ZoneMgrJson, but looks names up by other rules: every label must have a *)
(* node of its own, and a node with an empty label stands for all labels   *)
(* that have none.                                                         *)
(***************************************************************************)
EXTENDS ZoneTree

Wildcard == ""
ASSUME WildcardAssumption == Wildcard \in Label

\* ZoneMemoryImpl::Create points mname to the first name server of the Soa: without
\* a Soa, or with an empty list, it goes astray.
LoadDefined(i) ==
    \A n \in Name : Has(i.zone, n) =>
        i.zone[n].ns = "absent" \/ (i.zone[n].ns \in Value /\ i.zone[n].soa # NoSoa)

\* One level of Lookup; a node without children has an empty list of them, not none.
LookupStep(t, s, host) ==
    LET full == Append(s.node, host)
        wild == Append(s.node, Wildcard)
        next == IF full \in Range(t.children[s.node]) THEN full ELSE wild
    IN  IF s.stop \/ next \notin Range(t.children[s.node]) THEN [s EXCEPT !.stop = TRUE]
        ELSE [node |-> next, authorative |-> t.zone[next].authorative, stop |-> FALSE]

\* The node that Lookup finds, or Root, and what it leaves in *authorative: the flag
\* of the last node on the way.
Lookup(t, key) ==
    LET at[i \in 0..Len(key)] ==
          IF i = 0 THEN [node |-> Root, authorative |-> FALSE, stop |-> FALSE]
          ELSE LookupStep(t, at[i - 1], key[i])
        s == at[Len(key)]
    IN  [node |-> IF s.stop THEN Root ELSE s.node, authorative |-> s.authorative]
=============================================================================
