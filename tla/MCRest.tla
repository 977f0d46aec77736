------------------------------- MODULE MCRest -------------------------------
(***************************************************************************)
(* A small instance of RestHandler: one top-level zone, four subdomains,   *)
(* two of them one level further down, and requests that between them      *)
(* reach every outcome.  b.a.com and b.com are both there because Search   *)
(* confuses them.                                                          *)
(***************************************************************************)
EXTENDS RestHandler

CONSTANTS v1, v2   \* record contents

MCLabel == {"com", "a", "b", "c", "www"}

com  == <<"com">>
aCom == <<"com", "a">>
bCom == <<"com", "b">>
cCom == <<"com", "c">>
baCom == <<"com", "a", "b">>
wwwbCom == <<"com", "b", "www">>

MCName == {com, aCom, bCom, cCom, baCom, wwwbCom}

\* Bodies.  A Soa given without a serial has the default serial 1.
Plain == [Blank EXCEPT !.authorative = TRUE]
WithA == [Plain EXCEPT !.a = v1]
WithSoa == [Plain EXCEPT !.soa = 1]
WithCname == [Plain EXCEPT !.cname = v2]
Both == [Plain EXCEPT !.a = v1, !.cname = v2]
Slave == [WithSoa EXCEPT !.authorative = FALSE]

\* com with a Soa; a, b (with www) and c below it.
Populated ==
    [zone |-> [n \in MCName |->
        CASE n = com  -> [Plain EXCEPT !.soa = 6]
          [] n = bCom -> WithA
          [] n \in {aCom, cCom, wwwbCom} -> Plain
          [] OTHER -> NoZone],
     children |-> [p \in MCName \cup {Root} |->
        CASE p = Root -> <<com>>
          [] p = com  -> <<aCom, bCom, cCom>>
          [] p = bCom -> <<wwwbCom>>
          [] OTHER -> << >>]]

\* com with a Soa; a and b (with www) below it.
Young ==
    [zone |-> [Populated.zone EXCEPT ![cCom] = NoZone],
     children |-> [Populated.children EXCEPT ![com] = <<aCom, bCom>>]]

MCStored == {Populated, Young}

\* A zone with a Soa below one with a Soa, next to a childless one.
MCStoredSoa == {[Populated EXCEPT !.zone[bCom].soa = 3]}

Req(verb, name, zone) ==
    [verb |-> verb, path |-> "zone", name |-> name, label |-> "", zone |-> zone]

\* Requests that change the tree or race for it.
Changes ==
    {Req("POST", com, WithSoa), Req("POST", cCom, WithA), Req("POST", baCom, WithSoa),
     Req("PUT", wwwbCom, WithA), Req("PUT", com, WithSoa), Req("PUT", baCom, Plain),
     Req("PATCH", bCom, WithCname), Req("PATCH", cCom, Plain),
     Req("DELETE", aCom, Blank), Req("DELETE", bCom, Blank), Req("DELETE", baCom, Blank)}

\* Requests that end in an error.
Refused ==
    {Req("PUT", com, Slave), Req("PUT", bCom, Both), Req("DELETE", com, Blank),
     Req("POST", Root, WithA), Req("HEAD", com, Blank), Req("DELETE", Root, Blank),
     [Req("PUT", cCom, WithA) EXCEPT !.label = "a"],
     [Req("PATCH", cCom, WithA) EXCEPT !.path = "other"]}

MCRequest == Changes \cup Refused

\* Without the other way to delete b.com.
MCRequestNamed == MCRequest \ {Req("DELETE", bCom, Blank)}
=============================================================================
