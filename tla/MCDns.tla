------------------------------- MODULE MCDns --------------------------------
(***************************************************************************)
(* A small instance of DnsDaemon.  com has a Soa, a name server and a mail *)
(* server; a.com is a cname for b.com, which has addresses of both kinds   *)
(* and a mail server below it, www.b.com, a zone of its own; net has no    *)
(* Soa.  The changes turn the cname into an address, take the authority    *)
(* away, add and remove hosts.                                             *)
(***************************************************************************)
EXTENDS DnsDaemon

CONSTANTS vIp, vTwo, vHost, vInner, vAlias, vText, vFull   \* record contents

MCLabel == {"", "com", "net", "a", "b", "c", "ns", "www", "x"}

com   == <<"com">>
net   == <<"net">>
aCom  == <<"com", "a">>
bCom  == <<"com", "b">>
cCom  == <<"com", "c">>
nsCom == <<"com", "ns">>
wwwbCom == <<"com", "b", "www">>
anyCom == <<"com", "">>
nsAnyCom == <<"com", "", "ns">>

MCName == {com, net, aCom, bCom, cCom, nsCom, wwwbCom, anyCom, nsAnyCom}

MCItems ==
    [v \in {vIp, vTwo, vHost, vInner, vAlias, vText, vFull} |->
        CASE v = vHost  -> <<[absolute |-> FALSE, name |-> <<"ns">>]>>
          [] v = vInner -> <<[absolute |-> FALSE, name |-> <<"www">>]>>
          [] v = vFull  -> <<[absolute |-> FALSE, name |-> nsCom]>>
          [] v = vAlias -> <<[absolute |-> FALSE, name |-> <<"b">>]>>
          [] v = vTwo   -> <<[absolute |-> FALSE, name |-> <<"x">>],
                            [absolute |-> FALSE, name |-> <<"c">>]>>
          [] OTHER     -> <<[absolute |-> TRUE, name |-> <<"x">>]>>]

Plain == [Blank EXCEPT !.authorative = TRUE]
Com == [Plain EXCEPT !.soa = 1, !.ns = vHost, !.mx = vHost, !.txt = vText]
Cname == [Plain EXCEPT !.cname = vAlias]
WithIp == [Plain EXCEPT !.a = vIp]

Zones(f) == [n \in MCName |-> IF n \in DOMAIN f THEN f[n] ELSE NoZone]
Children(f) == [p \in MCName \cup {Root} |-> IF p \in DOMAIN f THEN f[p] ELSE << >>]

JsonImage ==
    [zone |-> Zones(com :> Com @@ aCom :> Cname @@ nsCom :> WithIp @@ net :> WithIp @@
                    bCom :> [Plain EXCEPT !.a = vTwo, !.aaaa = vIp, !.mx = vInner] @@
                    wwwbCom :> [WithIp EXCEPT !.soa = 1, !.ns = vHost, !.mx = vIp]),
     children |-> Children(Root :> <<com, net>> @@ com :> <<aCom, nsCom, bCom>> @@
                           bCom :> <<wwwbCom>>)]

\* Any name below com, with a mail server below it, except a.com and b.com.
MemoryImage ==
    [zone |-> Zones(com :> Com @@ aCom :> Cname @@ net :> WithIp @@
                    bCom :> [Blank EXCEPT !.a = vTwo] @@
                    anyCom :> [Plain EXCEPT !.a = vIp, !.mx = vHost] @@ nsAnyCom :> WithIp),
     children |-> Children(Root :> <<com, net>> @@ com :> <<anyCom, aCom, bCom>> @@
                           anyCom :> <<nsAnyCom>>)]

\* A file with name servers and no Soa.
BadImage == [MemoryImage EXCEPT !.zone[net].ns = vHost]

MCStored == [json |-> {JsonImage}, memory |-> {MemoryImage, BadImage, EmptyImage}]

E(kind, name, zone) == [kind |-> kind, name |-> name, zone |-> zone]

MCEdit ==
    {E("update", aCom, WithIp), E("update", com, [Com EXCEPT !.soa = 5, !.ns = vTwo]),
     E("update", bCom, [Plain EXCEPT !.soa = 1, !.authorative = FALSE, !.a = vIp]),
     E("update", bCom, WithIp), E("create", cCom, WithIp), E("delete", nsCom, Blank)}

Asks(name, type) ==
    [name |-> name, type |-> type, class |-> "IN", labels |-> "ok", size |-> 1]
Plainly(name, type) ==
    [header |-> "query", count |-> 1, questions |-> <<Asks(name, type)>>]

\* Queries that are answered from the zones.
Answered ==
    {Plainly(aCom, type) : type \in {"A", "AAAA", "CNAME", "ALL"}} \cup
    {Plainly(bCom, type) : type \in {"A", "AAAA", "MX"}} \cup
    {Plainly(com, type)  : type \in {"SOA", "TXT", "ALL"}} \cup
    {Plainly(wwwbCom, type) : type \in {"NS", "MX"}} \cup
    {Plainly(net, "SOA"), Plainly(net, "NS"), Plainly(net, "other"),
     Plainly(<<"com", "x">>, "MX"), Plainly(<<"com", "x", "ns">>, "A"),
     [header |-> "query", count |-> 2, questions |-> <<Asks(bCom, "A"), Asks(com, "TXT")>>],
     [header |-> "query", count |-> 2, questions |-> <<Asks(com, "SOA")>>],
     [header |-> "query", count |-> 2, questions |-> <<Asks(com, "NS")>>],
     [header |-> "query", count |-> 2, questions |-> <<Asks(aCom, "A")>>]}

\* Queries that get an error, no records or no reply.
Unanswered ==
    {Plainly(<<"com", "x">>, "A"), Plainly(<<"x">>, "A"), NoQuery,
     Plainly(<<"com", "a", "x">>, "A"), Plainly(<<"com", "b", "x">>, "A"),
     [header |-> "reply", count |-> 0, questions |-> << >>],
     [header |-> "other", count |-> 0, questions |-> << >>],
     [header |-> "query", count |-> 0, questions |-> << >>],
     [header |-> "query", count |-> 1, questions |-> << >>],
     [header |-> "query", count |-> 9, questions |-> <<Asks(bCom, "A")>>]} \cup
    {[header |-> "query", count |-> 1, questions |-> <<q>>] :
        q \in {[Asks(bCom, "A") EXCEPT !.labels = "illegal"],
               [Asks(bCom, "A") EXCEPT !.labels = "broken"],
               [Asks(bCom, "A") EXCEPT !.class = "other"]}}

MCQuery == Answered \cup Unanswered

\* For MCDnsSubdomain.cfg: any name below com is meant.
WildImage ==
    [JsonImage EXCEPT !.zone[anyCom] = WithIp, !.children[com] = Append(@, anyCom)]
MCWildStored == [json |-> {WildImage}]
MCUnknownQuery == {Plainly(<<"com", "x">>, "A")}

\* For MCDnsQuestions.cfg: two zones, each with its mail server's name in full.
FullImage == [JsonImage EXCEPT !.zone[com].mx = vFull, !.zone[bCom].mx = vFull]
MCFullStored == [json |-> {FullImage}]
MCMailQuery ==
    {[header |-> "query", count |-> 2, questions |-> <<Asks(com, "MX"), Asks(bCom, "MX")>>]}
=============================================================================
