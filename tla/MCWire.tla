------------------------------- MODULE MCWire -------------------------------
(***************************************************************************)
(* A small instance of AnswerBase with the sizes of the code.  The         *)
(* datagrams ask for www.ex.com or are wrong in all the ways that          *)
(* LabelHeader knows of; the records have names that share none, some or   *)
(* all of their labels, names with an empty label, as a wildcard zone has, *)
(* or one that is too long, and texts up to one that leaves no room for    *)
(* more.                                                                   *)
(***************************************************************************)
EXTENDS AnswerBase

\* "" is an empty label; the last two are of 64 and of 200 bytes.
MCLabel == {"com", "ex", "www", "ns", "net", "long", "", "overlong", "wild"}
MCLabelBytes ==
    [l \in MCLabel |-> CASE l \in {"ex", "ns"} -> 2 [] l = "long" -> 15 [] l = "" -> 0
                         [] l = "overlong" -> 64 [] l = "wild" -> 200 [] OTHER -> 3]

L(l) == LabelCell(l)
Illegal == Raw("illegal", 4)
Bad == Raw("bad", 1)
ex == <<L("ex"), L("com"), End>>
wwwEx == <<L("www")>> \o ex
five == [i \in 1..5 |-> L("long")]

MCDatagram ==
    {<< >>, <<End>>, <<End, Fixed(4)>>, ex, <<L("ex"), L("com")>>,
     ex \o <<Fixed(4)>>, wwwEx \o <<Fixed(4), Fixed(11)>>, wwwEx \o <<Fixed(3)>>,
     <<L("ex"), Illegal, End, Fixed(4)>>, <<L("ex"), Bad, End, Fixed(4)>>,
     <<L("ex"), Pointer(1), Fixed(4)>>, <<L("ex"), L("com"), Pointer(2), Fixed(4)>>,
     <<L("ex"), Pointer(3), L("net"), End, Fixed(4)>>, <<Pointer(1), Fixed(4)>>,
     SubSeq(five, 1, 4) \o <<End, Fixed(4)>>, five \o <<End, Fixed(4)>>}

MCStale == {End, L("ex"), Illegal, Bad, Pointer(1)}

N(labels) == [name |-> labels, absolute |-> TRUE]
Rel(labels) == [name |-> labels, absolute |-> FALSE]
A(type, owner, hosts) ==
    [type |-> type, owner |-> owner, hosts |-> hosts, zone |-> << >>, text |-> 0]

exCom == <<"ex", "com">>
names == {exCom, <<"www", "ex", "com">>, <<"ns", "www", "ex", "com">>, <<"ns", "net">>}
targets == {<<"net">>, <<"ns", "ex", "com">>, <<"ns", "www", "ex", "com">>, <<"ns", "net">>}

Soa(hosts) == [A("SOA", << >>, hosts) EXCEPT !.zone = exCom]

MCAnswer ==
    {A("A", << >>, << >>)} \cup
    {A("CNAME", << >>, <<N(t)>>) : t \in targets} \cup
    {A("MX", << >>, <<N(<<"ns", "ex", "com">>)>>), A("AAAA", <<"net">>, << >>)} \cup
    {A("A", o, << >>) : o \in names} \cup
    {A("NS", exCom, <<N(t)>>) : t \in targets} \cup
    {A("NS", <<"net">>, <<N(<<"ns", "net">>)>>)} \cup
    {Soa(<<Rel(<<"ns">>), Rel(<<"www">>)>>), Soa(<<N(<<"ns", "net">>), Rel(<<"www">>)>>)} \cup
    {[A("TXT", << >>, << >>) EXCEPT !.text = n] : n \in {300, 445}} \cup
    {A("A", <<"">> \o exCom, << >>),
     A("CNAME", << >>, <<N(<<"ns", "">> \o exCom)>>),
     A("MX", << >>, <<N(<<"ns", "overlong">> \o exCom)>>),
     A("NS", exCom, <<N(<<"wild", "com">>)>>),
     Soa(<<Rel(<<"ns", "">>), Rel(<<"www">>)>>)}

\* A zone of ZoneMgrJson has no mname, and nothing looks at how long its rname is.
MCAnswerJson == {Soa(<<Rel(<<"overlong">>)>>)}
=============================================================================
