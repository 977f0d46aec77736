----------------------------- MODULE DnsDaemon ------------------------------
(***************************************************************************)
(* DnsDaemonImpl: one UDP endpoint that answers queries from the zones,    *)
(* while the zone manager commits changes.  Endpoints share the zones, and *)
(* on one thread the counters of the statistics; one of them is enough.    *)
(*                                                                         *)
(* The endpoint looks zones up several times for one reply, and every      *)
(* lookup reads the zones that are served at that moment.  Between lookups *)
(* it works on what it holds: `todo' is the work that is left of the       *)
(* section that is being written, one record or one lookup at a time.      *)
(***************************************************************************)
EXTENDS ZoneMgrMemory, ZoneChange

CONSTANTS
    Items,        \* [Value -> Seq(Item)]: the entries a record list holds
    StoredImage,  \* what the zone file may hold, for each of the managers
    Edit,         \* the changes that may be committed meanwhile
    Query,        \* the datagrams that may arrive
    HeaderSize,   \* of the message header: 12
    MaxReply,     \* max_reply_buffer_: 512
    RecordSize,   \* the sizes a record may have, names compressed
    Faults,       \* which of "receive" and "send" may fail
    MaxQueries,   \* bound: how many datagrams arrive
    MaxCommits,   \* bound: how many changes are committed
    MaxResets     \* bound: how often the statistics are set back

\* An entry of a list: a host name, relative unless `absolute' (it ends with a
\* dot), or, in an address list, an address.
Item == [absolute : BOOLEAN, name : Seq(Label)]

QType == {"A", "AAAA", "CNAME", "SOA", "NS", "MX", "TXT", "ALL", "other"}
RType == QType \ {"ALL", "other"}
Section == {"answer", "authority", "additional"}
Rcode == {"OK", "FORMAT_ERROR", "SERVER_FAILURE", "NAME_ERROR", "NOT_IMPLEMENTED", "REFUSED"}

(* A question as the bytes of the datagram hold it.  `labels' says how     *)
(* LabelHeader and Question parse it: well, with an illegal or missing     *)
(* label, or broken in any other way.                                      *)
Question == [name : Seq(Label), type : QType, class : {"IN", "other"},
             labels : {"ok", "illegal", "broken"}, size : Nat]

\* `count' is the QDCOUNT of the header, `questions' what follows it.  The header of
\* a reply starts as a copy of the query's; the flags that it does not set (RCODE,
\* and AA, TC and RA of an error) are 0 in these queries.
QueryType == [header : {"short", "reply", "other", "query"}, count : Nat,
              questions : Seq(Question)]

ASSUME ItemAssumption == Items \in [Value -> Seq(Item) \ {<< >>}]
ASSUME StoredAssumption ==
    /\ DOMAIN StoredImage \subseteq {"json", "memory"}
    /\ \A m \in DOMAIN StoredImage : \A i \in StoredImage[m] : i \in Image /\ WellFormed(i)
ASSUME EditAssumption ==
    \A e \in Edit : /\ e.kind \in {"create", "update", "delete"}
                    /\ e.name \in Name /\ e.zone \in ZoneData
ASSUME BoundAssumption == MaxQueries \in Nat /\ MaxCommits \in Nat /\ MaxResets \in Nat
ASSUME QueryAssumption == Query \subseteq QueryType
ASSUME SizeAssumption ==
    /\ HeaderSize \in Nat /\ MaxReply \in Nat /\ HeaderSize <= MaxReply
    /\ RecordSize \subseteq Nat

VARIABLES
    manager,    \* which ZoneMgr the file asks for: "json" (or yaml), "memory"
    zones,      \* zones_ of the zone manager
    commits,    \* number of changes so far
    phase,      \* where the endpoint's coroutine is
    queries,    \* number of datagrams so far
    query,      \* the datagram being processed
    questions,  \* `questions' of ProcessQuestions
    todo,       \* what is left to do in this section
    found,      \* Lookup between its two reads of zones_: what Search returned
    reply,      \* the reply buffer and the numbers that go into its header
    authZones,  \* authoritative_zones
    nsZones,    \* ns_zones
    asked,      \* history: the zone each question was answered from
    disturbed,  \* history: the zones have changed since the query arrived
    stats,      \* thd_stats_dns_
    outcome,    \* `state' of the RequestStats
    resets      \* number of times the statistics were set back

counters == <<stats, outcome, resets>>
vars == <<manager, zones, commits, phase, queries, query, questions, todo, found, reply,
          authZones, nsZones, asked, disturbed, stats, outcome, resets>>

-----------------------------------------------------------------------------
(* A ZoneRef: a node and the tree that it keeps alive.                     *)

NoQuery == [header |-> "short", count |-> 0, questions |-> << >>]
NoRef == [tree |-> InitParents(EmptyImage), node |-> Root]

Entries(v) == IF v \in Value THEN Items[v] ELSE << >>

\* GetSoaZone climbs the parent pointers to a zone with a Soa; Root if there is none.
GetSoaZone(t, node) ==
    LET up[n \in Name \cup {Root, Dangling}] ==
          IF n \in {Root, Dangling} THEN n
          ELSE IF t.zone[n].soa # NoSoa THEN n
          ELSE up[t.parent[n]]
    IN  up[node]

\* Mutant: a relative cname is left as it is.
CnameAsWritten(t, n) == Entries(t.zone[n].cname)[1].name

\* The cname of the node n in full: a relative one is completed with the domain
\* name of the parent, if there is one.
FullCname(t, n) ==
    LET target == Entries(t.zone[n].cname)[1]
    IN  CASE target.absolute         -> target.name
          [] t.parent[n] = Dangling  -> Dangling
          [] t.parent[n] = Root      -> target.name
          [] OTHER -> IF GetDomainName(t, t.parent[n]) = Dangling THEN Dangling
                      ELSE GetDomainName(t, t.parent[n]) \o target.name

-----------------------------------------------------------------------------
(* Tasks.  A store writes a record; the others look `owner' up: a question *)
(* to answer it, the target of a cname for its addresses, a server's name  *)
(* to have its addresses in the last section.                              *)

Task == [do : {"store", "question", "cname", "server"}, type : QType,
         owner : Seq(Label), data : Seq(Label)]

Write(type, owner, data) == [do |-> "store", type |-> type, owner |-> owner, data |-> data]
Look(why, type, name) == [do |-> why, type |-> type, owner |-> name, data |-> << >>]

Addresses(type, owner, v) ==
    [i \in DOMAIN Entries(v) |-> Write(type, owner, Entries(v)[i].name)]

\* GetFdqn puts the domain after the name whether that ends with a dot or not; if it
\* does, the two dots make an empty label.
GetFdqn(host, domain) ==
    domain \o (IF host.absolute THEN <<Wildcard>> ELSE << >>) \o host.name

\* A list of hosts under `domain': a record for each, whose addresses go last.
Hosts(type, owner, domain, v) ==
    FlattenSeq([i \in DOMAIN Entries(v) |->
        LET fqdn == GetFdqn(Entries(v)[i], domain)
        IN  <<Write(type, owner, fqdn), Look("server", "A", fqdn)>>])

\* ProcessQuestion after its lookup has found the node n.
QuestionTasks(t, n, q) ==
    LET z     == t.zone[n]
        cname == z.cname \in Value
        alias == <<Write("CNAME", q.owner, FullCname(t, n))>>
        main  ==
          CASE q.type \in {"A", "AAAA", "ALL"} /\ cname ->
                 IF q.type = "A" THEN Append(alias, Look("cname", "A", FullCname(t, n)))
                 ELSE alias
            [] q.type = "A" /\ ~cname     -> Addresses("A", q.owner, z.a)
            [] q.type = "AAAA" /\ ~cname  -> Addresses("AAAA", q.owner, z.aaaa)
            [] q.type = "CNAME" /\ cname  -> alias
            [] q.type = "SOA" -> <<Write("SOA", q.owner, GetSoaZone(t, n))>>
            [] q.type = "MX"  -> Hosts("MX", q.owner, GetDomainName(t, n), z.mx)
            [] OTHER -> << >>
        text  == IF q.type \in {"TXT", "ALL"} /\ z.txt \in Value
                 THEN <<Write("TXT", q.owner, << >>)>> ELSE << >>
    IN  main \o text

\* Would ProcessQuestion follow a dangling pointer?
QuestionDangles(t, n, q) ==
    \/ GetSoaZone(t, n) = Dangling
    \/ /\ q.type = "SOA"      \* RdataSoa completes rname with the names above
       /\ GetSoaZone(t, n) \in Name
       /\ GetDomainName(t, GetSoaZone(t, n)) = Dangling
    \/ /\ t.zone[n].cname \in Value
       /\ q.type \in {"A", "AAAA", "ALL", "CNAME"}
       /\ FullCname(t, n) = Dangling
    \/ /\ q.type = "MX"
       /\ Entries(t.zone[n].mx) # << >>
       /\ GetDomainName(t, n) = Dangling

\* Mutant: the addresses get the cname as it was written.
CnameTasksRelative(t, n, name) ==
    Addresses("A", <<Last(name)>>, t.zone[n].a) \o Addresses("AAAA", <<Last(name)>>, t.zone[n].aaaa)

\* The addresses of a cname's target, under the name that was looked up.
CnameTasks(t, n, name) ==
    Addresses("A", name, t.zone[n].a) \o Addresses("AAAA", name, t.zone[n].aaaa)

\* ProcessNsAuthZone
AuthTasks(r) ==
    LET domain == GetDomainName(r.tree, r.node)
    IN  Hosts("NS", domain, domain, r.tree.zone[r.node].ns)

\* ProcessNsZone
NsTasks(r) ==
    LET domain == GetDomainName(r.tree, r.node)
        z      == r.tree.zone[r.node]
    IN  Addresses("A", domain, z.a) \o Addresses("AAAA", domain, z.aaaa)

\* Would they follow a dangling pointer, for a zone they have something to write of?
Dangles(r, v) == Entries(v) # << >> /\ GetDomainName(r.tree, r.node) = Dangling
AuthDangles(r) == Dangles(r, r.tree.zone[r.node].ns)
NsDangles(r) == Dangles(r, r.tree.zone[r.node].a) \/ Dangles(r, r.tree.zone[r.node].aaaa)

-----------------------------------------------------------------------------
(* The reply.  A record says which bytes of the buffer it takes.           *)

Record == [section : Section, type : RType, owner : Seq(Label), data : Seq(Label),
           from : Nat, to : Nat]

Reply == [rcode : Rcode, authoritative : BOOLEAN, truncated : BOOLEAN,
          records : Seq(Record), size : 0..MaxReply, questions : Nat,
          count : [Section -> Nat]]

\* A reply that has its questions, `size' bytes with the header, and no records.
EmptyReply(rcode, n, size) ==
    [rcode |-> rcode, authoritative |-> rcode = "OK", truncated |-> FALSE,
     records |-> << >>, size |-> size, questions |-> n,
     count |-> [s \in Section |-> 0]]

-----------------------------------------------------------------------------
(* Statistics.                                                             *)

Stats == [udp_connections : Nat, ok_requests : Nat, failed_requests : Nat,
          bad_requests : Nat, unknown_names : Nat]
NoStats == [udp_connections |-> 0, ok_requests |-> 0, failed_requests |-> 0,
            bad_requests |-> 0, unknown_names |-> 0]

\* Mutant: a request that nobody set the state of is not counted.
CountedIfSet(state) ==
    CASE state = "SUCESS" -> [stats EXCEPT !.ok_requests = @ + 1]
      [] state = "UNSET"  -> stats
      [] state = "BAD"    -> [stats EXCEPT !.bad_requests = @ + 1]

\* The destructor of RequestStats.
Counted(state) ==
    CASE state = "SUCESS" -> [stats EXCEPT !.ok_requests = @ + 1]
      [] state = "UNSET"  -> [stats EXCEPT !.failed_requests = @ + 1]
      [] state = "BAD"    -> [stats EXCEPT !.bad_requests = @ + 1]

-----------------------------------------------------------------------------
Init ==
    /\ manager \in DOMAIN StoredImage
    /\ \E i \in StoredImage[manager] :
        /\ zones = InitParents(i)
        /\ phase = IF manager = "memory" /\ ~LoadDefined(i) THEN "undefined" ELSE "receive"
    /\ commits = 0
    /\ queries = 0
    /\ query = NoQuery
    /\ questions = << >>
    /\ todo = << >>
    /\ found = NoRef
    /\ reply = EmptyReply("OK", 0, 0)
    /\ authZones = << >>
    /\ nsZones = << >>
    /\ asked = << >>
    /\ disturbed = FALSE
    /\ stats = NoStats
    /\ outcome = "UNSET"
    /\ resets = 0

\* The work on the query ends here, with the reply r to be sent.
Finish(r) ==
    /\ phase' = "send"
    /\ reply' = r
    /\ todo' = << >>
    /\ found' = NoRef

\* CreateErrorReply: the header alone, all counters 0.
CreateErrorReply(rcode) == Finish(EmptyReply(rcode, 0, HeaderSize))

\* A pointer leads into memory that is gone.  Whatever the process does from
\* here on is undefined, and nothing is said about it.
Undefined ==
    /\ phase' = "undefined"
    /\ UNCHANGED <<todo, found, reply, authZones, nsZones, asked>>

-----------------------------------------------------------------------------
(* ProcesssQuerey and the first pass of ProcessQuestions: no zones are     *)
(* read.  `bytes_left' is never reduced, so every question is parsed from  *)
(* the bytes of the first one.                                             *)

Parsed(q) == [i \in 1..q.count |-> q.questions[1]]

QuestionSize(q) == q.count * q.questions[1].size

\* How the first pass ends; the first error found decides.
FirstPass(q) ==
    LET first == q.questions[1]
    IN  IF q.header = "reply" THEN "FORMAT_ERROR"
        ELSE IF q.header = "other" THEN "NOT_IMPLEMENTED"
        ELSE IF q.count = 0 THEN "OK"
        ELSE IF q.questions = << >> \/ first.labels = "illegal" THEN "FORMAT_ERROR"
        ELSE IF first.labels = "broken" THEN "SERVER_FAILURE"
        ELSE IF first.class # "IN" THEN "REFUSED"
        ELSE IF HeaderSize + QuestionSize(q) < MaxReply THEN "OK"
        ELSE "FORMAT_ERROR"

Receive(q) ==
    /\ phase = "receive"
    /\ queries < MaxQueries
    /\ queries' = queries + 1
    /\ stats' = [stats EXCEPT !.udp_connections = @ + 1]
    /\ query' = q
    /\ disturbed' = FALSE
    /\ authZones' = << >>
    /\ nsZones' = << >>
    /\ asked' = << >>
    /\ \/ /\ q.header = "short"     \* MessageHeader throws: no reply
          /\ phase' = "silent"
          /\ questions' = << >>
          /\ reply' = EmptyReply("OK", 0, 0)
          /\ UNCHANGED <<todo, found, outcome>>
       \/ /\ q.header # "short"
          /\ FirstPass(q) # "OK"
          /\ questions' = << >>
          /\ CreateErrorReply(FirstPass(q))
          /\ outcome' = IF FirstPass(q) = "FORMAT_ERROR" THEN "BAD" ELSE "UNSET"
       \/ /\ q.header # "short"
          /\ FirstPass(q) = "OK"
          /\ phase' = "answer"
          /\ questions' = Parsed(q)
          /\ todo' = [i \in 1..q.count |->
                        Look("question", Parsed(q)[i].type, Parsed(q)[i].name)]
          /\ reply' = EmptyReply("OK", q.count,
                        HeaderSize + IF q.count = 0 THEN 0 ELSE QuestionSize(q))
          /\ found' = NoRef
          /\ UNCHANGED outcome
    /\ UNCHANGED <<manager, zones, commits, resets>>

-----------------------------------------------------------------------------
\* The endpoint is at a task of the kind k, and leaves the rest alone.
At(k) ==
    /\ phase \in Section
    /\ todo # << >>
    /\ Head(todo).do = k
    /\ UNCHANGED <<manager, zones, commits, queries, query, questions, disturbed, outcome, resets>>

\* The reply with the record of the task at hand, s bytes long.
WithRecord(s) ==
    [reply EXCEPT
        !.records = Append(@, [section |-> phase, type |-> Head(todo).type,
                               owner |-> Head(todo).owner, data |-> Head(todo).data,
                               from |-> reply.size, to |-> reply.size + s]),
        !.size = @ + s,
        !.count[phase] = @ + 1]

\* Mutant: the record is counted before it is known to fit.
StoreCountsFirst ==
    /\ At("store")
    /\ \E s \in RecordSize :
        \/ /\ reply.size + s > MaxReply
           /\ Finish([reply EXCEPT !.truncated = TRUE, !.count[phase] = @ + 1])
        \/ /\ reply.size + s <= MaxReply
           /\ reply' = WithRecord(s)
           /\ todo' = Tail(todo)
           /\ UNCHANGED <<phase, found>>
    /\ UNCHANGED <<authZones, nsZones, asked, stats>>

\* Mutant: the size of the buffer is not looked at.
StoreUnchecked ==
    /\ At("store")
    /\ \E s \in RecordSize : reply' = WithRecord(s)
    /\ todo' = Tail(todo)
    /\ UNCHANGED <<phase, found, authZones, nsZones, asked, stats>>

\* Store: a record that makes the buffer too long is taken back, and the reply
\* goes out truncated.
Store ==
    /\ At("store")
    /\ \E s \in RecordSize :
        \/ /\ reply.size + s > MaxReply
           /\ Finish([reply EXCEPT !.truncated = TRUE])
        \/ /\ reply.size + s <= MaxReply
           /\ reply' = WithRecord(s)
           /\ todo' = Tail(todo)
           /\ UNCHANGED <<phase, found>>
    /\ UNCHANGED <<authZones, nsZones, asked, stats>>

(* Lookup reads zones_ twice: Search walks one tree, the ZoneRef keeps     *)
(* whatever tree is served when it is made.  If they differ, the node is   *)
(* in memory that may be freed at any time.                                *)

IsLookup == At("question") \/ At("cname") \/ At("server")

\* The node that the manager's Lookup finds; Root if there is none.
Found(t, key) == IF manager = "memory" THEN Lookup(t, key).node ELSE Search(t, key)

\* The first read, with a result.
LookupSearch ==
    /\ IsLookup
    /\ found = NoRef
    /\ Found(zones, Head(todo).owner) # Root
    /\ found' = [tree |-> zones, node |-> Found(zones, Head(todo).owner)]
    /\ UNCHANGED <<phase, todo, reply, authZones, nsZones, asked, stats>>

\* What Lookup leaves in `authorative' when it finds nothing: with ZoneMgrJson, what
\* the caller had.
AuthorativeOfMiss(key) == manager = "memory" /\ Lookup(zones, key).authorative

\* Mutant: a name that is not ours is looked up again.
SkippedNever == todo

\* The work that is left without a cname or server that is not ours.
Skipped == Tail(todo)

\* Nothing found.  For a question, ProcessQuestion throws UnknownSubDomain or
\* UnknownDomain; a cname or server that is not ours is skipped.
LookupMiss ==
    /\ IsLookup
    /\ found = NoRef
    /\ Found(zones, Head(todo).owner) = Root
    /\ \/ /\ Head(todo).do = "question"
          /\ AuthorativeOfMiss(Head(todo).owner)
          /\ CreateErrorReply("NAME_ERROR")
          /\ stats' = [stats EXCEPT !.unknown_names = @ + 1]
       \/ /\ Head(todo).do = "question"
          /\ ~AuthorativeOfMiss(Head(todo).owner)
          /\ phase' = "silent"
          /\ todo' = << >>
          /\ stats' = [stats EXCEPT !.unknown_names = @ + 2]
          /\ UNCHANGED <<found, reply>>
       \/ /\ Head(todo).do # "question"
          /\ todo' = Skipped
          /\ UNCHANGED <<phase, found, reply, stats>>
    /\ UNCHANGED <<authZones, nsZones, asked>>

\* The second read comes after a commit.
LookupRaced ==
    /\ IsLookup
    /\ found # NoRef
    /\ zones # found.tree
    /\ Undefined
    /\ UNCHANGED stats

\* AddZone.  The zones are compared as pointers.  ZoneMgrMemory returns the objects
\* that it stores, and finds one that is there already; with ZoneMgrJson every Lookup
\* and every parent() makes a new ZoneRef, and nothing is ever found.
AddZone(refs, t, n) ==
    IF n = Root \/ (manager = "memory" /\ [tree |-> t, node |-> n] \in Range(refs))
    THEN refs
    ELSE Append(refs, [tree |-> t, node |-> n])

\* Mutant: the last question decides.
AuthorityOfLast(t, n) ==
    GetSoaZone(t, n) # Root /\ t.zone[GetSoaZone(t, n)].authorative

\* The authoritative flag after a question about the node n.
AuthorityAfter(t, n) ==
    /\ reply.authoritative
    /\ GetSoaZone(t, n) # Root
    /\ t.zone[GetSoaZone(t, n)].authorative

\* ProcessQuestion with the zone that Lookup returned.
ProcessQuestion ==
    LET t == found.tree
        n == found.node
        q == Head(todo)
        soa == GetSoaZone(t, n)
    IN
    /\ At("question")
    /\ found # NoRef
    /\ \/ /\ QuestionDangles(t, n, q)
          /\ Undefined
       \/ /\ ~QuestionDangles(t, n, q)
          /\ q.type = "SOA"
          /\ soa = Root
          /\ CreateErrorReply("SERVER_FAILURE")
          /\ UNCHANGED <<authZones, nsZones, asked>>
       \/ /\ ~QuestionDangles(t, n, q)
          /\ q.type = "SOA" => soa # Root
          /\ todo' = QuestionTasks(t, n, q) \o Tail(todo)
          /\ reply' = [reply EXCEPT !.authoritative = AuthorityAfter(t, n)]
          /\ authZones' = IF q.type \in {"SOA", "NS", "ALL"}
                          THEN AddZone(authZones, t, soa) ELSE authZones
          /\ asked' = Append(asked, found)
          /\ found' = NoRef
          /\ UNCHANGED <<phase, nsZones>>
    /\ UNCHANGED stats

\* The addresses of the zone that a cname leads to.
FollowCname ==
    /\ At("cname")
    /\ found # NoRef
    /\ todo' = CnameTasks(found.tree, found.node, Head(todo).owner) \o Tail(todo)
    /\ found' = NoRef
    /\ UNCHANGED <<phase, reply, authZones, nsZones, asked, stats>>

\* A name server or mail server we have data about.
AddServer ==
    /\ At("server")
    /\ found # NoRef
    /\ todo' = Tail(todo)
    /\ nsZones' = AddZone(nsZones, found.tree, found.node)
    /\ found' = NoRef
    /\ UNCHANGED <<phase, reply, authZones, asked, stats>>

\* From one loop of ProcessQuestions to the next, which has `tasks' to do or meets
\* a dangling pointer.
NextSection(from, to, dangles, tasks) ==
    /\ phase = from
    /\ todo = << >>
    /\ \/ /\ dangles
          /\ Undefined
       \/ /\ ~dangles
          /\ phase' = to
          /\ todo' = tasks
          /\ UNCHANGED <<found, reply, authZones, nsZones, asked>>
    /\ UNCHANGED <<manager, zones, commits, queries, query, questions, disturbed, counters>>

BeginAuthority ==
    NextSection("answer", "authority",
        \E i \in DOMAIN authZones : AuthDangles(authZones[i]),
        FlattenSeq([i \in DOMAIN authZones |-> AuthTasks(authZones[i])]))

BeginAdditional ==
    NextSection("authority", "additional",
        \E i \in DOMAIN nsZones : NsDangles(nsZones[i]),
        FlattenSeq([i \in DOMAIN nsZones |-> NsTasks(nsZones[i])]))

\* All is written: the header is filled in.
EndReply ==
    /\ phase = "additional"
    /\ todo = << >>
    /\ phase' = "send"
    /\ UNCHANGED <<manager, zones, commits, queries, query, questions, todo, found, reply,
                   authZones, nsZones, asked, disturbed, counters>>

-----------------------------------------------------------------------------
\* The work on the query is over, and its data gone: `state' is counted.
Over(next, state) ==
    /\ phase' = next
    /\ stats' = Counted(state)
    /\ outcome' = "UNSET"
    /\ query' = NoQuery
    /\ questions' = << >>
    /\ reply' = EmptyReply("OK", 0, 0)
    /\ authZones' = << >>
    /\ nsZones' = << >>
    /\ asked' = << >>
    /\ disturbed' = FALSE
    /\ UNCHANGED <<manager, zones, commits, queries, todo, found, resets>>

\* The loop goes on: the reply is sent, a success whatever it says, or there is none.
Sent ==
    \/ phase = "send" /\ Over("receive", "SUCESS")
    \/ phase = "silent" /\ Over("receive", outcome)

\* An error of async_receive_from or async_send_to is an exception that leaves
\* the loop: `ec' is not passed to them.  The endpoint is never heard of again.
EndpointFails ==
    /\ phase \in Faults
    /\ \/ phase = "send" /\ Over("ended", outcome)
       \/ /\ phase = "receive"
          /\ phase' = "ended"
          /\ UNCHANGED <<manager, zones, commits, queries, query, questions, todo, found, reply,
                         authZones, nsZones, asked, disturbed, counters>>

\* UpdateStats, in the endpoint's thread: only while the endpoint waits.
Housekeeping ==
    /\ phase \in {"receive", "send", "ended"}
    /\ resets < MaxResets
    /\ stats' = NoStats
    /\ resets' = resets + 1
    /\ UNCHANGED <<manager, zones, commits, phase, queries, query, questions, todo, found, reply,
                   authZones, nsZones, asked, disturbed, outcome>>

(* The zone manager commits a change (ZoneMgrJson.tla has the steps).      *)

\* The copy as CreateZone, Update and Delete give it to IncrementSerial.
Edited(e) ==
    LET t == CopyZones(zones)
    IN  CASE e.kind = "create" -> Insert(t, e.name, e.zone)
          [] e.kind = "update" -> Assign(t, e.name, e.zone)
          [] e.kind = "delete" -> t

\* The copy that is committed: Delete erases after the serial has moved.
Changed(e) ==
    LET t == WithSerial(Edited(e), e.name)
    IN  IF e.kind = "delete" THEN Erase(t, e.name) ELSE t

\* ZoneMgrMemory has no operation that changes a zone.
Commit(e) ==
    /\ manager = "json"
    /\ commits < MaxCommits
    /\ phase # "undefined"
    /\ e.kind = "create" <=> ~Has(zones.zone, e.name)
    /\ IF e.kind = "delete" THEN Parent(e.name) # Root ELSE Exclusive(e.zone)
    /\ Authorities(Edited(e).zone, e.name) # {}
    /\ zones' = Changed(e)
    /\ commits' = commits + 1
    /\ disturbed' = TRUE
    /\ UNCHANGED <<manager, phase, queries, query, questions, todo, found, reply, authZones,
                   nsZones, asked, counters>>

Stopped ==
    /\ \/ phase = "receive" /\ queries = MaxQueries
       \/ phase \in {"ended", "undefined"}
    /\ UNCHANGED vars

Process ==
    \/ Store \/ LookupSearch \/ LookupMiss \/ LookupRaced
    \/ ProcessQuestion \/ FollowCname \/ AddServer
    \/ BeginAuthority \/ BeginAdditional \/ EndReply \/ Sent

Next ==
    \/ \E q \in Query : Receive(q)
    \/ Process
    \/ EndpointFails
    \/ Housekeeping
    \/ \E e \in Edit : Commit(e)
    \/ Stopped

\* Once a datagram is there, the coroutine runs until the reply is sent.
Spec == Init /\ [][Next]_vars /\ WF_vars(Process)

-----------------------------------------------------------------------------
(* Properties.                                                             *)

\* The variables have the values their C++ types and the protocol allow; the reply
\* never outgrows max_reply_buffer_.
TypeOK ==
    /\ manager \in {"json", "memory"}
    /\ zones \in Tree
    /\ commits \in 0..MaxCommits
    /\ phase \in Section \cup {"receive", "send", "silent", "ended", "undefined"}
    /\ queries \in 0..MaxQueries
    /\ query \in QueryType
    /\ questions \in Seq(Question)
    /\ todo \in Seq(Task)
    /\ found = NoRef \/ (found.tree \in Tree /\ found.node \in Name)
    /\ reply \in Reply
    /\ \A refs \in {authZones, nsZones, asked} : \A i \in DOMAIN refs :
        refs[i].tree \in Tree /\ refs[i].node \in Name
    /\ disturbed \in BOOLEAN
    /\ stats \in Stats
    /\ outcome \in {"UNSET", "BAD"}
    /\ resets \in 0..MaxResets

\* The order of the sections on the wire.
Rank == [answer |-> 1, authority |-> 2, additional |-> 3]

\* The buffer always is a message: the questions, then records back to back, up to
\* its size, with the sections in order; and the numbers for the header count
\* what is there, after a record was taken back too (Store, Revert).
WireSound ==
    LET recs == reply.records IN
    /\ \A s \in Section :
        reply.count[s] = Cardinality({i \in DOMAIN recs : recs[i].section = s})
    /\ \A i \in DOMAIN recs : i > 1 =>
        recs[i].from = recs[i - 1].to /\ Rank[recs[i - 1].section] <= Rank[recs[i].section]
    /\ recs # << >> => recs[Len(recs)].to = reply.size
    /\ reply.rcode # "OK" => recs = << >> /\ reply.questions = 0

\* Does the zone of the reference r lie under an authoritative Soa, as its parent
\* pointers have it?
Owned(r) ==
    LET soa == GetSoaZone(r.tree, r.node)
    IN  soa # Root /\ r.tree.zone[soa].authorative

\* The reply claims authority exactly if every zone it answered from gave it,
\* although zones may gain and lose authority between two questions
\* (ProcessQuestion: "If any of the questions regards a zone where we are not
\* authoritative, we do not set the authoritative flag").
AuthorityIsEarned ==
    phase \in Section \cup {"send"} /\ reply.rcode = "OK" =>
        (reply.authoritative <=> \A i \in DOMAIN asked : Owned(asked[i]))

\* An address in the answers belongs to a name that was asked for or to the target
\* of a cname before it, whatever was committed between the lookup of the cname
\* and the lookup of its target (ProcessQuestion, StoreCname).
AddressesFollowCname ==
    \A j \in DOMAIN reply.records :
        LET r == reply.records[j] IN
        r.section = "answer" /\ r.type \in {"A", "AAAA"} =>
            \/ \E i \in DOMAIN questions : questions[i].name = r.owner
            \/ \E i \in 1..(j - 1) :
                reply.records[i].type = "CNAME" /\ reply.records[i].data = r.owner

(* What a reply should hold, from the zones alone: the node Search finds,  *)
(* true names instead of pointers, sets instead of steps.                  *)

Rec(section, type, owner, data) ==
    [section |-> section, type |-> type, owner |-> owner, data |-> data]
Listed(section, type, owner, v) ==
    {Rec(section, type, owner, e.name) : e \in Range(Entries(v))}
AllAddresses(section, owner, z) ==
    Listed(section, "A", owner, z.a) \cup Listed(section, "AAAA", owner, z.aaaa)

TrueSoa(s, n) ==
    {m \in Name : /\ IsPrefix(m, n)
                  /\ s[m].soa # NoSoa
                  /\ \A k \in Name : IsPrefix(k, n) /\ Len(k) > Len(m) => s[k].soa = NoSoa}

TrueCname(s, n) ==
    LET target == Entries(s[n].cname)[1]
    IN  IF target.absolute THEN target.name ELSE Parent(n) \o target.name

\* The node with which the manager m answers for a name.  With ZoneMgrMemory, an
\* empty label in the tree stands for every label that has no node beside it
\* (ZoneMgr.h).  With ZoneMgrJson, a name that is there answers for itself, and one
\* that is not there is answered by whatever node Search comes to, if any: it does
\* not know the empty label (SubdomainAnswered), and may come to another name.
Answering(m, t, key) ==
    IF m = "json"
    THEN IF Has(t.zone, key) THEN {key} ELSE {n \in {Search(t, key)} : Has(t.zone, n)}
    ELSE {n \in Name :
            /\ Has(t.zone, n)
            /\ Len(n) = Len(key)
            /\ \A i \in DOMAIN key :
                \/ n[i] = key[i]
                \/ n[i] = Wildcard /\ ~Has(t.zone, Append(SubSeq(n, 1, i - 1), key[i]))}

\* Is a name that is not there below a node that is marked as ours?
OursButUnknown(m, t, key) ==
    /\ m = "memory"
    /\ \E k \in 1..(Len(key) - 1) :
        /\ Answering(m, t, SubSeq(key, 1, k + 1)) = {}
        /\ \E n \in Answering(m, t, SubSeq(key, 1, k)) : t.zone[n].authorative

When(condition, set) == IF condition THEN set ELSE {}

ExpectedAnswers(mgr, t, n, q) ==
    LET z == t.zone[n]
        cname == z.cname \in Value
        target == TrueCname(t.zone, n)
    IN  UNION {
          When(cname /\ q.type \in {"A", "AAAA", "CNAME", "ALL"},
               {Rec("answer", "CNAME", q.name, target)}),
          When(cname /\ q.type = "A",
               UNION {AllAddresses("answer", target, t.zone[h]) : h \in Answering(mgr, t, target)}),
          When(~cname /\ q.type = "A", Listed("answer", "A", q.name, z.a)),
          When(~cname /\ q.type = "AAAA", Listed("answer", "AAAA", q.name, z.aaaa)),
          When(q.type = "SOA", {Rec("answer", "SOA", q.name, m) : m \in TrueSoa(t.zone, n)}),
          When(q.type = "MX",
               {Rec("answer", "MX", q.name, GetFdqn(e, n)) : e \in Range(Entries(z.mx))}),
          When(q.type \in {"TXT", "ALL"} /\ z.txt \in Value,
               {Rec("answer", "TXT", q.name, << >>)})}

ExpectedAuthority(t, n, q) ==
    When(q.type \in {"SOA", "NS", "ALL"},
         UNION {{Rec("authority", "NS", m, GetFdqn(e, m)) : e \in Range(Entries(t.zone[m].ns))} :
                m \in TrueSoa(t.zone, n)})

\* The addresses we have of the servers that the other sections name.
ExpectedAdditional(mgr, t, named) ==
    LET hosts == UNION {Answering(mgr, t, r.data) : r \in {r \in named : r.type \in {"MX", "NS"}}}
    IN  UNION {AllAddresses("additional", h, t.zone[h]) : h \in hosts}

Expected(mgr, t, n, q) ==
    LET named == ExpectedAnswers(mgr, t, n, q) \cup ExpectedAuthority(t, n, q)
    IN  named \cup ExpectedAdditional(mgr, t, named)

\* A well-formed query that no commit disturbs gets exactly what the zones hold: no
\* reply or a NAME_ERROR for a name that is not there, as the manager knows it, an
\* error for a Soa that is not there, the records of a wildcard of ZoneMgrMemory
\* only where there is no full match, else all the records of the three sections,
\* or some of them and the truncated flag (ProcesssQuerey to ProcessNsZone, against
\* a definition without steps).  The names of servers are those that GetFdqn makes:
\* of a name given in full the documents promise more (EveryQuestionAnswered).
UndisturbedReply ==
    /\ phase \in {"send", "silent"}
    /\ ~disturbed
    /\ Intact(zones)
    /\ query.header = "query"
    /\ query.count > 0
    /\ FirstPass(query) = "OK"
    =>
    LET q == query.questions[1]
        nodes == Answering(manager, zones, q.name)
        n == CHOOSE n \in nodes : TRUE
        records == {Rec(r.section, r.type, r.owner, r.data) : r \in Range(reply.records)}
    IN  IF nodes = {} THEN IF OursButUnknown(manager, zones, q.name)
                           THEN phase = "send" /\ reply.rcode = "NAME_ERROR"
                           ELSE phase = "silent"
        ELSE IF q.type = "SOA" /\ TrueSoa(zones.zone, n) = {}
        THEN phase = "send" /\ reply.rcode = "SERVER_FAILURE"
        ELSE /\ phase = "send"
             /\ reply.rcode = "OK"
             /\ records \subseteq Expected(manager, zones, n, q)
             /\ reply.truncated \/ records = Expected(manager, zones, n, q)

\* Every datagram is counted once, as ok, failed or bad, however it ends, an exception
\* that ends the endpoint included; statistics that are set back while a reply is
\* being sent count that one again, and no more (RequestStats, UpdateStats).
RequestsCounted ==
    phase \in {"receive", "ended"} =>
        LET ended == stats.ok_requests + stats.failed_requests + stats.bad_requests
        IN  /\ ended \in stats.udp_connections..(stats.udp_connections + 1)
            /\ resets = 0 => ended = queries /\ stats.udp_connections = queries

\* The work on a datagram ends, whatever is committed meanwhile: every lookup and
\* every record brings it nearer to its end (ProcessQuestions).
QueriesEnd == phase \in Section ~> phase \notin Section

-----------------------------------------------------------------------------
(* Promises of the comments that the code does not keep, each checked by a *)
(* run of its own.                                                         *)

\* A reply that is not cut short has all the questions of the query asked
\* (ProcessQuestions: "we have to copy all the question's into the buffer"), and
\* names a mail server that the zone gives in full by the name it gives (the samples
\* of doc/api.md).  It fails twice: `bytes_left' stays the same, and every question
\* is read from the place of the first; and GetFdqn puts the domain after any name.
EveryQuestionAnswered ==
    phase = "send" /\ reply.rcode = "OK" /\ ~reply.truncated =>
        \A i \in DOMAIN query.questions \cap 1..query.count :
            LET q == query.questions[i]
                servers == UNION {Range(Entries(zones.zone[n].mx)) :
                                    n \in Answering(manager, zones, q.name)}
            IN  /\ q \in Range(questions)
                /\ q.type = "MX" =>
                     \A e \in servers : IsPrefix(q.name, e.name) =>
                         \E r \in Range(reply.records) :
                             r.type = "MX" /\ r.owner = q.name /\ r.data = e.name

\* A query gets no reply only if its name is outside the zones that are ours
\* (ProcesssQuerey: "Unknown subdomain for a zone we own. Reply with error.") and no
\* empty label stands for it (ZoneMgr.h: "An empty label in the zone-tree matches all
\* names at that level").  It fails twice: the Lookup of ZoneMgrJson says who is
\* authoritative only when it finds the zone, and its Search takes an empty label for
\* a label like any other.
SubdomainAnswered ==
    manager = "json" /\ phase = "silent" /\ query.header = "query" =>
        LET name == query.questions[1].name
        IN  Authorities(zones.zone, name) = {} /\ Answering("memory", zones, name) = {}
=============================================================================
