# vUberdns: TLA+ models, model checking and proofs

vUberdns is a small authoritative DNS server with a REST API for its zones.
This directory holds TLA+ models of it, TLC configurations that check them on
small instances, and TLAPS proofs that hold for every instance. Paths below are
relative to the repository root.

## 1. The system

| Component | Source | State | Operations |
|---|---|---|---|
| Zone tree | `src/dnslib/src/ZoneMgrJson.{h,cpp}`, `Zone.{h,cpp}` | nodes with records, child vectors, parent pointers | `Search`, `GetDomainName`, `CopyZones`, `IncrementSerial`, edits |
| ZoneMgrJson | `src/dnslib/src/ZoneMgrJson.cpp` | `zones_`, `mutex_`, the zone file and its `.tmp` | `CreateZone`, `Update`, `Delete`, `Commit`, `Save`, `Load`, `Lookup` |
| ZoneMgr | `src/dnslib/src/ZoneMgr.cpp` | none | `LookupName`, `Create` |
| RestHandler | `src/dnslib/src/RestHandler.cpp` | none of its own | GET, POST, PUT, PATCH, DELETE on `/zone/<name>` |
| HttpServer | `src/dnslib/src/HttpServer.cpp` | one coroutine per session, an accept loop per endpoint | `DoSession`, `Authenticate`, `Listen` |
| DnsDaemonImpl | `src/dnslib/src/DnsDaemonImpl.cpp` | one coroutine and two buffers per UDP endpoint | the receive loop, `ProcessQuestions`, `ProcessQuestion`, the three sections, `Store`, error replies |
| Message parsing | `MessageHeader.h`, `Question.h`, `LabelHeader.h` | none | parse a datagram |
| Answers | `AnswerBase.{h,cpp}`, `Rdata*.h` | offsets of the names already written | write a record with compressed names |
| ZoneMgrMemory | `ZoneMgrMemory.cpp`, `ZoneMemoryImpl.cpp` | read-only zones of the old text format | parse, `Lookup` with wildcards |
| Statistics | `Statistics.h`, `RequestStats.h` | counters per thread | count one request each |
| Start | `src/dnsd/src/main.cpp` | options | create the pool, the daemon and the HTTP server |

**Interaction.** `main` creates a warlib thread pool (two pipelines unless
told otherwise), the DNS daemon with its zone manager, and the HTTP server whose
handler is `RestHandler::Process`. HTTP sessions call the zone manager's three
changing operations; DNS endpoints only call `Lookup`. The zones are a
`shared_ptr` to an immutable tree: a change copies the tree under `mutex_`,
edits the copy, saves it and swaps the pointer; a reader keeps the tree it found
alive through its `ZoneRef`. Sockets of HTTP belong to pipeline 0, so in the
program as shipped REST requests run one after the other, but DNS endpoints are
spread over all pipelines and run beside them. `ZoneMgrJson` itself is written
for callers on many threads (that is what `mutex_` is for), and it is modelled
and checked as such.

**What is hard here.** Two writers between their unlocked look at the zones and
the lock; exceptions after a copy has been edited; a crash at any point of
`Save`; parent pointers into vectors that move; several lookups of one DNS reply
with commits between them; a reply that reaches 512 bytes in the middle of a
section or of a name; offsets into a buffer that is cut back; bytes that an
earlier datagram left behind; clients that fall silent at any point of a
session; accept errors in a row. `PROJECT.json` lists these hazards line by line with the properties
aimed at each.

**What makes each component correct.** The tree stays a tree and no zone loses
its authoritative Soa (zone tree). No committed change is lost, an aborted one
leaves no trace, the file is never more than the change in flight away from what
is served, every call ends (ZoneMgrJson). A conflict that is reported exists, a
cname never sits beside addresses, whatever races (RestHandler). A reply is a
well-formed message that holds what the zones hold, and claims only the
authority it has; every datagram is counted and its work ends (DnsDaemonImpl,
Statistics). Names read back as they were meant and lengths frame their records
(Answers); what was not sent in a datagram does not matter (Message parsing).
A full match goes before a wildcard (ZoneMgrMemory). Each request has its
responses, in order, the `Connection` header is true, and no silent client or
transient error takes the endpoint away from the others (HttpServer).

## 2. Modules

| Module | Models | Used by |
|---|---|---|
| `ZoneTree` | the tree and the pure algorithms on one private copy of it | all others |
| `ZoneChange` | what one change may do, as a relation between two states of the zones; what a well-formed tree is | `ZoneStore`, `ZoneMgrJson` |
| `ZoneStore` | the abstract specification: zones that change one domain at a time | refined by `RestHandler` |
| `ZoneMgrJson` | the calls step by step: mutex, copy, disk, crash, load | `RestHandler` |
| `RestHandler` | requests, the choice of call, the status of each outcome | `MCRest` |
| `RestGet` | GET, as a function of the tree that is served | `RestHandler` |
| `ZoneMgrMemory` | the lookup of the old text format, with wildcards | `DnsDaemon` |
| `DnsDaemon` | one UDP endpoint beside a zone manager that commits, with its statistics | `MCDns` |
| `AnswerBase` | a question parsed and a reply written, label by label | `MCWire` |
| `HttpServer` | the accept loop and the sessions of one HTTP endpoint | `MCHttp` |
| `RecursionProofs` | lemmas: what can be said of a recursive function by well-founded recursion | the proofs below |
| `ZoneChangeProofs`, `ZoneTreeProofs` | lemmas and theorems about one edit of a tree, `Search` and `LookupName` | the proofs below |
| `RestHandlerProofs`, `DnsDaemonProofs`, `DnsReplyProofs`, `AnswerBaseProofs`, `HttpServerProofs` | the theorems about the specifications | |
| `MCRest`, `MCDns`, `MCWire`, `MCHttp` | instances for TLC | |

### ZoneTree
A name is the sequence of its labels in the order `Search` consumes them, and a
node is identified by its name (siblings have different labels). A zone keeps
its serial, its authoritative flag and, for each kind of record, whether the
value is absent, empty, or one of a few contents: `assign` and `Merge` treat the
three differently. `SearchStep` keeps what is particular to `Search`: it goes one
level down only if the node it matched has children. `t.parent` is the parent
pointer of each node; `Insert` and `Erase` compute which pointers an
`emplace_back` or `erase` leaves behind: on another node, or `Dangling`.
Case of letters is left out: `Search` compares labels as they are, `LookupName`
and `ZoneMgrMemory` without regard to case.

### ZoneMgrJson and RestHandler
Each worker is a thread inside at most one request; `pc` says where it is. The
steps are those between which another thread, the disk or a crash can be seen:
the unlocked lookups, taking the mutex together with the edit of the private
copy, opening `.tmp`, the rename, the flush at the end of `Save`, the swap.
Opening and writing may fail without being noticed, as in the code; `rename`
throws when there is no `.tmp`. `Die` is a crash, or the use of a dangling
pointer. A file is missing, complete or cut short; `Load` refuses the last.
JSON is restc-cpp's; it is taken to keep every field the models have. The body
of a request is what the parser has put into the zone when it stops, also for
invalid JSON, since the handler goes on with that. `LookupName` through a
dangling pointer finds another name, dies, or is right by luck. The reads of
`zones_` are atomic in this model; `DnsDaemon` splits them.

### RestGet
`ProcessGet` maps a path and the served tree to a status and the listing that
`RestReply` builds: zones under the names `GetDomainName` finds for them, of two
with one name the last. The paths are those `Split` can make. GET is not a step
of its own: it changes nothing, and what a `Commit` during the walk does to it is
undefined (`ForEachZone` holds no `shared_ptr`).

### DnsDaemon
`phase` is the section that is written; `todo` is the rest of its work, one
record or one lookup at a time, which is as fine as a commit can interfere.
`Lookup` is two steps, as it reads `zones_` twice; a commit in between may free
the node it found. When a dangling pointer would be followed, the phase is
`undefined`, where the model stops and nothing is claimed. A record has a type,
an owner, its data and a size from a small set. How a question parses is given
with it. A commit is one step (section 3 shows that this is what ZoneMgrJson
amounts to) and uses the edits of `ZoneTree`, stale pointers included; with
`ZoneMgrMemory`, chosen by the extension of the file, there are none.
`GetFdqn` completes every host with the domain: one that ends with a dot gets an
empty label in the middle, which the model keeps; the hosts of the `dns` run are
relative. `AddZone` compares zones as pointers: `ZoneMgrMemory` returns the objects it
stores, so a zone is listed once; with `ZoneMgrJson` every `ZoneRef` is new, and a zone
that is asked for twice has its servers in the reply twice, which truncates it
earlier. `Over` is the end of a query: it counts the outcome as the destructor
of `RequestStats` does, on all ways out. `Housekeeping` sets the counters back
while the coroutine waits, since both run on one thread.

### AnswerBase
The buffer is a sequence of cells, each a label, a pointer, an end mark, a length
or other data, and each knows how many bytes it takes. `ParseQuestion` is
`LabelHeader` and `Question`, with the byte behind the datagram that they may
look at; `WriteDomainName` looks for a known name with `ReverseCompare`, writes
labels or a pointer, and remembers where the name starts; `Store` writes the
header, the data of each Rdata class and the length, and takes the record back
if the buffer is too long. Labels are of any length, as nothing checks those of the
zone data: an empty one is written as an end mark, one of 64 bytes or more as a cell
that no reader can use (`LabelCell`). A length that reads as a pointer when it is cut
to a byte, 192 to 255 modulo 256, sends `ReverseCompare` to bytes that the model does
not know: there it stops, in the phase `undefined` (`StoreWild`). It stops for all
labels of 192 bytes or more, also for those whose low byte is smaller. A datagram that
ends with its header is FORMAT_ERROR, another class than IN is REFUSED, as in
`DnsDaemon`. Two facts about the code that no property is about: a name that is a
proper suffix of a known one is not found by `ReverseCompare` and is written in full;
the two assertions at `AnswerBase.cpp:46-47` contradict each other, so that they
cannot be enabled.

### HttpServer
A connection is away, waits, and then is a session: handshake, read, deny, reply,
shutdown. Each asynchronous operation ends well, with an error or with the timer
of `expires_after`. Responses are kept with the request they answer. After a 403
the session goes on to the handler, whose response follows. `Authenticate`
compares the token with `Base64Encode` of name and password, computed byte by
byte with an accumulator of `IntMod` values; the header is given by the bytes it
encodes (`ClientToken`, RFC 4648, is the reference). The accept loop counts errors until a
connection is accepted.

## 3. Runs

| Run | Instance | Result |
|---|---|---|
| `rest` | 2 threads, 2 of 19 requests, 3 first files | 41 224 states; passes |
| `faults` | 1 thread, 4 requests, all faults and crashes | 158 305 states; passes |
| `dns` | both managers, 2 of 34 datagrams, 2 of 6 changes, socket errors, counters set back once | 315 743 states; passes |
| `wire` | 3 records, 1, 2 or 60 questions | 202 833 states; passes |
| `http` | 2 clients, 2 requests each, 4 users, with and without TLS | 81 439 states; passes |
| `put_existing`, `delete_named`, `update_serial`, `crash_file` | 1 thread, 2 requests | violated |
| `dns_questions`, `dns_subdomain` | 1 datagram | violated |
| `wire_soa` | 1 record | violated |

**`rest`** checks, in every interleaving of two requests: `TypeOK`;
`NoLostUpdate`, what a worker is about to commit is one change away from what is
served at that moment; `TreeWellFormed`; `CnameExclusive`; `SoaCoverageKept`, no
step takes a zone's authority away; `ConflictIsReal`, a 409 is given for a
domain that exists and a create that commits was of one that did not;
`ImplementsZoneStore`, refinement; `EveryRequestEnds`, liveness; and
`ReadsAreExact`, GET of a zone and of each list returns exactly the zones it
should under their own names, the root zones always, the others while parent
pointers are as `Init` set them. For a name that is not there GET may return
another zone, the one `Search` confuses with it, under that zone's name.

**`faults`** checks `DiskAgrees`, a file that loads holds what is served or the
one change in flight, with `TreeWellFormed`, `SoaCoverageKept` and
`ImplementsZoneStore` through crashes and restarts. A restart is a change of
`ZoneStore` or none: a restarted daemon may serve a change that was never
acknowledged, and never loses one that was served. (When a write fails
unnoticed, the file does not load and the daemon stays down.)

**`dns`** checks `TypeOK` (the reply stays within its limit), `WireSound` (the
header's numbers and the sections describe the buffer after any truncation),
`AuthorityIsEarned`, `AddressesFollowCname`, and `UndisturbedReply`: with no
commit meanwhile, the reply is exactly what a definition without steps says of
the zones, silence, errors and the wildcards of `ZoneMgrMemory` included. With `ZoneMgrJson` a
name that is there must be answered from its own zone; one that is not is answered
from whatever node `Search` comes to. Where the documents promise more than such a
reply has, the runs `delete_named`, `dns_subdomain` and `dns_questions` show it.
`RequestsCounted`: every datagram is counted once however its processing ends, and
a reset can leave one count too many. `QueriesEnd`: the work on a datagram ends
while zones change.

**`wire`** checks `TypeOK` (the reply stays within 512 bytes), `NamesReadBack`
(every name whose labels have 1 to 63 bytes reads back through the pointers as the
name that was meant, and any other one up to its first bad label, whatever names are
in the same reply),
`RecordsFramed` (lengths lead from record to record), `StartsReadable` (no offset
of a record that was taken back stays known), `KnownNamesShared` (a readable name
that is there is pointed at; the root alone, one byte, may be written again),
`QuestionKept` (the question is in the reply as it came and no pointer of the
query gets there), `StaleIgnored` (what the buffer held before the datagram never
matters). The length byte of a text and the reading of the text behind it are not
in the model.

**`http`** checks `TypeOK`, `ConnectionHeaderKept`, `EveryRequestAnswered` (in order,
a denial first where there is one), `AuthorizedExactly` (the overflowing
accumulator makes the right tokens), `GivesUpAfterRow`, and the liveness of
`SessionsEnd` and `ConnectionsServed`.

**The violated runs** show where a promise of the documents or comments is not
kept; each has an entry under "findings" in `PROJECT.json`:

* `put_existing`: parent pointers are stale after a create or delete next to
  them, so PUT of an existing zone can end in 500 instead of modifying it;
* `delete_named`, for two promises that one step breaks: DELETE of `b.a.com`, which
  does not exist, removes `b.com` when `a.com` has no children; and the serial above
  does not move when the deleted zone has a Soa of its own, since that is the one
  which is incremented. `ZoneStore` describes what the code does: its `Removed` asks
  for the serial above in all cases but this one;
* `update_serial`: PUT of a Soa zone without a serial takes the serial back;
* `crash_file`: the zone file is renamed into place before it is written out;
* `dns_questions`: of several questions, the first is answered several times; and a
  mail server that the zone gives in full, as the samples of `doc/api.md` do, is
  named with the domain put after it once more;
* `dns_subdomain`: with `ZoneMgrJson`, unknown names below our own zones get no
  reply, neither NAME_ERROR nor the records of an empty label, which by `ZoneMgr.h`
  stands for every name of its level;
* `wire_soa`: the SOA of a zone of `ZoneMgrJson` lacks the name of its server,
  so that a reader takes the mailbox for it and everything after it for
  something else; and a name with a label of 64 bytes does not read back.

Each of these runs has one property, which is a conjunction where there are two
promises; its trace ends in a state, or with a step, that breaks both.

**Bounds.** Six names on three levels are the least with a sibling whose children
see its vector move, a name on the way that must be made, and a pair
(`b.a.com`, `b.com`) that `Search` confuses. `SerialMod` is 8 and the first serial
6, so that serials wrap; it is 1000 where the property is about the order of
serials. Two requests on two threads give every race of two calls (the mutex
makes a third wait); four requests in a row give create, delete and create
again with a crash anywhere. In `MCDns` the sizes are small numbers (a reply of
8, a header of 1, records of 2), so that truncation happens in each of
the sections; the second datagram meets whatever the first left behind.
`MCWire` has the real sizes of labels, headers and replies; `MaxLabels`, the
limit of `ValidateSize`, is 60 instead of 255 bytes, because the parser goes
round once for each label and TLC's recursion does not go that deep; names on
both sides of the limit arrive. Texts reach past 255 bytes and up to the end of
the buffer. In `MCHttp` two accept errors stand for 64, and
`IntMod` is 2^20 instead of 2^32, since TLC's integers end there; it still
overflows with the third byte. `MaxRequests`, `MaxQueries`, `MaxCommits`,
`MaxResets` and `MaxRecords` are the only bounds on behaviours.

**Fairness.** `FairSpec` of `RestHandler` asks weak fairness of each worker: a
thread that can run does. Clients need not send and nobody need restart the
daemon. The number of requests is bounded, so a worker waiting for the mutex gets
it without strong fairness. `EveryRequestEnds` is checked without crashes. In
`DnsDaemon` the coroutine goes on once a datagram is there (`WF_vars(Process)`);
no datagram need come and no commit happen. In `HttpServer` the timer that
`expires_after` has set for a step ends that step if nothing else does, and the
accept loop comes back for the next connection: both are Boost's promises. No
client is assumed to do anything.

## 4. Proofs

The theorems hold for every value of the constants: any names, zones, threads,
queries, records, requests, users, sizes, faults and bounds. They state every
property of the runs that pass, but for liveness. Each of the four
specifications has an inductive invariant (`IInv`, or `Inv` in `AnswerBaseProofs`), a
theorem that it is one, and theorems that get the properties of the runs from it.

| Module | Theorem | Property of a run |
|---|---|---|
| `RestHandlerProofs` | `Invariance` | (the invariant) |
| | `TypeCorrect` | `TypeOK` |
| | `NoUpdateIsLost` | `NoLostUpdate` |
| | `DiskFollows` | `DiskAgrees` |
| | `TreeStaysWellFormed` | `TreeWellFormed` |
| | `CnameStaysExclusive` | `CnameExclusive` |
| | `CoverageIsKept` | `SoaCoverageKept` |
| | `ConflictsAreReal` | `ConflictIsReal` |
| | `ReadsStayExact` | `ReadsAreExact` |
| | `Refinement` | `ImplementsZoneStore` |
| `DnsDaemonProofs` | `DaemonInvariance` | (the invariant) |
| | `DaemonTypes` | `TypeOK` |
| | `ReplyIsMessage` | `WireSound` |
| | `AuthorityEarned` | `AuthorityIsEarned` |
| | `AddressesHaveReason` | `AddressesFollowCname` |
| | `DatagramsCounted` | `RequestsCounted` |
| `DnsReplyProofs` | `UndisturbedReplyIsRight` | `UndisturbedReply` |
| `AnswerBaseProofs` | `AlwaysInv` | (the invariant) |
| | `AnswerTypeOK` | `TypeOK` |
| | `AlwaysNamesReadBack` | `NamesReadBack` |
| | `AlwaysRecordsFramed` | `RecordsFramed` |
| | `AlwaysStartsReadable` | `StartsReadable` |
| | `AlwaysNamesShared` | `KnownNamesShared` |
| | `AlwaysQuestionKept` | `QuestionKept` |
| | `AlwaysStaleIgnored` | `StaleIgnored` |
| `HttpServerProofs` | `Invariance` | (the invariant) |
| | `TypeCorrect` | `TypeOK` |
| | `HeaderIsKept` | `ConnectionHeaderKept` |
| | `RequestsAreAnswered` | `EveryRequestAnswered` |
| | `GivesUpOnlyAfterRow` | `GivesUpAfterRow` |
| | `AuthorizationIsExact` | `AuthorizedExactly` |

### The zone manager and the REST handler
`IInv` is `TypeOK` with

* `MutexInv`: who is at a critical step holds the mutex, so there is one;
* `CallInv`: a call that may still be carried out has a proper name;
* `CopyInv`: a copy at a critical step is well formed and one `Change` from the
  served zones;
* `TreeInv`: the served tree is well formed and exclusive;
* `FileInv`: what the file holds, at each step of a `Save`;
* `DownInv`: when the process is down, every worker is idle.

`NoLostUpdate` alone is not inductive: that the next edit is a `Change` needs the
served tree to be well formed (so that the walk to a new node finds its parents),
and that the next served tree is well formed needs it of the copy. `DiskAgrees`
needs to know what is in `.tmp` and in the stream at each step of `Save`.
`ZoneChangeProofs` has the facts about one edit: `Insert`, `Assign` and `Erase`
followed by a new serial keep trees well formed and are a `Change`; and what a
`Change` keeps: `ChangeKeepsCoverage`, `ChangeKeepsExclusive`. Refinement then
takes one step per action: all leave the served zones alone but `Swap`, whose
copy is one change away, and `Load`, whose file is by `DiskAgrees`.

`ConflictsAreReal` is about `CreateZone`'s two looks, of which the first runs
without the mutex and compares names that `GetDomainName` put together from
parent pointers. It needs two invariants more: `PointerInv`, no pointer of the
served tree or of a copy about to be served is off by a level, though it may lead
to a wrong node of that level or nowhere, and those of root zones are null; and
`AnswerInv`, a worker has the arguments of a call only inside it, and a result only
after it.

`ReadsStayExact` follows from `PointerInv` and `TreeInv` by a lemma about one tree,
`GetAnswers`. `ForEachZone` calls itself once for each child, so `RecursionProofs` does
not fit; `WalkExists` makes the lists of the places from the longest names upwards,
and `ForEachZoneVisits` shows in the same order that the list of a place holds
what is below it and nothing else. With right pointers every node has its own name
(`IntactName`), so a listing has one entry for each node and keeps the right one
(`ListingFacts`). Root zones have their names with any pointers, which is why
`PointersUp` says of them what it does; a name that is not there needs
`SearchComplete` and `SearchFinds`.

### Search and recursion
`Search`, `GetDomainName`, `GetSoaZone`, `Lookup` and `FlattenSeq` are recursive
functions. `RecursionProofs` shows that a function whose value at `n` depends on
one place of smaller rank exists, is unique and keeps to a type: induction by the
least element of the set of places where it fails, so that no induction theorem
with an operator as parameter is needed. `BoundedInduction` and `CountingUp` are the
same for a set that holds 0 and is closed under steps up to a bound, `FlattenSteps`
says that `FlattenSeq` puts one part after the other. `ZoneTreeProofs`
applies it to a well-formed tree, and for names that are put together from parent
pointers to one whose pointers lead exactly one level up (`Sound`):

* `SearchComplete`: a name that is in the tree is found;
* `SearchFinds`: what is found is in the tree, is no longer than the name that was
  asked for, and is that name if it is as long. (It may be shorter: run
  `delete_named`.)
* `MatchIsReal`: when `LookupName` says that it found the name, that name is in the
  tree and is what `Search` returned. The node that `Search` found is no longer than
  the name asked for, a name put together over pointers one level up is as long as
  the node's own, so equal names mean that the node has the length asked for. A
  pointer off by two levels would break this;
* `InsertIsSound`, `AssignIsSound`, `EraseIsSound`: each edit of a fresh copy leaves
  pointers one level up, to the right node, a wrong one or nowhere.

### The DNS endpoint
`IInv` is the conjunction of

* `TypeInv`: `TypeOK`, with trees that are `Sound` (without it `GetSoaZone` need
  not end, and has no type) in `zones` and in every `ZoneRef`, and work in `todo`
  that is of the kinds there are;
* `WireInv`: `WireSound`, and while records are written the code is OK and no
  record is of a later section than the one being written. Without the second part
  nothing would say that the next record goes behind the last of its section;
* `AuthorityIsEarned`, inductive as it stands;
* `CnameInv`: `AddressesFollowCname`, and in the answer section `Planned`: whatever is
  still to be done and leads to addresses is for a name that was asked for or
  already named, or comes after the cname that will name it;
* `CountInv`: while a datagram is worked on it is not counted yet, and how far a
  reset may have put the counters out of step.

The many actions are grouped by what they do to a part of the state (store a
record, put work in front of the rest, go to the next section, end in an error);
each part of the invariant is proved for the groups, and one lemma says of each
action to which it belongs.

### What a query gets
`UndisturbedReply` compares the reply at its end with `Expected`, which says without
steps which records a question is due. Nothing of that holds half-way, so `ReplyInv`
(in `DnsReplyProofs`, on top of `IInv`) keeps an account: a *claim* is a record, a
server whose addresses go last, or a Soa whose name servers go second. What the
reply and the two lists of zones have (`Have`), together with what each task in
`todo` will come to (`Promised`), is all that there is to claim by the end of the
section (`Goal`). A record that does not fit ends the reply with the truncated flag,
and what was written is still a part of the goal. So each step has one thing to show: the task it takes off promised what it wrote and what it
plans instead (`Exchange`, `Done`). Between sections the claims of one are the
promises of the next. Under it lie

* `IntactName`, `IntactSoa`: with right pointers, names and the climb to the Soa are those
  that the tree has;
* what `Lookup` returns: the node `Search` finds, or for `ZoneMgrMemory` the one
  node that matches label by label, an empty label only where there is no full
  match, with authority over it or not: an induction over the labels of the key;
* that a lookup in two steps is as good as one while no commit comes.

A commit, a socket error or a reset of the counters ends the account or leaves it
alone.

### The reply, byte by byte
`Inv` of `AnswerBaseProofs` is `TypeOK` and `StaleIgnored` with

* `ReceiveClean`, `Received`: before a query everything is as it was at first, from
  then on the reply is a `Buffer`: cells whose pointers all lead backwards, and whose
  last name is complete, so that reading a name comes to an end;
* `RecordsKept`: every record lies behind the one before it, has its length where
  the reader looks for it and the right value there, each of its names reads back from
  its place as far as it can be read (`AsRead`), and a readable name that occurs twice
  is a pointer the second time;
* `Answering`: while there is more to write, each known start is a name of some record,
  as far as it can be read, and each readable name of a record is known. Neither `NamesReadBack` nor
  `KnownNamesShared` is inductive without it: a pointer is right because the start
  that `SearchForDomainName` compared reads as the name of a record, and a name is
  found again because it was remembered;
* `AskedKept`: the question reads as the name that was asked for, once per question.

The argument goes up from the cells. `Bytes` of two lists adds up. What is appended
to a buffer changes no name that is already there (`NameKept`), and neither does filling in
a length. `NameAt` is recursive over places, with the place as rank, since pointers lead
back; `ReverseCompare` walks one known name and the wanted one from their ends, and
what it finds is a common ending (`CompareLeads`). So `WriteDomainName` appends labels
and then an end mark or a pointer to the rest of the same name (`NameWritten`). A bad
label among them ends the name for a reader at the same place as it does on paper
(`AsRead`), and a known name that ends too early still matches only with labels that
are really there; one that has no end matches nothing. A
record is a list of pieces, each written behind the other by a fold (`RunNames`,
`NamesPlaced`); its length is computed from the cells between `rdlength` and the end,
whatever the type (`RdlengthRight`). `Revert` gives back the writer from before the
record, with its buffer and its starts. For the parser, each round of `LabelHeader`
looks at one cell, and the cell behind the datagram only ever ends the parse with an
error: that is `StaleIgnored`.

### The HTTP endpoint
Sessions touch nothing but their own record, so the invariant is one of a single
session: `OutInv` (responses are in order, to requests that were read, and
`close` is only said with the last), `ReadInv`, `DenyInv` and `ReplyInv` (what has
been said at each step, as a set compared with what is due), `FreshInv` and
`BoundInv`; and `AcceptInv`: the loop has counted the errors in a row.
`EveryRequestAnswered` speaks of sessions that are about to read or have replied;
between a denial and the handler's response it needs `DenyInv`.

`AuthorizationIsExact` is about `Base64Encode`, whose accumulator `val` is never
cleared and overflows on all but the shortest credentials. Only its last 12 bits are ever looked at,
four of the byte before and eight of the last one, and they are what a wrap at a
multiple of 2^16 leaves alone (`LowBits`, `NextBits`). After each byte the output is
that of the bytes so far in groups of four characters for three bytes
(`EncodeByteGoesOn`); padding completes the last group (`PaddedToken`), so the
token is that of RFC 4648 (`EncodeIsToken`, `ClientIsToken`), and the bytes can be
read back from it (`OneToken`), so equal tokens mean equal credentials.
`Authenticate` decides by that, and the session keeps the decision with the header
until the next read.

### Assumptions
All are named, and TLC evaluates them on the instances.

* `NameAssumption` (names are not empty and closed under dropping labels),
  `MarkAssumption`, `NoZoneAssumption` (the markers are not values),
  `WorkerAssumption`, `FaultAssumption`, `RequestAssumption`.
* `StoredImageAssumption`, `StoredAssumption`: the file the daemon starts with is a
  tree, and for the REST handler no zone of it has both a cname and addresses.
  `Load` checks nothing of the sort, so a file edited by hand may break it.
* `EditAssumption` (the changes of `DnsDaemon` are those of a zone manager),
  `QueryAssumption`, `ItemAssumption` (a list that is there is not empty; the empty
  one is a value of its own), `WildcardAssumption`, `SizeAssumption` (a header fits
  into a reply), `BoundAssumption`.
* `LabelAssumption` (a label has some number of bytes, 0 and more than 63 included;
  the buffer holds the header), `DatagramAssumption` (a label that came in a datagram
  has the size of its letters, and that is 1 to 63, or it is not a label),
  `AnswerAssumption` (a CNAME, NS or MX has one name in its data, a SOA one or two, the
  others none).
* `LengthAssumption`: some name is the longest, as the size of a `std::string` has a
  limit. `ForEachZone` needs it to come to an end.
* `HttpAssumption`: the types of the constants; `IntMod` is a multiple of 2^16, as an
  `int` has 16 bits at least.

### Only model-checked
Liveness, which is out of the prover's reach: `EveryRequestEnds`, `QueriesEnd`,
`SessionsEnd`, `ConnectionsServed`. What is violated is shown by runs alone.

## 5. Not modelled, and what comes next

Not modelled: option parsing, logging, daemonizing and signals (`main.cpp`);
the parsers of JSON, of the text format and of HTTP, TLS and the sockets
(libraries); `Base64Decode` and `Statistics::operator +=`, which nothing calls;
`Print`. Of the message header, the flags that a reply copies from its query
(RCODE, and AA, TC and RA of an error) are taken to be 0, as they are in a query.
Contents of records are abstract, except the lengths of names and texts.

Known and left alone, because no document promises otherwise: nobody reads the
statistics; `bad_requests` only grows when the reply to a bad request cannot be
sent, and an unknown name of a foreign domain counts twice; a `BAD` state is
overwritten when the reply is sent; one socket error ends a DNS endpoint.

Next: a `Commit` during the walk of a GET, once the code promises something for it;
the handful of hazards in `PROJECT.json` that no property covers; the rules by which
`Expected` counts records, if a document ever says that one appears once.

To check everything: `tlc -config <cfg> <module>` for each run of `PROJECT.json`,
and `tlapm <module>.tla` for `RecursionProofs`, `ZoneChangeProofs`,
`ZoneTreeProofs`, `RestHandlerProofs`, `DnsDaemonProofs`, `DnsReplyProofs`,
`AnswerBaseProofs` and `HttpServerProofs`.
