---------------------------- MODULE RestHandler -----------------------------
(***************************************************************************)
(* The REST API over the zone manager: a worker receives a request,        *)
(* decides between create, update and delete, calls ZoneMgrJson and turns  *)
(* the way the call ended into a HTTP status.                              *)
(*                                                                         *)
(* PUT and PATCH look the zone up before they call the manager, which      *)
(* looks again, so what they decided on may be gone by then.               *)
(***************************************************************************)
EXTENDS ZoneMgrJson, RestGet

CONSTANTS
    Request,       \* the requests clients may send
    MaxRequests    \* bound: how many are sent in a behaviour

(* A request.  `path' is "zone" for /zone/<name> and "other" for the paths *)
(* that ProcessSet and ProcessDelete refuse; `label' is "" when the body   *)
(* has none; a name with no labels is Root.  `zone' is what the body, even *)
(* one that is not valid json, has put in the ZoneData when parsing ends.  *)
RequestType ==
    [verb : {"POST", "PUT", "PATCH", "DELETE", "HEAD"}, path : {"zone", "other"},
     name : Name \cup {Root}, label : Label \cup {""}, zone : ZoneData]

ASSUME RequestAssumption == Request \subseteq RequestType /\ MaxRequests \in Nat

VARIABLES
    req,      \* the request each worker is processing
    reply,    \* the status of the last answer of each worker
    sent      \* number of requests so far

vars == <<mgrVars, req, reply, sent>>
restVars == <<req, reply, sent>>

NoRequest == [verb |-> "HEAD", path |-> "other", name |-> Root, label |-> "", zone |-> Blank]

Status == {0, 200, 400, 404, 409, 500}

Init ==
    /\ MgrInit
    /\ req = [w \in Worker |-> NoRequest]
    /\ reply = [w \in Worker |-> 0]
    /\ sent = 0

-----------------------------------------------------------------------------
Receive(w) ==
    /\ running
    /\ pc[w] = "idle"
    /\ sent < MaxRequests
    /\ \E r \in Request : req' = [req EXCEPT ![w] = r]
    /\ sent' = sent + 1
    /\ pc' = [pc EXCEPT ![w] = "process"]
    /\ reply' = [reply EXCEPT ![w] = 0]
    /\ UNCHANGED <<zones, file, tmp, extension, out, running, mutex, op, copy, result>>

\* The handler returns an answer without calling the manager.
Answer(w, status) ==
    /\ reply' = [reply EXCEPT ![w] = status]
    /\ pc' = [pc EXCEPT ![w] = "idle"]
    /\ req' = [req EXCEPT ![w] = NoRequest]
    /\ UNCHANGED <<zones, file, tmp, extension, out, running, mutex, op, copy, result, sent>>

\* Process's fallthrough, and the early returns of ProcessSet and ProcessDelete.
Refuse(w) ==
    /\ pc[w] = "process"
    /\ \/ req[w].verb = "HEAD" /\ Answer(w, 404)
       \/ /\ req[w].verb # "HEAD"
          /\ req[w].path # "zone"
          /\ Answer(w, 404)
       \/ /\ req[w].verb \in {"POST", "PUT", "PATCH"}
          /\ req[w].path = "zone"
          /\ req[w].name = Root
          /\ Answer(w, 400)

\* The worker calls CreateZone or Update with the zone z.
CallSet(w, create, z) ==
    /\ op' = [op EXCEPT ![w] =
                [kind  |-> IF create THEN "create" ELSE "update",
                 name  |-> req[w].name,
                 label |-> IF req[w].label = "" THEN Last(req[w].name) ELSE req[w].label,
                 zone  |-> z]]
    /\ pc' = [pc EXCEPT ![w] = IF create THEN "create" ELSE "enter"]
    /\ UNCHANGED <<zones, file, tmp, extension, out, running, mutex, copy, result, restVars>>

\* The exception leaves ProcessSet; main's lambda answers for it.
Uncaught(w) ==
    /\ pc' = [pc EXCEPT ![w] = "done"]
    /\ result' = [result EXCEPT ![w] = "uncaught"]
    /\ UNCHANGED <<zones, file, tmp, extension, out, running, mutex, op, copy, restVars>>

IsSet(w, verb) ==
    /\ pc[w] = "process"
    /\ req[w].verb = verb
    /\ req[w].path = "zone"
    /\ req[w].name # Root

ProcessPost(w) ==
    /\ IsSet(w, "POST")
    /\ CallSet(w, TRUE, req[w].zone)

\* LookupName throws when the zone it found has another name.
ProcessPut(w) ==
    /\ IsSet(w, "PUT")
    /\ \E found \in LookupName(zones, req[w].name) :
        \/ found = "died" /\ Die /\ UNCHANGED <<reply, sent>> /\ req' = [v \in Worker |-> NoRequest]
        \/ found = "mismatch" /\ Uncaught(w)
        \/ found \in {"none", "match"} /\ CallSet(w, found = "none", req[w].zone)

ProcessPatch(w) ==
    /\ IsSet(w, "PATCH")
    /\ \E found \in LookupName(zones, req[w].name) :
        \/ found = "died" /\ Die /\ UNCHANGED <<reply, sent>> /\ req' = [v \in Worker |-> NoRequest]
        \/ found \in {"none", "mismatch"} /\ CallSet(w, TRUE, req[w].zone)
        \/ /\ found = "match"
           /\ CallSet(w, FALSE, Merge(req[w].zone, zones.zone[Search(zones, req[w].name)]))

ProcessDelete(w) ==
    /\ pc[w] = "process"
    /\ req[w].verb = "DELETE"
    /\ req[w].path = "zone"
    /\ op' = [op EXCEPT ![w] = [NoCall EXCEPT !.kind = "delete", !.name = req[w].name]]
    /\ pc' = [pc EXCEPT ![w] = "enter"]
    /\ UNCHANGED <<zones, file, tmp, extension, out, running, mutex, copy, result, restVars>>

StatusOf(r) ==
    CASE r = "ok"            -> 200
      [] r = "AlreadyExists" -> 409
      [] r = "NotFound"      -> 404
      [] r = "uncaught"      -> 500
      [] OTHER               -> 400

Respond(w) ==
    /\ pc[w] = "done"
    /\ reply' = [reply EXCEPT ![w] = StatusOf(result[w])]
    /\ result' = [result EXCEPT ![w] = "none"]
    /\ req' = [req EXCEPT ![w] = NoRequest]
    /\ pc' = [pc EXCEPT ![w] = "idle"]
    /\ UNCHANGED <<zones, file, tmp, extension, out, running, mutex, op, copy, sent>>

\* A step inside the manager leaves the handler's state alone, unless it was the
\* process's last.
InManager(w) ==
    /\ MgrStep(w)
    /\ UNCHANGED <<reply, sent>>
    /\ req' = IF running' THEN req ELSE [v \in Worker |-> NoRequest]

-----------------------------------------------------------------------------
WorkerStep(w) ==
    \/ Refuse(w) \/ ProcessPost(w) \/ ProcessPut(w) \/ ProcessPatch(w)
    \/ ProcessDelete(w) \/ InManager(w) \/ Respond(w)

ProcessCrash ==
    /\ Crash
    /\ req' = [v \in Worker |-> NoRequest]
    /\ UNCHANGED <<reply, sent>>

Restart == Load /\ UNCHANGED restVars

\* Nothing more to do: every request is answered, or the file does not load.
Stopped ==
    /\ IF running
       THEN sent = MaxRequests /\ \A w \in Worker : pc[w] = "idle"
       ELSE file.state = "partial"
    /\ UNCHANGED vars

Next ==
    \/ \E w \in Worker : Receive(w) \/ WorkerStep(w)
    \/ ProcessCrash \/ Restart \/ Stopped

Spec == Init /\ [][Next]_vars

\* A thread that can run does; clients need not send, nobody need restart.
FairSpec == Spec /\ \A w \in Worker : WF_vars(WorkerStep(w))

-----------------------------------------------------------------------------
(* Properties.                                                             *)

ZS == INSTANCE ZoneStore WITH store <- zones.zone

\* The variables have the values their C++ types and the protocol allow.
TypeOK ==
    /\ zones \in Tree
    /\ file \in File
    /\ tmp \in {"missing", "partial"}
    /\ extension \in {".json", ".yaml"}
    /\ out \in {"closed", "open", "bad"}
    /\ running \in BOOLEAN
    /\ mutex \in Worker \cup {NoWorker}
    /\ pc \in [Worker -> {"idle", "process", "create", "enter", "done"} \cup Critical]
    /\ op \in [Worker -> Call]
    /\ copy \in [Worker -> Tree]
    /\ result \in [Worker -> Result]
    /\ req \in [Worker -> RequestType]
    /\ reply \in [Worker -> Status]
    /\ sent \in 0..MaxRequests

\* What a worker is about to save and swap in is one change away from the zones
\* that are served now, whatever the others have done since it began: no
\* committed change is lost by the copy-on-write (CreateZone, Update, Delete
\* hold mutex_ from CopyZones to the end of Commit).
NoLostUpdate ==
    \A w \in Worker :
        pc[w] \in Critical => mutex = w /\ Change(zones.zone, copy[w].zone)

\* A zone file that loads holds the zones that are served, or the change that
\* the worker at Swap is about to serve; after a crash, a restart serves at most
\* the change that was in flight (Commit: Save before the swap).
DiskAgrees ==
    /\ file.state = "missing" => Serialized(zones) = EmptyImage
    /\ file.state = "complete" =>
        \/ file.image = Serialized(zones)
        \/ \E w \in Worker : pc[w] = "swap" /\ file.image = Serialized(copy[w])
        \/ ~running /\ Change(zones.zone, file.image.zone)

\* The served tree is a tree: CreateZone's walk and Delete's erase keep the
\* child vectors and the nodes in step.
TreeWellFormed == WellFormed(zones)

\* No zone that is served has both a cname and addresses, although PATCH merges
\* into a zone that may have changed before Update takes the mutex
\* (doc/api.md: "you cannot specify both a/aaaa record(s) and a cname").
CnameExclusive == AllExclusive(zones.zone)

\* A zone under an authoritative Soa stays under one for as long as it exists:
\* no PUT, PATCH, DELETE, crash or restart strips a populated zone of its
\* authority (IncrementSerial throws before Commit when none is left).
SoaCoverageKept ==
    [][\A n \in Name :
        Authorities(zones.zone, n) # {} /\ Has(zones.zone, n) /\ Has(zones'.zone, n)
            => Authorities(zones'.zone, n) # {}]_vars

\* CreateZone reports a conflict only for a domain that exists at that moment,
\* and a create that commits was of one that did not (the unlocked LookupName
\* and the check under the mutex together).
ConflictIsReal ==
    [][\A w \in Worker : op[w].kind = "create" =>
        /\ result'[w] = "AlreadyExists" => Has(zones.zone, op[w].name)
        /\ pc'[w] = "save" => ~Has(zones.zone, op[w].name)]_vars

\* Whatever the requests have made of the zones, GET returns what doc/api.md says
\* (GetIsExact).  It reads nothing but the zones, so it is enough to ask when the
\* workers are idle.
ReadsAreExact == (running /\ \A w \in Worker : pc[w] = "idle") => GetIsExact(zones)

\* The zone manager does what ZoneStore promises, through threads, faults,
\* crashes and restarts.
ImplementsZoneStore == ZS!Spec

\* Every request a worker starts on comes to an end: no path leaves mutex_ locked
\* or a worker without its next step.
EveryRequestEnds == \A w \in Worker : pc[w] # "idle" ~> pc[w] = "idle"

-----------------------------------------------------------------------------
(* Promises of the documentation that the code does not keep.  Each is     *)
(* checked by a run of its own that shows how it fails.                    *)

\* The call of kind k that w is in gets its copy ready for Commit in this step.
Commits(w, k) == op[w].kind = k /\ pc[w] = "enter" /\ pc'[w] = "save"

\* PUT of a zone that exists modifies it, and never ends in an internal error
\* (doc/api.md: "if the zone exists, it will be modified to the new values").
\* It fails because GetDomainName follows parent pointers that CreateZone and
\* Delete left pointing to the wrong node.
PutModifiesExisting ==
    [][\A w \in Worker :
        pc[w] = "process" /\ req[w].verb = "PUT" /\ Has(zones.zone, req[w].name)
            => result'[w] # "uncaught"]_vars

\* w takes away only the zone it names and what is below it.
RemovesOnlyNamed(w) ==
    \A n \in Name : Has(zones.zone, n) /\ ~Has(copy'[w].zone, n) => IsPrefix(op[w].name, n)

\* The Soas above the zone that w names; the nearest of them gets a new serial.
SoasAbove(w) ==
    {m \in Name : m # op[w].name /\ IsPrefix(m, op[w].name) /\ Has(zones.zone, m)
                     /\ zones.zone[m].soa # NoSoa}

MovesParentSerial(w) ==
    \A m \in SoasAbove(w) :
        (\A k \in SoasAbove(w) : IsPrefix(k, m)) =>
            Has(copy'[w].zone, m) /\ copy'[w].zone[m].soa # zones.zone[m].soa

\* DELETE removes the zone it names and what is below it, and nothing else
\* (doc/api.md: "This deletes a zone and all it's subdomains"), and the Soa above has a
\* new serial (ZoneMgr.h:61: "Parent soa will have its serial number updated").  The
\* first fails because Search stays on the level of a zone that has no children, the
\* second because IncrementSerial takes the Soa of the zone that is about to be erased.
DeleteAsPromised ==
    [][\A w \in Worker : Commits(w, "delete") => RemovesOnlyNamed(w) /\ MovesParentSerial(w)]_vars

\* Update never takes a serial back when the request does not set one (ZoneMgr.h:
\* "soa.serial is not specified, the server will increment the serial number").
\* It fails because a Soa in the body comes with the default serial 1.
UpdateIncrementsSerial ==
    [][\A w \in Worker : Commits(w, "update") =>
        \A n \in Name : zones.zone[n] # NoZone /\ zones.zone[n].soa # NoSoa
                /\ copy'[w].zone[n].soa # NoSoa
            => copy'[w].zone[n].soa >= zones.zone[n].soa]_vars

\* After a crash there is a zone file that loads, or none (ZoneMgr.h on Create:
\* "Loads existing zones").  It fails because Save renames path.tmp before its
\* stream has been flushed.
FileSurvivesCrash == ~running => file.state # "partial"
=============================================================================
