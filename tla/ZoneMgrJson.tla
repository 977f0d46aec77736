---------------------------- MODULE ZoneMgrJson -----------------------------
(***************************************************************************)
(* ZoneMgrJson: the zones that are served, and the copy-on-write way they  *)
(* change.  A call takes the mutex, edits a copy, saves the copy to disk   *)
(* and swaps it in; any exception on the way drops the copy.  Each worker  *)
(* is a thread inside at most one call; op[w] holds the call's arguments   *)
(* and result[w] how it ended.                                             *)
(*                                                                         *)
(* Save writes path.tmp through an ofstream that is still open, and still  *)
(* buffering, when the file is renamed: the contents are on disk only when *)
(* the stream is destroyed as Save returns.                                *)
(***************************************************************************)
EXTENDS ZoneChange

CONSTANTS
    Worker,        \* threads that call the zone manager
    NoWorker,      \* the mutex is free
    StoredImage,   \* contents the zone file may have when the daemon first starts
    Faults         \* which faults may happen: a subset of FaultKind

FaultKind == {"crash", "open", "write"}

ASSUME WorkerAssumption == NoWorker \notin Worker
ASSUME FaultAssumption == Faults \subseteq FaultKind
ASSUME StoredImageAssumption ==
    \A i \in StoredImage : i \in Image /\ WellFormed(i) /\ AllExclusive(i.zone)

VARIABLES
    zones,      \* zones_, the tree that is served
    file,       \* the file at storage_path_
    tmp,        \* the file at storage_path_ + ".tmp"
    extension,  \* of storage_path_
    out,        \* the ofstream of the Save in progress
    running,    \* is the process up?
    mutex,      \* mutex_: the worker that holds it, or NoWorker
    pc,         \* where each worker is
    op,         \* the call it is in
    copy,       \* its working copy, once it has one
    result      \* how its call ended

mgrVars == <<zones, file, tmp, extension, out, running, mutex, pc, op, copy, result>>

Call == [kind : {"none", "create", "update", "delete"},
         name : Name \cup {Root}, label : Label \cup {""}, zone : ZoneData]
NoCall == [kind |-> "none", name |-> Root, label |-> "", zone |-> Blank]
NoCopy == InitParents(EmptyImage)

Result == {"none", "ok", "AlreadyExists", "NotFound", "Validate", "error", "uncaught"}

\* Where a worker holds the mutex and a finished copy.
Critical == {"save", "rename", "close", "swap"}

File == [state : {"missing", "partial", "complete"}, image : Image]
Missing == [state |-> "missing", image |-> EmptyImage]
Partial == [state |-> "partial", image |-> EmptyImage]

-----------------------------------------------------------------------------
\* Load: a missing file is an empty tree; one that does not parse stops the boot.
Loaded(f) == InitParents(f.image)

MgrInit ==
    /\ file \in {Missing} \cup {[state |-> "complete", image |-> i] : i \in StoredImage}
    /\ zones = Loaded(file)
    /\ tmp = "missing"
    /\ extension \in {".json", ".yaml"}
    /\ out = "closed"
    /\ running = TRUE
    /\ mutex = NoWorker
    /\ pc = [w \in Worker |-> "idle"]
    /\ op = [w \in Worker |-> NoCall]
    /\ copy = [w \in Worker |-> NoCopy]
    /\ result = [w \in Worker |-> "none"]

\* Mutant: an exception leaves the mutex locked.
ReturnLocked(w, r) ==
    /\ pc' = [pc EXCEPT ![w] = "done"]
    /\ op' = [op EXCEPT ![w] = NoCall]
    /\ copy' = [copy EXCEPT ![w] = NoCopy]
    /\ result' = [result EXCEPT ![w] = r]
    /\ UNCHANGED mutex

\* The call of w ends, normally or by an exception; lock_guard frees the mutex.
Return(w, r) ==
    /\ pc' = [pc EXCEPT ![w] = "done"]
    /\ op' = [op EXCEPT ![w] = NoCall]
    /\ copy' = [copy EXCEPT ![w] = NoCopy]
    /\ result' = [result EXCEPT ![w] = r]
    /\ mutex' = IF mutex = w THEN NoWorker ELSE mutex

\* The process is gone: threads, copies and buffers with it.  What `zones' last
\* was stays visible to the specification until Load replaces it.
Die ==
    /\ running' = FALSE
    /\ mutex' = NoWorker
    /\ out' = "closed"
    /\ pc' = [w \in Worker |-> "idle"]
    /\ op' = [w \in Worker |-> NoCall]
    /\ copy' = [w \in Worker |-> NoCopy]
    /\ result' = [w \in Worker |-> "none"]
    /\ UNCHANGED <<zones, file, tmp, extension>>

-----------------------------------------------------------------------------
\* CreateZone asks, without the mutex, whether the domain exists.
CreateLookup(w) ==
    /\ pc[w] = "create"
    /\ \E found \in LookupName(zones, op[w].name) :
        \/ /\ found = "died"
           /\ Die
        \/ /\ found = "match"
           /\ Return(w, "AlreadyExists")
           /\ UNCHANGED <<zones, file, tmp, extension, out, running>>
        \/ /\ found \in {"none", "mismatch"}
           /\ pc' = [pc EXCEPT ![w] = "enter"]
           /\ UNCHANGED <<zones, file, tmp, extension, out, running, mutex, op, copy, result>>

\* CreateZone and Update validate before they lock.
Invalid(w) ==
    /\ pc[w] = "enter"
    /\ op[w].kind # "delete"
    /\ ~Validate(op[w].name, op[w].label, op[w].zone)
    /\ Return(w, "Validate")
    /\ UNCHANGED <<zones, file, tmp, extension, out, running>>

\* Mutant: no lock_guard.
EnterUnlocked(w, kind) ==
    /\ pc[w] = "enter"
    /\ op[w].kind = kind
    /\ kind # "delete" => Validate(op[w].name, op[w].label, op[w].zone)
    /\ UNCHANGED <<zones, file, tmp, extension, out, running>>

\* The worker gets the mutex, with a call that may go on.
Enter(w, kind) ==
    /\ pc[w] = "enter"
    /\ op[w].kind = kind
    /\ kind # "delete" => Validate(op[w].name, op[w].label, op[w].zone)
    /\ mutex = NoWorker
    /\ UNCHANGED <<zones, file, tmp, extension, out, running>>

\* The edited copy c goes to Commit.
ToCommit(w, c) ==
    /\ mutex' = w
    /\ copy' = [copy EXCEPT ![w] = c]
    /\ op' = [op EXCEPT ![w] = NoCall]
    /\ pc' = [pc EXCEPT ![w] = "save"]
    /\ UNCHANGED result

\* Mutant: without an authority the edit goes through, with no serial to move.
EditUnchecked(w, n, edited) == ToCommit(w, WithSerial(edited, n))

\* CreateZone and Update after their edit: t, edited at n, gets its new serial and
\* goes to Commit; without an authority for n, IncrementSerial throws.
EditAndCommit(w, n, edited) ==
    \E t \in {edited} :
        \/ /\ Authorities(t.zone, n) = {}
           /\ Return(w, "Validate")
        \/ /\ Authorities(t.zone, n) # {}
           /\ ToCommit(w, WithSerial(t, n))

\* Mutant: the unlocked look at the zones is trusted.
CreateZoneUnchecked(w) ==
    /\ Enter(w, "create")
    /\ EditAndCommit(w, op[w].name, Insert(CopyZones(zones), op[w].name, op[w].zone))

CreateZone(w) ==
    LET n == op[w].name IN
    /\ Enter(w, "create")
    /\ \/ /\ Has(zones.zone, n)
          /\ Return(w, "AlreadyExists")
       \/ /\ ~Has(zones.zone, n)
          /\ EditAndCommit(w, n, Insert(CopyZones(zones), n, op[w].zone))

Update(w) ==
    /\ Enter(w, "update")
    /\ \E n \in {Search(zones, op[w].name)} :
        \/ /\ ~Has(zones.zone, n)
           /\ Return(w, "NotFound")
        \/ /\ Has(zones.zone, n)
           /\ EditAndCommit(w, n, Assign(CopyZones(zones), n, op[w].zone))

\* Delete needs an authority of the node, and never removes a root zone.
Delete(w) ==
    /\ Enter(w, "delete")
    /\ \E n \in {Search(zones, op[w].name)} :
        \/ /\ ~Has(zones.zone, n)
           /\ Return(w, "NotFound")
        \/ /\ Has(zones.zone, n)
           /\ Authorities(zones.zone, n) = {}
           /\ Return(w, "Validate")
        \/ /\ Has(zones.zone, n)
           /\ Authorities(zones.zone, n) # {}
           /\ IF Parent(n) = Root
              THEN Return(w, "NotFound")
              ELSE ToCommit(w, Erase(WithSerial(CopyZones(zones), n), n))

-----------------------------------------------------------------------------
(* Commit.  Save refuses a storage that is not .json (there always is a    *)
(* path, which Load has set and ZoneMgr::Create has looked at); opening    *)
(* the stream truncates path.tmp, and a stream that failed to open is not  *)
(* noticed.                                                                *)

SaveOpen(w) ==
    /\ pc[w] = "save"
    /\ \/ /\ extension # ".json"
          /\ Return(w, "error")
          /\ UNCHANGED <<tmp, out>>
       \/ /\ extension = ".json"
          /\ \/ tmp' = "partial" /\ out' = "open"
             \/ "open" \in Faults /\ out' = "bad" /\ UNCHANGED tmp
          /\ pc' = [pc EXCEPT ![w] = "rename"]
          /\ UNCHANGED <<mutex, op, copy, result>>
    /\ UNCHANGED <<zones, file, extension, running>>

\* Mutant: a rename that fails is ignored, as with the overload that does not throw.
SaveRenameNoThrow(w) ==
    /\ pc[w] = "rename"
    /\ \/ /\ tmp = "missing"
          /\ UNCHANGED <<file, tmp>>
       \/ /\ tmp = "partial"
          /\ file' = Partial
          /\ tmp' = "missing"
    /\ pc' = [pc EXCEPT ![w] = "close"]
    /\ UNCHANGED <<zones, extension, running, out, mutex, op, copy, result>>

\* filesystem::rename throws if there is no path.tmp.
SaveRename(w) ==
    /\ pc[w] = "rename"
    /\ \/ /\ tmp = "missing"
          /\ Return(w, "error")
          /\ out' = "closed"
          /\ UNCHANGED <<file, tmp>>
       \/ /\ tmp = "partial"
          /\ file' = Partial
          /\ tmp' = "missing"
          /\ pc' = [pc EXCEPT ![w] = "close"]
          /\ UNCHANGED <<out, mutex, op, copy, result>>
    /\ UNCHANGED <<zones, extension, running>>

\* Save returns and `out' is destroyed: the buffer is written, or the write
\* fails and nobody looks.
SaveClose(w) ==
    /\ pc[w] = "close"
    /\ \/ /\ out = "open"
          /\ file' = [state |-> "complete", image |-> Serialized(copy[w])]
       \/ /\ out = "bad" \/ "write" \in Faults
          /\ UNCHANGED file
    /\ out' = "closed"
    /\ pc' = [pc EXCEPT ![w] = "swap"]
    /\ UNCHANGED <<zones, tmp, extension, running, mutex, op, copy, result>>

\* zones_ = move(zones)
Swap(w) ==
    /\ pc[w] = "swap"
    /\ zones' = copy[w]
    /\ Return(w, "ok")
    /\ UNCHANGED <<file, tmp, extension, out, running>>

-----------------------------------------------------------------------------
Crash ==
    /\ running
    /\ "crash" \in Faults
    /\ Die

\* Mutant: a file that does not parse is taken for an empty one.
LoadLenient ==
    /\ ~running
    /\ zones' = Loaded(file)
    /\ running' = TRUE
    /\ UNCHANGED <<file, tmp, extension, out, mutex, pc, op, copy, result>>

\* Create: a new process loads the file.  With a file cut short, main ends with
\* an error and the daemon stays down.
Load ==
    /\ ~running
    /\ file.state # "partial"
    /\ zones' = Loaded(file)
    /\ running' = TRUE
    /\ UNCHANGED <<file, tmp, extension, out, mutex, pc, op, copy, result>>

MgrStep(w) ==
    \/ CreateLookup(w) \/ Invalid(w)
    \/ CreateZone(w) \/ Update(w) \/ Delete(w)
    \/ SaveOpen(w) \/ SaveRename(w) \/ SaveClose(w) \/ Swap(w)
=============================================================================
