------------------------- MODULE RestHandlerProofs --------------------------
(***************************************************************************)
(* Proofs about RestHandler for any set of workers, names, requests and    *)
(* faults: the inductive invariant, and from it the safety properties that *)
(* the runs check on small instances, and the refinement of ZoneStore.     *)
(***************************************************************************)
EXTENDS RestHandler, ZoneTreeProofs

-----------------------------------------------------------------------------
(* The inductive invariant.                                                *)

\* The worker that holds the mutex is the one with a finished copy.
MutexInv == \A w \in Worker : pc[w] \in Critical <=> mutex = w

\* CreateZone and Update are called with a name that has labels.
CallInv ==
    \A w \in Worker :
        pc[w] \in {"create", "enter"} /\ op[w].kind \in {"create", "update"}
            => op[w].name \in Name

\* A finished copy is a tree, one change away from the zones that are served.
CopyInv ==
    \A w \in Worker : pc[w] \in Critical =>
        WellFormed(copy[w]) /\ Change(zones.zone, copy[w].zone)

TreeInv == WellFormed(zones) /\ AllExclusive(zones.zone)

\* What the file holds at each point of Save, and after a crash.
FileInv ==
    /\ WellFormed(file.image)
    /\ file.state = "missing" =>
        file.image = EmptyImage /\ Serialized(zones) = EmptyImage
    /\ \A w \in Worker : pc[w] = "close" => file.state = "partial"
    /\ \A w \in Worker : pc[w] = "swap" =>
        /\ file.state # "missing"
        /\ file.state = "complete" => file.image = Serialized(copy[w])
    /\ file.state = "complete" /\ running /\ (\A w \in Worker : pc[w] # "swap")
        => file.image = Serialized(zones)
    /\ file.state = "complete" /\ ~running
        => file.image = Serialized(zones) \/ Change(zones.zone, file.image.zone)

\* No worker outlives the process.
DownInv == ~running => \A w \in Worker : pc[w] = "idle"

Rest == MutexInv /\ CallInv /\ CopyInv /\ TreeInv /\ FileInv /\ DownInv

IInv == TypeOK /\ Rest

-----------------------------------------------------------------------------
(* Images and trees.                                                       *)

\* The empty tree that Load makes of a missing file.
LEMMA EmptyImageFacts ==
    /\ EmptyImage \in Image
    /\ WellFormed(EmptyImage)
    /\ AllExclusive(EmptyImage.zone)
<1>1. EmptyImage \in Image
  BY DEF EmptyImage, Image
<1>2. \A n : ~Has(EmptyImage.zone, n)
  BY DEF EmptyImage, Has
<1>3. \A p \in Name \cup {Root} : EmptyImage.children[p] = << >>
  BY DEF EmptyImage
<1>4. IsInjective(<< >>) /\ Range(<< >>) = {}
  BY DEF IsInjective, Range
<1>5. WellFormed(EmptyImage)
  BY <1>2, <1>3, <1>4 DEF WellFormed, Closed
<1> QED  BY <1>1, <1>2, <1>5 DEF AllExclusive

\* Load gives back the zones that were saved.
LEMMA LoadedFacts ==
    ASSUME NEW i \in Image
    PROVE  /\ InitParents(i) \in Tree
           /\ Serialized(InitParents(i)) = i
           /\ InitParents(i).zone = i.zone
           /\ WellFormed(i) => WellFormed(InitParents(i))
<1>1. InitParents(i).zone = i.zone /\ InitParents(i).children = i.children
  BY DEF InitParents
<1>2. Serialized(InitParents(i)) = i
  BY <1>1 DEF Serialized, Image
<1> QED  BY <1>1, <1>2, CopyZonesFacts DEF WellFormed

\* The saved image of a tree is as well formed as the tree.
LEMMA SerializedFacts ==
    ASSUME NEW t \in Tree
    PROVE  /\ Serialized(t) \in Image
           /\ Serialized(t).zone = t.zone
           /\ WellFormed(t) => WellFormed(Serialized(t))
BY CopyType DEF Serialized, WellFormed

\* The type of a copy that does not exist yet.
LEMMA NoCopyType == NoCopy \in Tree
BY EmptyImageFacts, CopyZonesFacts DEF NoCopy

\* The type of the data CreateZone makes for a name on the way.
LEMMA BlankType == Blank \in ZoneData
BY DEF Blank, ZoneData, Opt

\* The type of the arguments of no call.
LEMMA NoCallType == NoCall \in Call
BY BlankType DEF NoCall, Call

\* The type of no request.
LEMMA NoRequestType == NoRequest \in RequestType
BY BlankType DEF NoRequest, RequestType

\* A finished copy keeps the promise about cnames.
LEMMA CopyExclusive ==
    ASSUME NEW s \in Tree, NEW t \in Tree, AllExclusive(s.zone), Change(s.zone, t.zone)
    PROVE  AllExclusive(t.zone)
BY CopyType, ChangeKeepsExclusive

-----------------------------------------------------------------------------
(* The steps that matter to the invariant, apart from the types.           *)

\* A worker without the mutex moves to another place without it.
LEMMA QuietStep ==
    ASSUME IInv, NEW w \in Worker, NEW q, q \notin Critical, pc[w] \notin Critical,
           running, pc' = [pc EXCEPT ![w] = q],
           UNCHANGED <<zones, file, running, mutex>>,
           \A v \in Worker \ {w} : copy'[v] = copy[v] /\ op'[v] = op[v],
           q \in {"create", "enter"} /\ op'[w].kind \in {"create", "update"}
             => op'[w].name \in Name
    PROVE  Rest'
<1>0. /\ \A v \in Worker \ {w} : pc'[v] = pc[v]
      /\ pc'[w] = q
  BY DEF IInv, TypeOK
<1>1. MutexInv'
  BY <1>0 DEF IInv, Rest, MutexInv
<1>2. CallInv'
  BY <1>0 DEF IInv, Rest, CallInv
<1>3. CopyInv'
  BY <1>0 DEF IInv, Rest, CopyInv
<1>4. FileInv'
  BY <1>0 DEF IInv, Rest, FileInv, Critical
<1> QED  BY <1>1, <1>2, <1>3, <1>4 DEF IInv, Rest, TreeInv, DownInv

\* The process dies, at any point of any call.
LEMMA DieStep ==
    ASSUME IInv, running, Die
    PROVE  Rest'
<1>1. \A w \in Worker : pc'[w] = "idle"
  BY DEF Die
<1>2. /\ mutex' = NoWorker /\ zones' = zones /\ file' = file /\ running' = FALSE
  BY DEF Die
<1>3. MutexInv'
  BY <1>1, <1>2, WorkerAssumption DEF MutexInv, Critical
<1>4. CallInv' /\ CopyInv' /\ DownInv'
  BY <1>1 DEF CallInv, CopyInv, DownInv, Critical
<1>5. TreeInv'
  BY <1>2 DEF IInv, Rest, TreeInv
<1>6. ASSUME file.state = "complete"
      PROVE  file.image = Serialized(zones) \/ Change(zones.zone, file.image.zone)
  <2>1. CASE \A w \in Worker : pc[w] # "swap"
    BY <1>6, <2>1 DEF IInv, Rest, FileInv
  <2>2. ASSUME NEW w \in Worker, pc[w] = "swap" PROVE Change(zones.zone, file.image.zone)
    <3>1. file.image = Serialized(copy[w]) /\ Change(zones.zone, copy[w].zone)
      BY <1>6, <2>2 DEF IInv, Rest, FileInv, CopyInv, Critical
    <3>2. copy[w] \in Tree
      BY DEF IInv, TypeOK
    <3> QED  BY <3>1, <3>2, SerializedFacts
  <2> QED  BY <2>1, <2>2
<1>7. FileInv'
  BY <1>1, <1>2, <1>6 DEF IInv, Rest, FileInv
<1> QED  BY <1>3, <1>4, <1>5, <1>7 DEF Rest

\* A worker gets the mutex with a finished copy.
LEMMA CommitStep ==
    ASSUME IInv, running, NEW w \in Worker, pc[w] = "enter", mutex = NoWorker,
           NEW c \in Tree, WellFormed(c), Change(zones.zone, c.zone), ToCommit(w, c),
           UNCHANGED <<zones, file, running>>
    PROVE  Rest'
<1>0. /\ pc'[w] = "save" /\ copy'[w] = c /\ mutex' = w /\ op'[w] = NoCall
      /\ \A v \in Worker \ {w} : pc'[v] = pc[v] /\ copy'[v] = copy[v] /\ op'[v] = op[v]
  BY DEF ToCommit, IInv, TypeOK
<1>1. \A v \in Worker : pc[v] \notin Critical
  BY WorkerAssumption DEF IInv, Rest, MutexInv
<1>2. MutexInv'
  BY <1>0, <1>1 DEF MutexInv, Critical
<1>3. CallInv'
  BY <1>0 DEF IInv, Rest, CallInv
<1>4. CopyInv'
  BY <1>0, <1>1 DEF CopyInv
<1>5. FileInv'
  BY <1>0, <1>1 DEF IInv, Rest, FileInv, Critical
<1> QED  BY <1>2, <1>3, <1>4, <1>5 DEF IInv, Rest, TreeInv, DownInv

\* The holder of the mutex goes on inside Commit, or leaves it by an exception.
LEMMA HolderStep ==
    ASSUME IInv, running, NEW w \in Worker, NEW q,
           pc[w] \in Critical, pc' = [pc EXCEPT ![w] = q],
           UNCHANGED <<zones, running>>,
           q \in Critical => mutex' = mutex /\ copy' = copy,
           q \notin Critical => q = "done" /\ mutex' = NoWorker,
           \A v \in Worker \ {w} : op'[v] = op[v],
           FileInv'
    PROVE  Rest'
<1>0. pc'[w] = q /\ \A v \in Worker \ {w} : pc'[v] = pc[v]
  BY DEF IInv, TypeOK
<1>1. \A v \in Worker \ {w} : pc[v] \notin Critical
  BY DEF IInv, Rest, MutexInv
<1>2. mutex = w
  BY DEF IInv, Rest, MutexInv
<1>3. MutexInv'
  BY <1>0, <1>1, <1>2, WorkerAssumption DEF MutexInv
<1>4. CallInv'
  BY <1>0 DEF IInv, Rest, CallInv, Critical
<1>5. CopyInv'
  BY <1>0, <1>1 DEF IInv, Rest, CopyInv
<1> QED  BY <1>3, <1>4, <1>5 DEF IInv, Rest, TreeInv, DownInv

-----------------------------------------------------------------------------
(* Each action keeps the invariant.                                        *)

\* Ending a call keeps the types.
LEMMA ReturnType ==
    ASSUME TypeOK, NEW w \in Worker, NEW r \in Result, Return(w, r)
    PROVE  /\ pc' \in [Worker -> {"idle", "process", "create", "enter", "done"} \cup Critical]
           /\ op' \in [Worker -> Call]
           /\ copy' \in [Worker -> Tree]
           /\ result' \in [Worker -> Result]
           /\ mutex' \in Worker \cup {NoWorker}
BY NoCallType, NoCopyType DEF TypeOK, Return

\* A crash keeps the types.
LEMMA DieType ==
    ASSUME TypeOK, Die, req' = [v \in Worker |-> NoRequest], UNCHANGED <<reply, sent>>
    PROVE  TypeOK'
<1>1. /\ op' \in [Worker -> Call] /\ copy' \in [Worker -> Tree]
      /\ req' \in [Worker -> RequestType]
  BY NoCallType, NoCopyType, NoRequestType DEF Die
<1>2. /\ pc' \in [Worker -> {"idle", "process", "create", "enter", "done"} \cup Critical]
      /\ result' \in [Worker -> Result]
  BY DEF Die, Result
<1> QED  BY <1>1, <1>2 DEF TypeOK, Die

\* A worker is in the middle of something only while the process runs.
LEMMA BusyMeansUp ==
    ASSUME IInv, NEW w \in Worker, pc[w] # "idle"
    PROVE  running
BY DEF IInv, Rest, DownInv

\* A call that ends without the mutex.
LEMMA QuietReturn ==
    ASSUME IInv, NEW w \in Worker, pc[w] \in {"create", "enter"}, NEW r \in Result,
           Return(w, r),
           UNCHANGED <<zones, file, tmp, extension, out, running, req, reply, sent>>
    PROVE  IInv'
<1>1. running /\ pc[w] \notin Critical /\ mutex # w
  BY BusyMeansUp DEF IInv, Rest, MutexInv, Critical
<1>2. /\ pc' = [pc EXCEPT ![w] = "done"] /\ mutex' = mutex
      /\ \A v \in Worker \ {w} : copy'[v] = copy[v] /\ op'[v] = op[v]
  BY <1>1 DEF Return, IInv, TypeOK
<1>3. Rest'
  BY <1>1, <1>2, QuietStep DEF Critical
<1>4. TypeOK'
  BY ReturnType DEF IInv, TypeOK
<1> QED  BY <1>3, <1>4 DEF IInv

\* CreateZone's unlocked look, and validation.
LEMMA BeforeLock ==
    ASSUME IInv, NEW w \in Worker, CreateLookup(w) \/ Invalid(w),
           UNCHANGED <<reply, sent>>,
           req' = IF running' THEN req ELSE [v \in Worker |-> NoRequest]
    PROVE  IInv'
<1>1. CASE CreateLookup(w)
  <2>0. pc[w] = "create" /\ running
    BY <1>1, BusyMeansUp DEF CreateLookup
  <2>1. CASE Die
    <3>1. req' = [v \in Worker |-> NoRequest]
      BY <2>1 DEF Die
    <3> QED  BY <2>0, <2>1, <3>1, DieStep, DieType DEF IInv
  <2>2. CASE /\ Return(w, "AlreadyExists")
             /\ UNCHANGED <<zones, file, tmp, extension, out, running>>
    BY <2>0, <2>2, QuietReturn DEF Result
  <2>3. CASE /\ pc' = [pc EXCEPT ![w] = "enter"]
             /\ UNCHANGED <<zones, file, tmp, extension, out, running, mutex, op, copy, result>>
    <3>1. op'[w].kind \in {"create", "update"} => op'[w].name \in Name
      BY <2>0, <2>3 DEF IInv, Rest, CallInv
    <3>2. Rest'
      BY <2>0, <2>3, <3>1, QuietStep DEF Critical
    <3>3. TypeOK'
      BY <2>0, <2>3 DEF IInv, TypeOK
    <3> QED  BY <3>2, <3>3 DEF IInv
  <2> QED  BY <1>1, <2>1, <2>2, <2>3 DEF CreateLookup
<1>2. CASE Invalid(w)
  <2>1. /\ pc[w] = "enter" /\ running /\ Return(w, "Validate")
        /\ UNCHANGED <<zones, file, tmp, extension, out, running>>
    BY <1>2, BusyMeansUp DEF Invalid
  <2> QED  BY <2>1, QuietReturn DEF Result
<1> QED  BY <1>1, <1>2

\* The types after a worker got the mutex with the copy c.
LEMMA CommitType ==
    ASSUME TypeOK, NEW w \in Worker, NEW c \in Tree, ToCommit(w, c),
           UNCHANGED <<zones, file, tmp, extension, out, running, req, reply, sent>>
    PROVE  TypeOK'
BY NoCallType DEF TypeOK, ToCommit, Critical

\* A call that goes to Commit keeps the invariant.
LEMMA Commit ==
    ASSUME IInv, NEW w \in Worker, pc[w] = "enter", mutex = NoWorker,
           NEW c \in Tree, WellFormed(c), Change(zones.zone, c.zone), ToCommit(w, c),
           UNCHANGED <<zones, file, tmp, extension, out, running, req, reply, sent>>
    PROVE  IInv'
<1>1. running
  BY BusyMeansUp
<1>2. Rest'
  BY <1>1, CommitStep
<1>3. TypeOK'
  BY CommitType DEF IInv
<1> QED  BY <1>2, <1>3 DEF IInv

\* The three edits under the mutex.
LEMMA Edits ==
    ASSUME IInv, NEW w \in Worker, CreateZone(w) \/ Update(w) \/ Delete(w),
           UNCHANGED <<reply, sent>>,
           req' = IF running' THEN req ELSE [v \in Worker |-> NoRequest]
    PROVE  IInv'
<1> DEFINE z == op[w].zone
<1>0. /\ pc[w] = "enter" /\ mutex = NoWorker /\ running
      /\ UNCHANGED <<zones, file, tmp, extension, out, running>>
      /\ zones \in Tree /\ WellFormed(zones) /\ z \in ZoneData
  <2>1. /\ pc[w] = "enter" /\ mutex = NoWorker
        /\ UNCHANGED <<zones, file, tmp, extension, out, running>>
    BY DEF CreateZone, Update, Delete, Enter
  <2> QED  BY <2>1, BusyMeansUp DEF IInv, TypeOK, Call, Rest, TreeInv
<1>1. req' = req
  BY <1>0
<1>2. ASSUME NEW r \in Result, Return(w, r) PROVE IInv'
  BY <1>0, <1>1, <1>2, QuietReturn
<1>3. ASSUME NEW c \in Tree, WellFormed(c), Change(zones.zone, c.zone), ToCommit(w, c)
      PROVE  IInv'
  BY <1>0, <1>1, <1>3, Commit
<1>4. CASE CreateZone(w)
  <2> DEFINE n == op[w].name
             t == Insert(CopyZones(zones), n, z)
  <2>1. n \in Name /\ Exclusive(z)
    BY <1>0, <1>4 DEF CreateZone, Enter, Validate, IInv, Rest, CallInv
  <2>2. CASE Return(w, "AlreadyExists")
    BY <1>2, <2>2 DEF Result
  <2>3. CASE ~Has(zones.zone, n) /\ EditAndCommit(w, n, t)
    <3>1. CASE Return(w, "Validate")
      BY <1>2, <3>1 DEF Result
    <3>2. CASE Authorities(t.zone, n) # {} /\ ToCommit(w, WithSerial(t, n))
      <4>1. /\ WithSerial(t, n) \in Tree /\ WellFormed(WithSerial(t, n))
            /\ Change(zones.zone, WithSerial(t, n).zone)
        BY <1>0, <2>1, <2>3, <3>2, InsertIsChange
      <4> QED  BY <1>3, <3>2, <4>1
    <3> QED  BY <2>3, <3>1, <3>2 DEF EditAndCommit
  <2> QED  BY <1>4, <2>2, <2>3 DEF CreateZone
<1>5. CASE Update(w)
  <2> DEFINE n == Search(zones, op[w].name)
             t == Assign(CopyZones(zones), n, z)
  <2>1. Exclusive(z)
    BY <1>5 DEF Update, Enter, Validate
  <2>2. CASE Return(w, "NotFound")
    BY <1>2, <2>2 DEF Result
  <2>3. CASE Has(zones.zone, n) /\ EditAndCommit(w, n, t)
    <3>0. n \in Name
      BY <2>3 DEF Has
    <3>1. CASE Return(w, "Validate")
      BY <1>2, <3>1 DEF Result
    <3>2. CASE Authorities(t.zone, n) # {} /\ ToCommit(w, WithSerial(t, n))
      <4>1. /\ WithSerial(t, n) \in Tree /\ WellFormed(WithSerial(t, n))
            /\ Change(zones.zone, WithSerial(t, n).zone)
        BY <1>0, <2>1, <2>3, <3>0, <3>2, AssignIsChange
      <4> QED  BY <1>3, <3>2, <4>1
    <3> QED  BY <2>3, <3>1, <3>2 DEF EditAndCommit
  <2> QED  BY <1>5, <2>2, <2>3 DEF Update
<1>6. CASE Delete(w)
  <2> DEFINE n == Search(zones, op[w].name)
             c == Erase(WithSerial(CopyZones(zones), n), n)
  <2>1. CASE Return(w, "NotFound") \/ Return(w, "Validate")
    BY <1>2, <2>1 DEF Result
  <2>2. CASE /\ Has(zones.zone, n) /\ Authorities(zones.zone, n) # {}
             /\ Parent(n) # Root /\ ToCommit(w, c)
    <3>1. n \in Name
      BY <2>2 DEF Has
    <3>2. c \in Tree /\ WellFormed(c) /\ Change(zones.zone, c.zone)
      BY <1>0, <2>2, <3>1, EraseIsChange
    <3> QED  BY <1>3, <2>2, <3>2
  <2> QED  BY <1>6, <2>1, <2>2 DEF Delete
<1> QED  BY <1>4, <1>5, <1>6

\* Save and the swap.
LEMMA SaveOpenKeeps ==
    ASSUME IInv, NEW w \in Worker, SaveOpen(w), UNCHANGED restVars
    PROVE  IInv'
<1>0. /\ pc[w] = "save" /\ running /\ pc[w] \in Critical /\ mutex = w
      /\ UNCHANGED <<zones, file, extension, running>>
  BY BusyMeansUp DEF SaveOpen, IInv, Rest, MutexInv, Critical
<1>1. \A v \in Worker \ {w} : pc[v] \notin Critical
  BY <1>0 DEF IInv, Rest, MutexInv
<1>2. CASE Return(w, "error") /\ UNCHANGED <<tmp, out>>
  <2>1. /\ pc' = [pc EXCEPT ![w] = "done"] /\ mutex' = NoWorker
        /\ \A v \in Worker \ {w} : op'[v] = op[v] /\ pc'[v] = pc[v]
        /\ pc'[w] = "done"
    BY <1>0, <1>2 DEF Return, IInv, TypeOK
  <2>2. FileInv'
    BY <1>0, <1>1, <2>1 DEF IInv, Rest, FileInv, Critical
  <2>3. Rest'
    <3>1. "done" \notin Critical
      BY DEF Critical
    <3> QED  BY <1>0, <2>1, <2>2, <3>1, HolderStep
  <2>4. TypeOK'
    BY <1>0, <1>2, ReturnType DEF IInv, TypeOK, Result, restVars
  <2> QED  BY <2>3, <2>4 DEF IInv
<1>3. CASE /\ \/ tmp' = "partial" /\ out' = "open"
              \/ out' = "bad" /\ UNCHANGED tmp
           /\ pc' = [pc EXCEPT ![w] = "rename"]
           /\ UNCHANGED <<mutex, op, copy, result>>
  <2>1. pc'[w] = "rename" /\ \A v \in Worker \ {w} : pc'[v] = pc[v]
    BY <1>3 DEF IInv, TypeOK
  <2>2. FileInv'
    BY <1>0, <1>1, <1>3, <2>1 DEF IInv, Rest, FileInv, Critical
  <2>3. Rest'
    BY <1>0, <1>3, <2>2, HolderStep DEF Critical
  <2>4. TypeOK'
    BY <1>0, <1>3 DEF IInv, TypeOK, Critical, restVars
  <2> QED  BY <2>3, <2>4 DEF IInv
<1> QED  BY <1>2, <1>3 DEF SaveOpen

\* Save: the rename, while the stream is still buffering.
LEMMA SaveRenameKeeps ==
    ASSUME IInv, NEW w \in Worker, SaveRename(w), UNCHANGED restVars
    PROVE  IInv'
<1>0. /\ pc[w] = "rename" /\ running /\ pc[w] \in Critical /\ mutex = w
      /\ UNCHANGED <<zones, extension, running>>
  BY BusyMeansUp DEF SaveRename, IInv, Rest, MutexInv, Critical
<1>1. \A v \in Worker \ {w} : pc[v] \notin Critical
  BY <1>0 DEF IInv, Rest, MutexInv
<1>2. CASE Return(w, "error") /\ out' = "closed" /\ UNCHANGED <<file, tmp>>
  <2>1. /\ pc' = [pc EXCEPT ![w] = "done"] /\ mutex' = NoWorker
        /\ \A v \in Worker \ {w} : op'[v] = op[v] /\ pc'[v] = pc[v]
        /\ pc'[w] = "done"
    BY <1>0, <1>2 DEF Return, IInv, TypeOK
  <2>2. FileInv'
    BY <1>0, <1>1, <1>2, <2>1 DEF IInv, Rest, FileInv, Critical
  <2>3. Rest'
    <3>1. "done" \notin Critical
      BY DEF Critical
    <3> QED  BY <1>0, <2>1, <2>2, <3>1, HolderStep
  <2>4. TypeOK'
    BY <1>0, <1>2, ReturnType DEF IInv, TypeOK, Result, restVars
  <2> QED  BY <2>3, <2>4 DEF IInv
<1>3. CASE /\ file' = Partial /\ tmp' = "missing"
           /\ pc' = [pc EXCEPT ![w] = "close"]
           /\ UNCHANGED <<out, mutex, op, copy, result>>
  <2>1. pc'[w] = "close" /\ \A v \in Worker \ {w} : pc'[v] = pc[v]
    BY <1>3 DEF IInv, TypeOK
  <2>2. file' \in File /\ file'.state = "partial" /\ WellFormed(file'.image)
    BY <1>3, EmptyImageFacts DEF Partial, File
  <2>3. FileInv'
    BY <1>0, <1>1, <2>1, <2>2 DEF FileInv, Critical
  <2>4. Rest'
    BY <1>0, <1>3, <2>3, HolderStep DEF Critical
  <2>5. TypeOK'
    BY <1>0, <1>3, <2>2 DEF IInv, TypeOK, Critical, restVars
  <2> QED  BY <2>4, <2>5 DEF IInv
<1> QED  BY <1>2, <1>3 DEF SaveRename

\* Save: the stream is destroyed, and its buffer written or lost.
LEMMA SaveCloseKeeps ==
    ASSUME IInv, NEW w \in Worker, SaveClose(w), UNCHANGED restVars
    PROVE  IInv'
<1>0. /\ pc[w] = "close" /\ running /\ pc[w] \in Critical /\ mutex = w
      /\ pc' = [pc EXCEPT ![w] = "swap"] /\ out' = "closed"
      /\ UNCHANGED <<zones, tmp, extension, running, mutex, op, copy, result>>
      /\ copy[w] \in Tree /\ WellFormed(copy[w])
  BY BusyMeansUp DEF SaveClose, IInv, TypeOK, Rest, MutexInv, CopyInv, Critical
<1>1. \A v \in Worker \ {w} : pc[v] \notin Critical
  BY <1>0 DEF IInv, Rest, MutexInv
<1>2. pc'[w] = "swap" /\ \A v \in Worker \ {w} : pc'[v] = pc[v]
  BY <1>0 DEF IInv, TypeOK
<1>3. file' = [state |-> "complete", image |-> Serialized(copy[w])] \/ file' = file
  BY DEF SaveClose
<1>4. file' \in File /\ FileInv'
  <2>1. CASE file' = [state |-> "complete", image |-> Serialized(copy[w])]
    <3>1. /\ file' \in File /\ WellFormed(file'.image) /\ file'.state = "complete"
          /\ file'.image = Serialized(copy'[w])
      BY <1>0, <2>1, SerializedFacts DEF File
    <3> QED  BY <1>0, <1>1, <1>2, <3>1 DEF FileInv, Critical
  <2>2. CASE file' = file
    BY <1>0, <1>1, <1>2, <2>2 DEF IInv, TypeOK, Rest, FileInv, Critical
  <2> QED  BY <1>3, <2>1, <2>2
<1>5. Rest'
  BY <1>0, <1>4, HolderStep DEF Critical
<1>6. TypeOK'
  BY <1>0, <1>4 DEF IInv, TypeOK, Critical, restVars
<1> QED  BY <1>5, <1>6 DEF IInv

\* zones_ = move(zones): the copy is served, and that is one change.
LEMMA SwapKeeps ==
    ASSUME IInv, NEW w \in Worker, Swap(w), UNCHANGED restVars
    PROVE  IInv' /\ Change(zones.zone, zones'.zone)
<1>0. /\ pc[w] = "swap" /\ running /\ pc[w] \in Critical /\ mutex = w
      /\ zones' = copy[w] /\ Return(w, "ok")
      /\ UNCHANGED <<file, tmp, extension, out, running>>
      /\ copy[w] \in Tree /\ WellFormed(copy[w]) /\ Change(zones.zone, copy[w].zone)
      /\ zones \in Tree /\ AllExclusive(zones.zone)
  BY BusyMeansUp DEF Swap, IInv, TypeOK, Rest, MutexInv, CopyInv, TreeInv, Critical
<1>1. \A v \in Worker \ {w} : pc[v] \notin Critical
  BY <1>0 DEF IInv, Rest, MutexInv
<1>2. /\ pc'[w] = "done" /\ mutex' = NoWorker
      /\ \A v \in Worker \ {w} : op'[v] = op[v] /\ pc'[v] = pc[v]
  BY <1>0 DEF Return, IInv, TypeOK
<1>3. MutexInv' /\ CopyInv'
  BY <1>1, <1>2, WorkerAssumption DEF MutexInv, CopyInv, Critical
<1>4. CallInv'
  BY <1>2 DEF IInv, Rest, CallInv
<1>5. TreeInv'
  BY <1>0, CopyExclusive DEF TreeInv
<1>6. FileInv'
  BY <1>0, <1>1, <1>2 DEF IInv, Rest, FileInv, Critical
<1>7. DownInv'
  BY <1>0 DEF DownInv
<1>8. TypeOK'
  BY <1>0, ReturnType DEF IInv, TypeOK, Result, restVars
<1> QED  BY <1>0, <1>3, <1>4, <1>5, <1>6, <1>7, <1>8 DEF IInv, Rest

\* A restart serves what it served before, or the change that was in flight.
LEMMA RestartKeeps ==
    ASSUME IInv, Restart
    PROVE  IInv' /\ (zones'.zone = zones.zone \/ Change(zones.zone, zones'.zone))
<1>0. /\ ~running /\ running' /\ file.state # "partial" /\ zones' = InitParents(file.image)
      /\ UNCHANGED <<file, tmp, extension, out, mutex, pc, op, copy, result>>
      /\ UNCHANGED restVars
      /\ file \in File /\ file.image \in Image /\ WellFormed(file.image)
      /\ zones \in Tree /\ AllExclusive(zones.zone)
  BY DEF Restart, Load, Loaded, IInv, TypeOK, File, Rest, FileInv, TreeInv
<1>1. /\ zones' \in Tree /\ WellFormed(zones') /\ zones'.zone = file.image.zone
      /\ Serialized(zones') = file.image
  BY <1>0, LoadedFacts
<1>2. zones'.zone = zones.zone \/ Change(zones.zone, zones'.zone)
  <2>1. CASE file.image = Serialized(zones)
    BY <1>0, <1>1, <2>1, SerializedFacts
  <2>2. CASE Change(zones.zone, file.image.zone)
    BY <1>1, <2>2
  <2> QED  BY <1>0, <2>1, <2>2 DEF IInv, Rest, FileInv, File
<1>3. TreeInv'
  BY <1>0, <1>1, <1>2, CopyExclusive DEF TreeInv
<1>4. \A w \in Worker : pc'[w] = "idle"
  BY <1>0 DEF IInv, Rest, DownInv
<1>5. MutexInv' /\ CallInv'
  BY <1>0 DEF IInv, Rest, MutexInv, CallInv
<1>6. CopyInv' /\ DownInv'
  BY <1>4 DEF CopyInv, DownInv, Critical
<1>7. FileInv'
  BY <1>0, <1>1, <1>4 DEF IInv, Rest, FileInv
<1>8. TypeOK'
  BY <1>0, <1>1 DEF IInv, TypeOK, restVars
<1> QED  BY <1>2, <1>3, <1>5, <1>6, <1>7, <1>8 DEF IInv, Rest

-----------------------------------------------------------------------------
(* The handler's own steps.                                                *)

\* PATCH calls Update with a zone of the right type.
LEMMA MergeType ==
    ASSUME NEW z \in ZoneData, NEW old \in ZoneData
    PROVE  Merge(z, old) \in ZoneData
<1> DEFINE noAddress == z.a = "absent" /\ z.aaaa = "absent" /\ z.cname = "absent"
           keepIp    == z.cname \notin Value
           Or(x, y)  == IF x = "absent" THEN y ELSE x
           soa   == IF z.soa = NoSoa THEN old.soa ELSE z.soa
           a     == IF keepIp THEN Or(z.a, old.a) ELSE z.a
           aaaa  == IF keepIp THEN Or(z.aaaa, old.aaaa) ELSE z.aaaa
           cname == IF noAddress THEN StringOf(old.cname) ELSE z.cname
           txt   == Or(z.txt, StringOf(old.txt))
           ns    == Or(z.ns, old.ns)
           mx    == Or(z.mx, old.mx)
<1>1. \A o \in Opt : StringOf(o) \in Opt
  BY DEF StringOf, Opt
<1>2. \A y \in {z, old} :
        /\ y.soa \in {NoSoa} \cup 0..(SerialMod - 1) /\ y.authorative \in BOOLEAN
        /\ y.txt \in Opt /\ y.a \in Opt /\ y.aaaa \in Opt
        /\ y.cname \in Opt /\ y.ns \in Opt /\ y.mx \in Opt
  BY DEF ZoneData
<1>3. soa \in {NoSoa} \cup 0..(SerialMod - 1)
  BY <1>2
<1>4. a \in Opt /\ aaaa \in Opt
  BY <1>2
<1>5. cname \in Opt /\ txt \in Opt
  BY <1>1, <1>2
<1>6. ns \in Opt /\ mx \in Opt
  BY <1>2
<1>7. Merge(z, old) = [z EXCEPT !.soa = soa, !.a = a, !.aaaa = aaaa, !.cname = cname,
                                !.txt = txt, !.ns = ns, !.mx = mx]
  BY DEF Merge
<1> HIDE DEF soa, a, aaaa, cname, txt, ns, mx
<1> QED  BY <1>3, <1>4, <1>5, <1>6, <1>7 DEF ZoneData

\* LookupName says "match" only of a node that exists.
LEMMA MatchExists ==
    ASSUME NEW t, NEW key, "match" \in LookupName(t, key)
    PROVE  Has(t.zone, Search(t, key))
BY DEF LookupName

\* The worker calls CreateZone, Update or Delete.
LEMMA CallKeeps ==
    ASSUME IInv, NEW w \in Worker, pc[w] = "process", NEW q \in {"create", "enter"},
           NEW c \in Call, c.kind \in {"create", "update"} => c.name \in Name,
           op' = [op EXCEPT ![w] = c], pc' = [pc EXCEPT ![w] = q],
           UNCHANGED <<zones, file, tmp, extension, out, running, mutex, copy, result, restVars>>
    PROVE  IInv'
<1>1. running /\ pc[w] \notin Critical /\ q \notin Critical
  BY BusyMeansUp DEF Critical
<1>2. op'[w] = c /\ \A v \in Worker \ {w} : copy'[v] = copy[v] /\ op'[v] = op[v]
  BY DEF IInv, TypeOK
<1>3. Rest'
  BY <1>1, <1>2, QuietStep
<1>4. TypeOK'
  BY DEF IInv, TypeOK, restVars
<1> QED  BY <1>3, <1>4 DEF IInv

\* The first host label of a name.
LEMMA LastIsLabel ==
    ASSUME NEW n \in Name PROVE Last(n) \in Label
<1>1. n \in Seq(Label) /\ n # << >>
  BY NameAssumption DEF Root
<1>2. Len(n) \in 1..Len(n)
  BY <1>1
<1> QED  BY <1>1, <1>2 DEF Last

\* ProcessSet's call of CreateZone or Update.
LEMMA CallSetKeeps ==
    ASSUME IInv, NEW w \in Worker, NEW verb, IsSet(w, verb), NEW create \in BOOLEAN,
           NEW z \in ZoneData, CallSet(w, create, z)
    PROVE  IInv'
<1> DEFINE c == [kind  |-> IF create THEN "create" ELSE "update",
                 name  |-> req[w].name,
                 label |-> IF req[w].label = "" THEN Last(req[w].name) ELSE req[w].label,
                 zone  |-> z]
           q == IF create THEN "create" ELSE "enter"
<1>1. /\ pc[w] = "process" /\ req[w].name \in Name
      /\ req[w].label \in Label \cup {""}
  BY DEF IsSet, IInv, TypeOK, RequestType
<1>2. Last(req[w].name) \in Label
  BY <1>1, LastIsLabel
<1>3. c \in Call /\ c.name \in Name
  BY <1>1, <1>2 DEF Call
<1>4. q \in {"create", "enter"}
  OBVIOUS
<1>5. /\ op' = [op EXCEPT ![w] = c] /\ pc' = [pc EXCEPT ![w] = q]
      /\ UNCHANGED <<zones, file, tmp, extension, out, running, mutex, copy, result, restVars>>
  BY DEF CallSet
<1> HIDE DEF c, q
<1> QED  BY <1>1, <1>3, <1>4, <1>5, CallKeeps

\* The worker moves without a call: a request comes in, an answer goes out, an
\* exception leaves the handler.
LEMMA HandlerKeeps ==
    ASSUME IInv, NEW w \in Worker, running, pc[w] \in {"idle", "process", "done"},
           NEW q \in {"idle", "process", "done"}, pc' = [pc EXCEPT ![w] = q],
           UNCHANGED <<zones, file, tmp, extension, out, running, mutex, op, copy>>,
           result' \in [Worker -> Result], req' \in [Worker -> RequestType],
           reply' \in [Worker -> Status], sent' \in 0..MaxRequests
    PROVE  IInv'
<1>1. pc[w] \notin Critical /\ q \notin Critical /\ q \notin {"create", "enter"}
  BY DEF Critical
<1>2. Rest'
  BY <1>1, QuietStep
<1>3. TypeOK'
  BY DEF IInv, TypeOK
<1> QED  BY <1>2, <1>3 DEF IInv

\* A request comes in.
LEMMA ReceiveKeeps ==
    ASSUME IInv, NEW w \in Worker, Receive(w) PROVE IInv'
<1>1. PICK r \in Request : req' = [req EXCEPT ![w] = r]
  BY DEF Receive
<1>2. req' \in [Worker -> RequestType] /\ reply' \in [Worker -> Status]
  BY <1>1, RequestAssumption DEF Receive, IInv, TypeOK, Status
<1>3. sent' \in 0..MaxRequests
  BY RequestAssumption DEF Receive, IInv, TypeOK
<1> QED  BY <1>2, <1>3, HandlerKeeps DEF Receive, IInv, TypeOK

\* A request is answered without a call.
LEMMA RefuseKeeps ==
    ASSUME IInv, NEW w \in Worker, Refuse(w) PROVE IInv'
<1>1. PICK s \in {404, 400} : Answer(w, s) /\ pc[w] = "process"
  BY DEF Refuse
<1>2. running
  BY <1>1, BusyMeansUp
<1>3. req' \in [Worker -> RequestType] /\ reply' \in [Worker -> Status]
  BY <1>1, NoRequestType DEF Answer, IInv, TypeOK, Status
<1> QED  BY <1>1, <1>2, <1>3, HandlerKeeps DEF Answer, IInv, TypeOK

\* The end of a call is turned into a status.
LEMMA RespondKeeps ==
    ASSUME IInv, NEW w \in Worker, Respond(w) PROVE IInv'
<1>1. pc[w] = "done" /\ running
  BY BusyMeansUp DEF Respond
<1>2. StatusOf(result[w]) \in Status
  BY DEF StatusOf, Status
<1>3. /\ req' \in [Worker -> RequestType] /\ reply' \in [Worker -> Status]
      /\ result' \in [Worker -> Result]
  BY <1>2, NoRequestType DEF Respond, IInv, TypeOK, Result
<1> QED  BY <1>1, <1>3, HandlerKeeps DEF Respond, IInv, TypeOK

\* LookupName throws out of ProcessSet.
LEMMA UncaughtKeeps ==
    ASSUME IInv, NEW w \in Worker, pc[w] = "process", Uncaught(w) PROVE IInv'
<1>1. running
  BY BusyMeansUp
<1>2. result' \in [Worker -> Result]
  BY DEF Uncaught, IInv, TypeOK, Result
<1> QED  BY <1>1, <1>2, HandlerKeeps DEF Uncaught, IInv, TypeOK, restVars

\* ProcessSet and ProcessDelete call the manager.
LEMMA ProcessKeeps ==
    ASSUME IInv, NEW w \in Worker,
           ProcessPost(w) \/ ProcessPut(w) \/ ProcessPatch(w) \/ ProcessDelete(w)
    PROVE  IInv'
<1>0. pc[w] = "process" /\ running /\ req[w].zone \in ZoneData
  BY BusyMeansUp
  DEF ProcessPost, ProcessPut, ProcessPatch, ProcessDelete, IsSet, IInv, TypeOK, RequestType
<1>1. ASSUME Die, UNCHANGED <<reply, sent>>, req' = [v \in Worker |-> NoRequest]
      PROVE  IInv'
  BY <1>0, <1>1, DieStep, DieType DEF IInv
<1>2. CASE ProcessPost(w)
  BY <1>0, <1>2, CallSetKeeps DEF ProcessPost
<1>3. CASE ProcessPut(w)
  <2>1. PICK found \in LookupName(zones, req[w].name) :
          \/ found = "died" /\ Die /\ UNCHANGED <<reply, sent>> /\ req' = [v \in Worker |-> NoRequest]
          \/ found = "mismatch" /\ Uncaught(w)
          \/ found \in {"none", "match"} /\ CallSet(w, found = "none", req[w].zone)
    BY <1>3 DEF ProcessPut
  <2>2. (found = "none") \in BOOLEAN /\ IsSet(w, "PUT")
    BY <1>3 DEF ProcessPut
  <2> QED  BY <1>0, <1>1, <2>1, <2>2, CallSetKeeps, UncaughtKeeps
<1>4. CASE ProcessPatch(w)
  <2>1. IsSet(w, "PATCH")
    BY <1>4 DEF ProcessPatch
  <2>2. PICK found \in LookupName(zones, req[w].name) :
          \/ found = "died" /\ Die /\ UNCHANGED <<reply, sent>> /\ req' = [v \in Worker |-> NoRequest]
          \/ found \in {"none", "mismatch"} /\ CallSet(w, TRUE, req[w].zone)
          \/ /\ found = "match"
             /\ CallSet(w, FALSE, Merge(req[w].zone, zones.zone[Search(zones, req[w].name)]))
    BY <1>4 DEF ProcessPatch
  <2>3. CASE found = "match"
             /\ CallSet(w, FALSE, Merge(req[w].zone, zones.zone[Search(zones, req[w].name)]))
    <3>1. Has(zones.zone, Search(zones, req[w].name))
      BY <2>2, <2>3, MatchExists
    <3>2. zones.zone[Search(zones, req[w].name)] \in ZoneData
      BY <3>1 DEF Has, IInv, TypeOK, Tree
    <3>3. Merge(req[w].zone, zones.zone[Search(zones, req[w].name)]) \in ZoneData
      BY <1>0, <3>2, MergeType
    <3> QED  BY <2>1, <2>3, <3>3, CallSetKeeps
  <2> QED  BY <1>0, <1>1, <2>1, <2>2, <2>3, CallSetKeeps
<1>5. CASE ProcessDelete(w)
  <2> DEFINE c == [NoCall EXCEPT !.kind = "delete", !.name = req[w].name]
  <2>1. c \in Call /\ c.kind = "delete"
    BY BlankType DEF NoCall, Call, IInv, TypeOK, RequestType
  <2>2. op' = [op EXCEPT ![w] = c] /\ pc' = [pc EXCEPT ![w] = "enter"]
        /\ UNCHANGED <<zones, file, tmp, extension, out, running, mutex, copy, result, restVars>>
    BY <1>5 DEF ProcessDelete
  <2> HIDE DEF c
  <2> QED  BY <1>0, <2>1, <2>2, CallKeeps
<1> QED  BY <1>2, <1>3, <1>4, <1>5

-----------------------------------------------------------------------------
(* The invariant holds always, and the properties follow.                  *)

\* A step inside the manager keeps the invariant, and changes the served zones
\* only as ZoneChange allows.
LEMMA InManagerKeeps ==
    ASSUME IInv, NEW w \in Worker, InManager(w)
    PROVE  IInv' /\ (zones'.zone = zones.zone \/ Change(zones.zone, zones'.zone))
<1>0. /\ UNCHANGED <<reply, sent>>
      /\ req' = IF running' THEN req ELSE [v \in Worker |-> NoRequest]
  BY DEF InManager
<1>1. CASE CreateLookup(w) \/ Invalid(w)
  <2>1. zones' = zones
    BY <1>1 DEF CreateLookup, Invalid, Die
  <2> QED  BY <1>0, <1>1, <2>1, BeforeLock
<1>2. CASE CreateZone(w) \/ Update(w) \/ Delete(w)
  <2>1. zones' = zones
    BY <1>2 DEF CreateZone, Update, Delete, Enter
  <2> QED  BY <1>0, <1>2, <2>1, Edits
<1>3. CASE SaveOpen(w) \/ SaveRename(w) \/ SaveClose(w) \/ Swap(w)
  <2>1. running' = running /\ running
    BY <1>3, BusyMeansUp DEF SaveOpen, SaveRename, SaveClose, Swap
  <2>2. UNCHANGED restVars
    BY <1>0, <2>1 DEF restVars
  <2>3. CASE SaveOpen(w)
    BY <2>2, <2>3, SaveOpenKeeps DEF SaveOpen
  <2>4. CASE SaveRename(w)
    BY <2>2, <2>4, SaveRenameKeeps DEF SaveRename
  <2>5. CASE SaveClose(w)
    BY <2>2, <2>5, SaveCloseKeeps DEF SaveClose
  <2>6. CASE Swap(w)
    BY <2>2, <2>6, SwapKeeps
  <2> QED  BY <1>3, <2>3, <2>4, <2>5, <2>6
<1> QED  BY <1>1, <1>2, <1>3 DEF InManager, MgrStep

\* Doing nothing keeps the invariant.
LEMMA StutterKeeps ==
    ASSUME IInv, UNCHANGED vars
    PROVE  IInv' /\ zones'.zone = zones.zone
<1>1. UNCHANGED <<zones, file, tmp, extension, out, running, mutex, pc, op, copy, result,
                  req, reply, sent>>
  BY DEF vars, mgrVars
<1>2. TypeOK'
  BY <1>1 DEF IInv, TypeOK
<1>3. MutexInv' /\ CallInv' /\ CopyInv' /\ TreeInv' /\ DownInv'
  BY <1>1 DEF IInv, Rest, MutexInv, CallInv, CopyInv, TreeInv, DownInv
<1>4. FileInv'
  BY <1>1 DEF IInv, Rest, FileInv
<1> QED  BY <1>1, <1>2, <1>3, <1>4 DEF IInv, Rest

\* Every step keeps the invariant, and changes the served zones only as
\* ZoneChange allows.
LEMMA NextKeeps ==
    ASSUME IInv, [Next]_vars
    PROVE  IInv' /\ (zones'.zone = zones.zone \/ Change(zones.zone, zones'.zone))
<1>1. ASSUME NEW w \in Worker, Receive(w) \/ Refuse(w) \/ Respond(w)
      PROVE  IInv' /\ zones' = zones
  <2>1. zones' = zones
    BY <1>1 DEF Receive, Refuse, Answer, Respond
  <2> QED  BY <1>1, <2>1, ReceiveKeeps, RefuseKeeps, RespondKeeps
<1>2. ASSUME NEW w \in Worker,
             ProcessPost(w) \/ ProcessPut(w) \/ ProcessPatch(w) \/ ProcessDelete(w)
      PROVE  IInv' /\ zones' = zones
  <2>1. zones' = zones
    BY <1>2 DEF ProcessPost, ProcessPut, ProcessPatch, ProcessDelete, CallSet, Uncaught, Die
  <2> QED  BY <1>2, <2>1, ProcessKeeps
<1>3. CASE ProcessCrash
  <2>1. /\ running /\ Die /\ req' = [v \in Worker |-> NoRequest]
        /\ UNCHANGED <<reply, sent>> /\ zones' = zones
    BY <1>3 DEF ProcessCrash, Crash, Die
  <2> QED  BY <2>1, DieStep, DieType DEF IInv
<1>4. CASE Stopped \/ UNCHANGED vars
  BY <1>4, StutterKeeps DEF Stopped
<1>5. ASSUME NEW w \in Worker, Receive(w) \/ WorkerStep(w)
      PROVE  IInv' /\ (zones'.zone = zones.zone \/ Change(zones.zone, zones'.zone))
  BY <1>1, <1>2, <1>5, InManagerKeeps DEF WorkerStep
<1> QED  BY <1>3, <1>4, <1>5, RestartKeeps DEF Next

\* The daemon starts with no call in progress and the zones of the file.
LEMMA InitKeeps ==
    ASSUME Init PROVE IInv /\ Closed(zones.zone)
<1>1. /\ file \in File /\ WellFormed(file.image) /\ AllExclusive(file.image.zone)
      /\ file.image \in Image /\ file.state \in {"missing", "complete"}
      /\ file.state = "missing" => file.image = EmptyImage
  <2>1. CASE file = Missing
    BY <2>1, EmptyImageFacts DEF Missing, File
  <2>2. ASSUME NEW i \in StoredImage, file = [state |-> "complete", image |-> i]
        PROVE  <1>1
    BY <2>2, StoredImageAssumption DEF File
  <2> QED  BY <2>1, <2>2 DEF Init, MgrInit
<1>2. /\ zones \in Tree /\ Serialized(zones) = file.image /\ zones.zone = file.image.zone
      /\ WellFormed(zones)
  BY <1>1, LoadedFacts DEF Init, MgrInit, Loaded
<1>3. /\ running /\ mutex = NoWorker
      /\ \A w \in Worker : pc[w] = "idle"
  BY DEF Init, MgrInit
<1>4. MutexInv /\ CallInv /\ CopyInv /\ DownInv
  BY <1>3, WorkerAssumption DEF MutexInv, CallInv, CopyInv, DownInv, Critical
<1>5. TreeInv
  BY <1>1, <1>2 DEF TreeInv
<1>6. FileInv
  BY <1>1, <1>2, <1>3 DEF FileInv
<1>7. /\ op \in [Worker -> Call] /\ copy \in [Worker -> Tree]
      /\ req \in [Worker -> RequestType]
  BY NoCallType, NoCopyType, NoRequestType DEF Init, MgrInit
<1>8. TypeOK
  BY <1>1, <1>2, <1>7, RequestAssumption DEF Init, MgrInit, TypeOK, Result, Status
<1> QED  BY <1>2, <1>4, <1>5, <1>6, <1>8 DEF IInv, Rest, WellFormed

\* IInv is an invariant of the daemon.
THEOREM Invariance == Spec => []IInv
<1>1. Init => IInv
  BY InitKeeps
<1>2. IInv /\ [Next]_vars => IInv'
  BY NextKeeps
<1> QED  BY <1>1, <1>2, PTL DEF Spec

\* Every variable keeps its type through requests, faults, crashes and restarts.
THEOREM TypeCorrect == Spec => []TypeOK
<1>1. IInv => TypeOK
  BY DEF IInv
<1> QED  BY <1>1, Invariance, PTL

\* No committed change is lost by the copy-on-write, with any number of threads.
THEOREM NoUpdateIsLost == Spec => []NoLostUpdate
<1>1. IInv => NoLostUpdate
  BY DEF IInv, Rest, MutexInv, CopyInv, NoLostUpdate
<1> QED  BY <1>1, Invariance, PTL

\* A zone file that loads is what is served, or the change in flight.
THEOREM DiskFollows == Spec => []DiskAgrees
<1>1. IInv => DiskAgrees
  BY DEF IInv, Rest, FileInv, DiskAgrees
<1> QED  BY <1>1, Invariance, PTL

\* The served zones are a tree, whatever was created and deleted.
THEOREM TreeStaysWellFormed == Spec => []TreeWellFormed
<1>1. IInv => TreeWellFormed
  BY DEF IInv, Rest, TreeInv, TreeWellFormed
<1> QED  BY <1>1, Invariance, PTL

\* No served zone has a cname and addresses.
THEOREM CnameStaysExclusive == Spec => []CnameExclusive
<1>1. IInv => CnameExclusive
  BY DEF IInv, Rest, TreeInv, CnameExclusive
<1> QED  BY <1>1, Invariance, PTL

\* No step takes the authoritative Soa away from a zone that stays.
THEOREM CoverageIsKept == Spec => SoaCoverageKept
<1> DEFINE Kept == \A n \in Name :
        Authorities(zones.zone, n) # {} /\ Has(zones.zone, n) /\ Has(zones'.zone, n)
            => Authorities(zones'.zone, n) # {}
<1>1. IInv /\ [Next]_vars => Kept
  <2> SUFFICES ASSUME IInv, [Next]_vars PROVE Kept
    OBVIOUS
  <2>1. /\ IInv' /\ (zones'.zone = zones.zone \/ Change(zones.zone, zones'.zone))
    BY NextKeeps
  <2>2. /\ zones.zone \in [Name -> ZoneData \cup {NoZone}]
        /\ zones'.zone \in [Name -> ZoneData \cup {NoZone}]
    BY <2>1 DEF IInv, TypeOK, Tree
  <2> QED  BY <2>1, <2>2, ChangeKeepsCoverage DEF ZoneMap
<1> QED  BY <1>1, Invariance, PTL DEF Spec, SoaCoverageKept

\* The definitions of ZoneStore, instantiated, are those of ZoneChange.
LEMMA StoreChange ==
    ASSUME NEW s, NEW t
    PROVE  ZS!Change(s, t) <=> Change(s, t)
<1>1. \A r, n : ZS!Has(r, n) <=> Has(r, n)
  BY DEF ZS!Has, Has
<1>2. \A m, n : ZS!IsPrefix(m, n) <=> IsPrefix(m, n)
  BY DEF ZS!IsPrefix, IsPrefix
<1>3. \A n : ZS!Parent(n) = Parent(n)
  BY DEF ZS!Parent, Parent, ZS!Front, Front
<1>4. ZS!Root = Root /\ ZS!Blank = Blank
  BY DEF ZS!Root, Root, ZS!Blank, Blank
<1>5. \A z : ZS!Bumped(z) = Bumped(z) /\ (ZS!Exclusive(z) <=> Exclusive(z))
  BY DEF ZS!Bumped, Bumped, ZS!Exclusive, Exclusive
<1>6. \A r, n : ZS!Authorities(r, n) = Authorities(r, n)
  BY <1>1, <1>2 DEF ZS!Authorities, Authorities
<1>7. \A r, n, m : ZS!SerialMoved(s, r, n, m) <=> SerialMoved(s, r, n, m)
  BY <1>1, <1>2, <1>5 DEF ZS!SerialMoved, SerialMoved
<1>8. \A n : ZS!OneSerial(s, t, n) <=> OneSerial(s, t, n)
  BY <1>1, <1>2 DEF ZS!OneSerial, OneSerial
<1>9. \A n : ZS!Written(s, t, n) <=> Written(s, t, n)
  BY <1>1, <1>2, <1>4, <1>5, <1>6, <1>7, <1>8 DEF ZS!Written, Written
<1>10. \A n : ZS!Removed(s, t, n) <=> Removed(s, t, n)
  BY <1>1, <1>2, <1>3, <1>4, <1>6, <1>7, <1>8 DEF ZS!Removed, Removed
<1>11. ZS!Closed(t) <=> Closed(t)
  BY <1>1, <1>3, <1>4 DEF ZS!Closed, Closed
<1> QED  BY <1>9, <1>10, <1>11 DEF ZS!Change, Change

\* The daemon, with its threads, faults, crashes and restarts, implements
\* ZoneStore: the served zones change one domain at a time.
THEOREM Refinement == Spec => ImplementsZoneStore
<1>1. Init => ZS!Init
  <2>1. Closed(zones.zone) => ZS!Closed(zones.zone)
    BY DEF Closed, ZS!Closed, Has, ZS!Has, Parent, ZS!Parent, Front, ZS!Front, Root, ZS!Root
  <2> QED  BY <2>1, InitKeeps DEF ZS!Init
<1>2. IInv /\ [Next]_vars => [ZS!Next]_(zones.zone)
  BY NextKeeps, StoreChange DEF ZS!Next
<1> QED  BY <1>1, <1>2, Invariance, PTL DEF Spec, ImplementsZoneStore, ZS!Spec
-----------------------------------------------------------------------------
(* CreateZone's two looks.  The first runs without the mutex, over parent  *)
(* pointers that an earlier CreateZone or Delete may have left dangling or *)
(* one level up but wrong; what it takes for the domain is the domain      *)
(* because no pointer is ever off by a level (ZoneTreeProofs!MatchIsReal). *)

\* The pointers of the served tree, and of a copy about to be served.
PointerInv ==
    /\ PointersUp(zones)
    /\ \A w \in Worker : pc[w] \in Critical => PointersUp(copy[w])

\* Where a worker is, the kind of the call it is in and how its last one ended.
Consistent(p, k, r) ==
    /\ k # "none" => p \in {"create", "enter"}
    /\ p # "done" => r = "none"

\* A call has its arguments until it ends, and no end before that.
AnswerInv == \A w \in Worker : Consistent(pc[w], op[w].kind, result[w])

\* What CreateZone says of its domain n, in a step that leaves the worker at p
\* with the result r.
Truthful(n, p, r) ==
    /\ r = "AlreadyExists" => Has(zones.zone, n)
    /\ p = "save" => ~Has(zones.zone, n)

\* The threads are gone.
Died ==
    /\ zones' = zones
    /\ \A w \in Worker : pc'[w] = "idle" /\ op'[w].kind = "none" /\ result'[w] = "none"

\* A step of w leaves the other workers where they are.
OthersStay(w) ==
    \A v \in Worker \ {w} :
        pc'[v] = pc[v] /\ op'[v] = op[v] /\ copy'[v] = copy[v] /\ result'[v] = result[v]

\* What a step of w does to its own call and to the served tree.
OwnStep(w) ==
    /\ Consistent(pc'[w], op'[w].kind, result'[w])
    /\ pc'[w] \in Critical => PointersUp(copy'[w])
    /\ PointersUp(zones')
    /\ op[w].kind = "create" => Truthful(op[w].name, pc'[w], result'[w])

\* A worker with no call.
LEMMA NoCallKind == NoCall.kind = "none"
BY DEF NoCall

\* A crash.
LEMMA DieIsDied == ASSUME Die PROVE Died
BY NoCallKind DEF Die, Died

\* The call of w ends, in a step that keeps the tree or serves one.
LEMMA ReturnIsOwn ==
    ASSUME IInv, NEW w \in Worker, NEW r \in Result, Return(w, r), PointersUp(zones'),
           r = "AlreadyExists" /\ op[w].kind = "create" => Has(zones.zone, op[w].name)
    PROVE  OthersStay(w) /\ OwnStep(w)
<1>1. /\ pc'[w] = "done" /\ op'[w] = NoCall /\ result'[w] = r
      /\ OthersStay(w)
  BY DEF Return, OthersStay, IInv, TypeOK
<1>2. Consistent(pc'[w], op'[w].kind, result'[w]) /\ pc'[w] \notin Critical
  BY <1>1, NoCallKind DEF Consistent, Critical
<1> QED  BY <1>1, <1>2 DEF OwnStep, Truthful

\* The edited copy goes to Commit.
LEMMA ToCommitIsOwn ==
    ASSUME IInv, PointerInv, AnswerInv, NEW w \in Worker, pc[w] = "enter",
           NEW c \in Sound, ToCommit(w, c), zones' = zones,
           op[w].kind = "create" => ~Has(zones.zone, op[w].name)
    PROVE  OthersStay(w) /\ OwnStep(w)
<1>1. /\ pc'[w] = "save" /\ op'[w] = NoCall /\ copy'[w] = c /\ result' = result
      /\ OthersStay(w)
  BY DEF ToCommit, OthersStay, IInv, TypeOK
<1>2. result[w] = "none"
  BY DEF AnswerInv, Consistent
<1>3. Consistent(pc'[w], op'[w].kind, result'[w])
  BY <1>1, <1>2, NoCallKind DEF Consistent
<1> QED  BY <1>1, <1>2, <1>3 DEF OwnStep, Truthful, PointerInv, Sound

\* A worker moves on with no result and without an edit.
LEMMA MoveIsOwn ==
    ASSUME IInv, PointerInv, AnswerInv, NEW w \in Worker, NEW q,
           pc' = [pc EXCEPT ![w] = q], zones' = zones, copy' = copy, OthersStay(w),
           q \in Critical => pc[w] \in Critical /\ pc[w] # "swap",
           q # "save",
           Consistent(q, op'[w].kind, result'[w]), result'[w] # "AlreadyExists"
    PROVE  OwnStep(w)
<1>1. pc'[w] = q
  BY DEF IInv, TypeOK
<1> QED  BY <1>1 DEF OwnStep, Truthful, PointerInv

\* The handler's steps.
LEMMA HandlerIsOwn ==
    ASSUME IInv, PointerInv, AnswerInv, NEW w \in Worker,
           Receive(w) \/ Refuse(w) \/ Respond(w)
    PROVE  OthersStay(w) /\ OwnStep(w)
<1>1. PICK q \in {"process", "idle"} :
        /\ pc' = [pc EXCEPT ![w] = q] /\ zones' = zones /\ copy' = copy /\ op' = op
        /\ pc[w] \in {"idle", "process", "done"}
        /\ (result' = result /\ pc[w] # "done") \/ result' = [result EXCEPT ![w] = "none"]
  BY DEF Receive, Refuse, Answer, Respond
<1>2. OthersStay(w) /\ result'[w] = "none" /\ op'[w].kind = "none"
  BY <1>1 DEF OthersStay, IInv, TypeOK, AnswerInv, Consistent, Call
<1>3. Consistent(q, op'[w].kind, result'[w])
  BY <1>2 DEF Consistent
<1>4. q \notin Critical
  BY DEF Critical
<1> QED  BY <1>1, <1>2, <1>3, <1>4, MoveIsOwn

\* ProcessSet and ProcessDelete.
LEMMA ProcessIsOwn ==
    ASSUME IInv, PointerInv, AnswerInv, NEW w \in Worker,
           ProcessPost(w) \/ ProcessPut(w) \/ ProcessPatch(w) \/ ProcessDelete(w)
    PROVE  Died \/ (OthersStay(w) /\ OwnStep(w))
<1>0. pc[w] = "process" /\ result[w] = "none" /\ op[w].kind = "none"
  BY DEF ProcessPost, ProcessPut, ProcessPatch, ProcessDelete, IsSet, AnswerInv, Consistent,
         IInv, TypeOK
<1>1. ASSUME NEW q \in {"create", "enter"}, pc' = [pc EXCEPT ![w] = q],
             NEW c, op' = [op EXCEPT ![w] = c], UNCHANGED <<zones, copy, result>>
      PROVE  OthersStay(w) /\ OwnStep(w)
  <2>1. OthersStay(w) /\ result'[w] = "none" /\ q \notin Critical /\ q # "save"
    BY <1>0, <1>1 DEF OthersStay, IInv, TypeOK, Critical
  <2>2. Consistent(q, op'[w].kind, result'[w])
    BY <2>1 DEF Consistent
  <2> QED  BY <1>1, <2>1, <2>2, MoveIsOwn
<1>2. ASSUME Uncaught(w) PROVE OthersStay(w) /\ OwnStep(w)
  <2>1. /\ pc' = [pc EXCEPT ![w] = "done"] /\ zones' = zones /\ copy' = copy
        /\ OthersStay(w) /\ result'[w] = "uncaught" /\ op'[w].kind = "none"
    BY <1>0, <1>2 DEF Uncaught, OthersStay, IInv, TypeOK
  <2>2. Consistent("done", op'[w].kind, result'[w]) /\ "done" \notin Critical
    BY <2>1 DEF Consistent, Critical
  <2> QED  BY <2>1, <2>2, MoveIsOwn
<1>3. ASSUME NEW create, NEW z, CallSet(w, create, z) PROVE OthersStay(w) /\ OwnStep(w)
  <2> DEFINE c == [kind  |-> IF create THEN "create" ELSE "update",
                   name  |-> req[w].name,
                   label |-> IF req[w].label = "" THEN Last(req[w].name) ELSE req[w].label,
                   zone  |-> z]
             q == IF create THEN "create" ELSE "enter"
  <2>1. /\ op' = [op EXCEPT ![w] = c] /\ pc' = [pc EXCEPT ![w] = q]
        /\ UNCHANGED <<zones, copy, result>>
    BY <1>3 DEF CallSet
  <2>2. q \in {"create", "enter"}
    OBVIOUS
  <2> HIDE DEF c, q
  <2> QED  BY <1>1, <2>1, <2>2
<1>4. CASE ProcessPost(w)
  BY <1>3, <1>4 DEF ProcessPost
<1>5. CASE ProcessPut(w) \/ ProcessPatch(w)
  <2>1. \/ Die \/ Uncaught(w)
        \/ \E found \in LookupName(zones, req[w].name) :
             \/ CallSet(w, found = "none", req[w].zone)
             \/ CallSet(w, TRUE, req[w].zone)
             \/ CallSet(w, FALSE, Merge(req[w].zone, zones.zone[Search(zones, req[w].name)]))
    BY <1>5 DEF ProcessPut, ProcessPatch
  <2> QED  BY <1>2, <1>3, <2>1, DieIsDied
<1>6. CASE ProcessDelete(w)
  <2> DEFINE c == [NoCall EXCEPT !.kind = "delete", !.name = req[w].name]
  <2>1. /\ op' = [op EXCEPT ![w] = c] /\ pc' = [pc EXCEPT ![w] = "enter"]
        /\ UNCHANGED <<zones, copy, result>>
    BY <1>6 DEF ProcessDelete
  <2> HIDE DEF c
  <2> QED  BY <1>1, <2>1
<1> QED  BY <1>4, <1>5, <1>6

\* CreateZone's first look, validation, and the edits under the mutex.
LEMMA CallIsOwn ==
    ASSUME IInv, PointerInv, AnswerInv, NEW w \in Worker,
           \/ CreateLookup(w) \/ Invalid(w)
           \/ CreateZone(w) \/ Update(w) \/ Delete(w)
    PROVE  Died \/ (OthersStay(w) /\ OwnStep(w))
<1> DEFINE z == op[w].zone
<1>0. /\ zones \in Tree /\ WellFormed(zones) /\ zones \in Sound /\ z \in ZoneData
      /\ PointersUp(zones)
  BY DEF IInv, TypeOK, Rest, TreeInv, PointerInv, Sound, Call
<1>1. ASSUME NEW r \in Result \ {"AlreadyExists"}, Return(w, r), zones' = zones
      PROVE  OthersStay(w) /\ OwnStep(w)
  BY <1>0, <1>1, ReturnIsOwn
<1>2. ASSUME NEW c \in Sound, ToCommit(w, c), zones' = zones, pc[w] = "enter",
             op[w].kind = "create" => ~Has(zones.zone, op[w].name)
      PROVE  OthersStay(w) /\ OwnStep(w)
  BY <1>2, ToCommitIsOwn
<1>3. CASE CreateLookup(w)
  <2>1. CASE Die
    BY <2>1, DieIsDied
  <2>2. CASE /\ "match" \in LookupName(zones, op[w].name)
             /\ Return(w, "AlreadyExists") /\ zones' = zones
    <3>1. op[w].kind = "create" => op[w].name \in Name
      BY <1>3 DEF CreateLookup, IInv, Rest, CallInv
    <3>2. op[w].kind = "create" => Has(zones.zone, op[w].name)
      BY <1>0, <2>2, <3>1, MatchIsReal
    <3>3. "AlreadyExists" \in Result
      BY DEF Result
    <3> QED  BY <1>0, <2>2, <3>2, <3>3, ReturnIsOwn
  <2>3. CASE /\ pc' = [pc EXCEPT ![w] = "enter"]
             /\ UNCHANGED <<zones, op, copy, result>>
    <3>1. OthersStay(w) /\ result'[w] = "none"
      BY <1>3, <2>3 DEF CreateLookup, OthersStay, IInv, TypeOK, AnswerInv, Consistent
    <3>2. Consistent("enter", op'[w].kind, result'[w]) /\ "enter" \notin Critical
      BY <3>1 DEF Consistent, Critical
    <3> QED  BY <2>3, <3>1, <3>2, MoveIsOwn
  <2> QED  BY <1>3, <2>1, <2>2, <2>3 DEF CreateLookup
<1>4. CASE Invalid(w)
  BY <1>1, <1>4 DEF Invalid, Result
<1>5. CASE CreateZone(w)
  <2> DEFINE n == op[w].name
             t == Insert(CopyZones(zones), n, z)
  <2>1. n \in Name /\ Exclusive(z) /\ pc[w] = "enter" /\ zones' = zones
    BY <1>5 DEF CreateZone, Enter, Validate, IInv, Rest, CallInv
  <2>2. CASE Has(zones.zone, n) /\ Return(w, "AlreadyExists")
    <3>1. "AlreadyExists" \in Result
      BY DEF Result
    <3> QED  BY <1>0, <2>1, <2>2, <3>1, ReturnIsOwn
  <2>3. CASE ~Has(zones.zone, n) /\ EditAndCommit(w, n, t)
    <3>1. CASE Return(w, "Validate")
      BY <1>1, <2>1, <3>1 DEF Result
    <3>2. CASE Authorities(t.zone, n) # {} /\ ToCommit(w, WithSerial(t, n))
      <4>1. WithSerial(t, n) \in Sound
        BY <1>0, <2>1, <2>3, <3>2, InsertIsSound
      <4> QED  BY <1>2, <2>1, <2>3, <3>2, <4>1
    <3> QED  BY <2>3, <3>1, <3>2 DEF EditAndCommit
  <2> QED  BY <1>5, <2>2, <2>3 DEF CreateZone
<1>6. CASE Update(w)
  <2> DEFINE n == Search(zones, op[w].name)
             t == Assign(CopyZones(zones), n, z)
  <2>1. Exclusive(z) /\ pc[w] = "enter" /\ zones' = zones /\ op[w].kind # "create"
    BY <1>6 DEF Update, Enter, Validate
  <2>2. CASE Return(w, "NotFound")
    BY <1>1, <2>1, <2>2 DEF Result
  <2>3. CASE Has(zones.zone, n) /\ EditAndCommit(w, n, t)
    <3>0. n \in Name
      BY <2>3 DEF Has
    <3>1. CASE Return(w, "Validate")
      BY <1>1, <2>1, <3>1 DEF Result
    <3>2. CASE Authorities(t.zone, n) # {} /\ ToCommit(w, WithSerial(t, n))
      <4>1. WithSerial(t, n) \in Sound
        BY <1>0, <2>1, <2>3, <3>0, <3>2, AssignIsSound
      <4> QED  BY <1>2, <2>1, <3>2, <4>1
    <3> QED  BY <2>3, <3>1, <3>2 DEF EditAndCommit
  <2> QED  BY <1>6, <2>2, <2>3 DEF Update
<1>7. CASE Delete(w)
  <2> DEFINE n == Search(zones, op[w].name)
             c == Erase(WithSerial(CopyZones(zones), n), n)
  <2>0. pc[w] = "enter" /\ zones' = zones /\ op[w].kind # "create"
    BY <1>7 DEF Delete, Enter
  <2>1. CASE Return(w, "NotFound") \/ Return(w, "Validate")
    BY <1>1, <2>0, <2>1 DEF Result
  <2>2. CASE /\ Has(zones.zone, n) /\ Authorities(zones.zone, n) # {}
             /\ Parent(n) # Root /\ ToCommit(w, c)
    <3>1. n \in Name
      BY <2>2 DEF Has
    <3>2. c \in Sound
      BY <1>0, <2>2, <3>1, EraseIsSound
    <3> QED  BY <1>2, <2>0, <2>2, <3>2
  <2> QED  BY <1>7, <2>1, <2>2 DEF Delete
<1> QED  BY <1>3, <1>4, <1>5, <1>6, <1>7

\* Save and the swap: what is served next is the worker's copy.
LEMMA CommitIsOwn ==
    ASSUME IInv, PointerInv, AnswerInv, NEW w \in Worker,
           SaveOpen(w) \/ SaveRename(w) \/ SaveClose(w) \/ Swap(w)
    PROVE  OthersStay(w) /\ OwnStep(w)
<1>0. /\ pc[w] \in Critical /\ result[w] = "none" /\ op[w].kind = "none"
      /\ PointersUp(zones) /\ PointersUp(copy[w])
  <2>1. pc[w] \in {"save", "rename", "close", "swap"}
    BY DEF SaveOpen, SaveRename, SaveClose, Swap
  <2> QED  BY <2>1 DEF Critical, PointerInv, AnswerInv, Consistent
<1>1. ASSUME NEW r \in {"error", "ok"}, Return(w, r), zones' \in {zones, copy[w]}
      PROVE  OthersStay(w) /\ OwnStep(w)
  <2>1. r \in Result /\ PointersUp(zones')
    BY <1>0, <1>1 DEF Result
  <2> QED  BY <1>0, <1>1, <2>1, ReturnIsOwn
<1>2. ASSUME NEW q \in {"rename", "close", "swap"}, pc' = [pc EXCEPT ![w] = q],
             pc[w] # "swap", UNCHANGED <<zones, op, copy, result>>
      PROVE  OthersStay(w) /\ OwnStep(w)
  <2>1. OthersStay(w) /\ result'[w] = "none" /\ op'[w].kind = "none"
    BY <1>0, <1>2 DEF OthersStay, IInv, TypeOK
  <2>2. Consistent(q, op'[w].kind, result'[w])
    BY <2>1 DEF Consistent
  <2> QED  BY <1>0, <1>2, <2>1, <2>2, MoveIsOwn
<1>3. CASE SaveOpen(w)
  BY <1>1, <1>2, <1>3 DEF SaveOpen
<1>4. CASE SaveRename(w)
  BY <1>1, <1>2, <1>4 DEF SaveRename
<1>5. CASE SaveClose(w)
  BY <1>2, <1>5 DEF SaveClose
<1>6. CASE Swap(w)
  BY <1>1, <1>6 DEF Swap
<1> QED  BY <1>3, <1>4, <1>5, <1>6

\* The part of ConflictIsReal that speaks of one step.
Honest ==
    \A w \in Worker : op[w].kind = "create" => Truthful(op[w].name, pc'[w], result'[w])

\* A step of a worker keeps both invariants and says nothing false.
LEMMA WorkerIsHonest ==
    ASSUME IInv, PointerInv, AnswerInv, NEW w \in Worker,
           Died \/ (OthersStay(w) /\ OwnStep(w))
    PROVE  PointerInv' /\ AnswerInv' /\ Honest
<1>0. \A v \in Worker : op[v].kind = "create" =>
        result[v] # "AlreadyExists" /\ pc[v] # "save"
  BY DEF AnswerInv, Consistent
<1>1. CASE Died
  <2>1. PointerInv'
    BY <1>1 DEF Died, PointerInv, Critical
  <2>2. AnswerInv'
    BY <1>1 DEF Died, AnswerInv, Consistent
  <2>3. Honest
    BY <1>1 DEF Died, Honest, Truthful
  <2> QED  BY <2>1, <2>2, <2>3
<1>2. CASE OthersStay(w) /\ OwnStep(w)
  <2>1. PointerInv'
    BY <1>2 DEF OthersStay, OwnStep, PointerInv
  <2>2. AnswerInv'
    BY <1>2 DEF OthersStay, OwnStep, AnswerInv
  <2>3. Honest
    BY <1>0, <1>2 DEF OthersStay, OwnStep, Honest, Truthful
  <2> QED  BY <2>1, <2>2, <2>3
<1> QED  BY <1>1, <1>2

\* Every step keeps both invariants and says nothing false.
LEMMA NextIsHonest ==
    ASSUME IInv, PointerInv, AnswerInv, [Next]_vars
    PROVE  PointerInv' /\ AnswerInv' /\ Honest
<1>0. \A v \in Worker : op[v].kind = "create" =>
        result[v] # "AlreadyExists" /\ pc[v] # "save"
  BY DEF AnswerInv, Consistent
<1>1. ASSUME NEW w \in Worker, Receive(w) \/ WorkerStep(w)
      PROVE  PointerInv' /\ AnswerInv' /\ Honest
  <2>1. Died \/ (OthersStay(w) /\ OwnStep(w))
    BY <1>1, HandlerIsOwn, ProcessIsOwn, CallIsOwn, CommitIsOwn
    DEF WorkerStep, InManager, MgrStep
  <2> QED  BY <2>1, WorkerIsHonest
<1>2. CASE ProcessCrash
  <2>1. Died
    BY <1>2, DieIsDied DEF ProcessCrash, Crash
  <2>2. PointerInv'
    BY <2>1 DEF Died, PointerInv, Critical
  <2>3. AnswerInv'
    BY <2>1 DEF Died, AnswerInv, Consistent
  <2>4. Honest
    BY <2>1 DEF Died, Honest, Truthful
  <2> QED  BY <2>2, <2>3, <2>4
<1>3. ASSUME PointersUp(zones'), UNCHANGED <<pc, op, copy, result>>
      PROVE  PointerInv' /\ AnswerInv' /\ Honest
  <2>1. PointerInv'
    BY <1>3 DEF PointerInv
  <2>2. AnswerInv'
    BY <1>3 DEF AnswerInv
  <2>3. Honest
    BY <1>0, <1>3 DEF Honest, Truthful
  <2> QED  BY <2>1, <2>2, <2>3
<1>4. CASE Restart
  <2>1. /\ zones' = InitParents(file.image) /\ UNCHANGED <<pc, op, copy, result>>
        /\ file.image \in Image /\ WellFormed(file.image)
    BY <1>4 DEF Restart, Load, Loaded, IInv, TypeOK, File, Rest, FileInv
  <2> QED  BY <1>3, <2>1, InitIsSound DEF Sound
<1>5. CASE Stopped \/ UNCHANGED vars
  <2>1. UNCHANGED <<zones, pc, op, copy, result>>
    BY <1>5 DEF Stopped, vars, mgrVars
  <2> QED  BY <1>3, <2>1 DEF PointerInv
<1> QED  BY <1>1, <1>2, <1>4, <1>5 DEF Next

\* The daemon starts with the pointers that Init sets and no call in progress.
LEMMA InitIsHonest ==
    ASSUME Init PROVE PointerInv /\ AnswerInv
<1>1. IInv
  BY InitKeeps
<1>2. PointersUp(zones)
  <2>1. zones = InitParents(file.image) /\ file.image \in Image /\ WellFormed(file.image)
    BY <1>1 DEF Init, MgrInit, Loaded, IInv, TypeOK, File, Rest, FileInv
  <2> QED  BY <2>1, InitIsSound DEF Sound
<1>3. \A w \in Worker : pc[w] = "idle" /\ op[w] = NoCall /\ result[w] = "none"
  BY DEF Init, MgrInit
<1>4. AnswerInv
  BY <1>3, NoCallKind DEF AnswerInv, Consistent
<1> QED  BY <1>2, <1>3, <1>4 DEF PointerInv, Critical

\* CreateZone reports a conflict only for a domain that exists at that moment, and
\* commits only one that does not, however the unlocked look races with the others
\* and wherever the parent pointers lead.
THEOREM ConflictsAreReal == Spec => ConflictIsReal
<1> DEFINE Told == \A w \in Worker : op[w].kind = "create" =>
        /\ result'[w] = "AlreadyExists" => Has(zones.zone, op[w].name)
        /\ pc'[w] = "save" => ~Has(zones.zone, op[w].name)
<1>1. Init => PointerInv /\ AnswerInv
  BY InitIsHonest
<1>2. IInv /\ PointerInv /\ AnswerInv /\ [Next]_vars => PointerInv' /\ AnswerInv'
  BY NextIsHonest
<1>3. IInv /\ PointerInv /\ AnswerInv /\ [Next]_vars => Told
  BY NextIsHonest DEF Honest, Truthful
<1> QED  BY <1>1, <1>2, <1>3, Invariance, PTL DEF Spec, ConflictIsReal

-----------------------------------------------------------------------------
(* What GET lists.                                                         *)

\* All that is below a node, or below the top level.
Below(t, p) == {n \in Name : Has(t.zone, n) /\ IsStrictPrefix(p, n)}

Places == Name \cup {Root}

\* Where a list of nodes for n comes from, if f has those of its children.
Walk(t, f, n) ==
    FlattenSeq([i \in DOMAIN t.children[n] |->
                    <<t.children[n][i]>> \o f[t.children[n][i]]])

\* A place and its labels; there is a longest name.
LEMMA PlaceFacts ==
    /\ \A p \in Places : p \in Seq(Label) /\ Len(p) \in Nat
    /\ \E k \in Nat : \A p \in Places : Len(p) <= k
<1>1. Root \in Seq(Label) /\ Len(Root) = 0
  BY DEF Root
<1>2. ASSUME NEW p \in Places PROVE p \in Seq(Label) /\ Len(p) \in Nat
  <2>1. CASE p = Root
    BY <1>1, <2>1
  <2>2. CASE p \in Name
    BY <2>2, NameFacts
  <2> QED  BY <2>1, <2>2 DEF Places
<1>3. CASE Name = {}
  <2>1. \A p \in Places : Len(p) <= 0
    BY <1>1, <1>3 DEF Places
  <2> QED  BY <1>2, <2>1
<1>4. CASE Name # {}
  <2>1. PICK n \in Name : \A m \in Name : Len(m) <= Len(n)
    BY <1>4, LengthAssumption
  <2>2. Len(n) \in Nat
    BY NameFacts
  <2>3. \A p \in Places : Len(p) <= Len(n)
    BY <1>1, <2>1, <2>2 DEF Places
  <2> QED  BY <1>2, <2>2, <2>3
<1> QED  BY <1>3, <1>4

\* The children of a place are its nodes, one label longer.
LEMMA ChildrenFacts ==
    ASSUME NEW t \in Tree, WellFormed(t), NEW p \in Places
    PROVE  /\ t.children[p] \in Seq(Name)
           /\ Range(t.children[p]) = {n \in Name : Has(t.zone, n) /\ Parent(n) = p}
           /\ \A n \in Range(t.children[p]) : n \in Places /\ Len(n) = Len(p) + 1
<1>1. t.children[p] \in Seq(Name)
  BY TreeParts DEF Places
<1>2. Range(t.children[p]) = {n \in Name : Has(t.zone, n) /\ Parent(n) = p}
  BY DEF WellFormed, Places
<1>3. ASSUME NEW n \in Range(t.children[p]) PROVE n \in Places /\ Len(n) = Len(p) + 1
  <2>1. n \in Name /\ Parent(n) = p
    BY <1>2
  <2>2. Len(n) \in Nat /\ Len(Parent(n)) = Len(n) - 1
    BY <2>1, NameFacts
  <2> QED  BY <2>1, <2>2 DEF Places
<1> QED  BY <1>1, <1>2, <1>3

\* One round of the walk, when the children have their lists.
LEMMA WalkFacts ==
    ASSUME NEW t \in Tree, WellFormed(t), NEW p \in Places, NEW f,
           \A c \in Range(t.children[p]) : f[c] \in Seq(Name)
    PROVE  /\ Walk(t, f, p) \in Seq(Name)
           /\ Range(Walk(t, f, p)) =
                UNION {{c} \cup Range(f[c]) : c \in Range(t.children[p])}
<1> DEFINE kids == t.children[p]
           seqs == [i \in DOMAIN kids |-> <<kids[i]>> \o f[kids[i]]]
<1>1. /\ kids \in Seq(Name) /\ DOMAIN kids = 1..Len(kids) /\ Len(kids) \in Nat
      /\ Range(kids) = {kids[i] : i \in 1..Len(kids)}
  <2>1. kids \in Seq(Name)
    BY ChildrenFacts
  <2> HIDE DEF kids
  <2> QED  BY <2>1, LenProperties, RangeType
<1>2. ASSUME NEW i \in 1..Len(kids)
      PROVE  /\ <<kids[i]>> \o f[kids[i]] \in Seq(Name)
             /\ Range(<<kids[i]>> \o f[kids[i]]) = {kids[i]} \cup Range(f[kids[i]])
  <2> DEFINE c == kids[i]
             first == <<c>>
  <2>1. c \in Range(kids) /\ c \in Name
    BY <1>1, ElementOfSeq
  <2>2. f[c] \in Seq(Name)
    BY <2>1
  <2> HIDE DEF c
  <2>3. first \in Seq(Name) /\ Range(first) = {c}
    BY <2>1 DEF Range
  <2> HIDE DEF first
  <2>4. Range(first \o f[c]) = Range(first) \cup Range(f[c]) /\ first \o f[c] \in Seq(Name)
    BY <2>2, <2>3, RangeConcat, ConcatProperties
  <2> QED  BY <2>3, <2>4 DEF c, first
<1>3. seqs \in Seq(Seq(Name)) /\ Len(seqs) = Len(kids)
  <2> DEFINE part(i) == <<kids[i]>> \o f[kids[i]]
             N == Len(kids)
  <2>1. \A i \in 1..N : part(i) \in Seq(Name)
    BY <1>2
  <2>2. seqs = [i \in 1..N |-> part(i)] /\ N \in Nat
    BY <1>1
  <2> HIDE DEF part, seqs
  <2> SUFFICES seqs \in Seq(Seq(Name)) /\ Len(seqs) = N
    OBVIOUS
  <2> HIDE DEF N
  <2> QED  BY <2>1, <2>2
<1>4. Walk(t, f, p) = FlattenSeq(seqs)
  BY DEF Walk
<1>5. \A i \in 1..Len(kids) : Range(seqs[i]) = {kids[i]} \cup Range(f[kids[i]])
  BY <1>1, <1>2
<1> HIDE DEF seqs
<1>6. FlattenSeq(seqs) \in Seq(Name)
  BY <1>3, FlattenType
<1>7. Range(FlattenSeq(seqs)) = UNION {Range(seqs[i]) : i \in 1..Len(seqs)}
  BY <1>3, RangeFlatten
<1>8. UNION {Range(seqs[i]) : i \in 1..Len(seqs)} =
        UNION {{c} \cup Range(f[c]) : c \in Range(kids)}
  <2> DEFINE P(i) == Range(seqs[i])
             Q(c) == {c} \cup Range(f[c])
  <2>1. \A i \in 1..Len(kids) : P(i) = Q(kids[i])
    BY <1>5
  <2>2. Range(kids) = {kids[i] : i \in 1..Len(kids)} /\ Len(seqs) = Len(kids)
    BY <1>1, <1>3
  <2> HIDE DEF P, Q, kids
  <2>3. UNION {P(i) : i \in 1..Len(seqs)} = UNION {Q(c) : c \in Range(kids)}
    BY <2>1, <2>2
  <2> QED  BY <2>3 DEF P, Q
<1> QED  BY <1>4, <1>6, <1>7, <1>8

\* The walk depends on the lists of the children alone.
LEMMA WalkSame ==
    ASSUME NEW t \in Tree, WellFormed(t), NEW p \in Places, NEW f, NEW g,
           \A c \in Range(t.children[p]) : f[c] = g[c]
    PROVE  Walk(t, f, p) = Walk(t, g, p)
<1> DEFINE kids == t.children[p]
<1>1. \A i \in DOMAIN kids : f[kids[i]] = g[kids[i]]
  BY DEF Range
<1>2. [i \in DOMAIN kids |-> <<kids[i]>> \o f[kids[i]]] =
        [i \in DOMAIN kids |-> <<kids[i]>> \o g[kids[i]]]
  BY <1>1
<1> QED  BY <1>2 DEF Walk

\* There are lists for all places that fit together: ForEachZone_ comes to an end.
LEMMA WalkExists ==
    ASSUME NEW t \in Tree, WellFormed(t)
    PROVE  \E f : f = [n \in Places |-> Walk(t, f, n)]
<1>1. PICK K \in Nat : \A p \in Places : Len(p) <= K
  BY PlaceFacts
<1> DEFINE T == {k \in Nat : \E f \in [Places -> Seq(Name)] :
                    \A n \in Places : K < Len(n) + k => f[n] = Walk(t, f, n)}
<1>2. 0 \in T
  <2> DEFINE f == [n \in Places |-> << >>]
  <2>1. f \in [Places -> Seq(Name)]
    OBVIOUS
  <2>2. \A n \in Places : ~(K < Len(n) + 0)
    BY <1>1, PlaceFacts
  <2> QED  BY <2>1, <2>2
<1>3. ASSUME NEW k \in Nat, k \in T PROVE k + 1 \in T
  <2>1. PICK f \in [Places -> Seq(Name)] :
            \A n \in Places : K < Len(n) + k => f[n] = Walk(t, f, n)
    BY <1>3
  <2> DEFINE g == [n \in Places |-> Walk(t, f, n)]
  <2>2. g \in [Places -> Seq(Name)]
    <3>1. ASSUME NEW n \in Places PROVE Walk(t, f, n) \in Seq(Name)
      <4>1. \A c \in Range(t.children[n]) : f[c] \in Seq(Name)
        BY ChildrenFacts
      <4> QED  BY <4>1, WalkFacts
    <3> QED  BY <3>1
  <2>3. ASSUME NEW n \in Places, K < Len(n) + (k + 1) PROVE g[n] = Walk(t, g, n)
    <3>1. \A c \in Range(t.children[n]) : c \in Places /\ K < Len(c) + k
      BY <2>3, ChildrenFacts, PlaceFacts
    <3>2. \A c \in Range(t.children[n]) : f[c] = g[c]
      BY <2>1, <3>1
    <3> HIDE DEF g
    <3>3. Walk(t, f, n) = Walk(t, g, n)
      BY <3>2, WalkSame
    <3> QED  BY <3>3 DEF g
  <2> HIDE DEF g
  <2> QED  BY <2>2, <2>3
<1>4. Nat \subseteq T
  <2> HIDE DEF T
  <2> QED  BY <1>2, <1>3, SetInduction
<1>5. K + 1 \in T
  <2> HIDE DEF T
  <2> QED  BY <1>4
<1>6. PICK f \in [Places -> Seq(Name)] :
        \A n \in Places : K < Len(n) + (K + 1) => f[n] = Walk(t, f, n)
  BY <1>5
<1>7. \A n \in Places : f[n] = Walk(t, f, n)
  BY <1>6, PlaceFacts
<1>8. f = [n \in Places |-> Walk(t, f, n)]
  BY <1>7
<1> QED  BY <1>8

\* What is below a place: its children and what is below them.
LEMMA BelowChildren ==
    ASSUME NEW t \in Tree, WellFormed(t), NEW p \in Places
    PROVE  Below(t, p) = UNION {{c} \cup Below(t, c) : c \in Range(t.children[p])}
<1> DEFINE kids == Range(t.children[p])
<1>1. kids = {n \in Name : Has(t.zone, n) /\ Parent(n) = p} /\ p \in Name \cup {Root}
  BY ChildrenFacts DEF Places
<1> HIDE DEF kids
<1>2. ASSUME NEW m \in Below(t, p) PROVE \E c \in kids : m = c \/ m \in Below(t, c)
  <2>1. m \in Name /\ Has(t.zone, m) /\ IsStrictPrefix(p, m)
    BY DEF Below
  <2> DEFINE c == Toward(p, m)
  <2>2. c \in Name /\ IsPrefix(c, m) /\ Parent(c) = p
    BY <1>1, <2>1, TowardFacts
  <2> HIDE DEF c
  <2>3. Has(t.zone, c)
    BY <2>1, <2>2, AncestorsExist DEF WellFormed
  <2> QED  BY <1>1, <2>1, <2>2, <2>3 DEF Below, IsStrictPrefix
<1>3. ASSUME NEW c \in kids, NEW m \in {c} \cup Below(t, c) PROVE m \in Below(t, p)
  <2>1. c \in Name /\ Has(t.zone, c) /\ Parent(c) = p
    BY <1>1
  <2>2. m \in Name /\ Has(t.zone, m) /\ IsPrefix(c, m)
    BY <2>1, NameFacts, PrefixReflexive DEF Below, IsStrictPrefix
  <2>3. IsStrictPrefix(p, m)
    BY <1>1, <2>1, <2>2, TowardFacts
  <2> QED  BY <2>2, <2>3 DEF Below
<1> QED  BY <1>2, <1>3 DEF kids

\* ForEachZone_ visits all that is below a place and nothing else.
LEMMA ForEachZoneVisits ==
    ASSUME NEW t \in Tree, WellFormed(t), NEW p \in Places
    PROVE  ForEachZone(t, p) \in Seq(Name) /\ Range(ForEachZone(t, p)) = Below(t, p)
<1> DEFINE Def(f) == [n \in Places |-> Walk(t, f, n)]
           below == CHOOSE f : f = Def(f)
<1>1. ForEachZone(t, p) = below[p]
  BY DEF ForEachZone, Walk, Places
<1>2. \E f : f = Def(f)
  BY WalkExists
<1>3. below = Def(below)
  <2> HIDE DEF Def
  <2> QED  BY <1>2
<1> HIDE DEF below
<1>4. \A n \in Places : below[n] = Walk(t, below, n)
  BY <1>3
<1> HIDE DEF Def
<1>5. PICK K \in Nat : \A n \in Places : Len(n) <= K
  BY PlaceFacts
<1> DEFINE Visits(n) == below[n] \in Seq(Name) /\ Range(below[n]) = Below(t, n)
           T == {k \in Nat : \A n \in Places : K < Len(n) + k => Visits(n)}
<1>6. 0 \in T
  BY <1>5, PlaceFacts
<1>7. ASSUME NEW k \in Nat, k \in T, NEW n \in Places, K < Len(n) + (k + 1) PROVE Visits(n)
  <2> DEFINE kids == Range(t.children[n])
  <2>1. \A c \in kids : c \in Places /\ K < Len(c) + k
    BY <1>7, ChildrenFacts, PlaceFacts
  <2>2. \A c \in kids : below[c] \in Seq(Name) /\ Range(below[c]) = Below(t, c)
    BY <1>7, <2>1
  <2>3. /\ Walk(t, below, n) \in Seq(Name)
        /\ Range(Walk(t, below, n)) = UNION {{c} \cup Range(below[c]) : c \in kids}
    BY <2>2, WalkFacts
  <2>4. Below(t, n) = UNION {{c} \cup Below(t, c) : c \in kids}
    BY BelowChildren
  <2> HIDE DEF kids
  <2>5. UNION {{c} \cup Range(below[c]) : c \in kids} = UNION {{c} \cup Below(t, c) : c \in kids}
    BY <2>2
  <2> QED  BY <1>4, <2>3, <2>4, <2>5
<1>8. Nat \subseteq T
  <2>1. \A k \in Nat : k \in T => k + 1 \in T
    <3> HIDE DEF Visits
    <3> QED  BY <1>7
  <2> HIDE DEF T
  <2> QED  BY <1>6, <2>1, SetInduction
<1>9. Visits(p)
  <2>1. K + 1 \in T
    <3> HIDE DEF T
    <3> QED  BY <1>8
  <2>2. K < Len(p) + (K + 1)
    BY PlaceFacts
  <2> HIDE DEF Visits
  <2> QED  BY <2>1, <2>2
<1> QED  BY <1>1, <1>9

\* The last place in a list where something holds, if it holds somewhere.
LEMMA LastPlace ==
    ASSUME NEW N \in Nat, NEW I \in SUBSET (1..N), I # {}
    PROVE  Max(I) \in I
<1> DEFINE J == {j \in 0..N : N - j \in I}
<1>1. \A i \in I : i \in 1..N /\ N - i \in 0..N /\ N - (N - i) = i
  OBVIOUS
<1>2. ASSUME NEW i \in I PROVE N - i \in J
  <2>1. N - i \in 0..N /\ N - (N - i) \in I
    BY <1>1
  <2> QED  BY <2>1
<1>3. \A j \in J : j \in 0..N /\ N - j \in I
  OBVIOUS
<1> HIDE DEF J
<1>4. J \subseteq Nat /\ J # {}
  <2>1. \A j \in J : j \in Nat
    BY <1>3
  <2>2. PICK i \in I : TRUE
    OBVIOUS
  <2>3. N - i \in J
    BY <1>2
  <2> QED  BY <2>1, <2>3
<1>5. PICK j \in J : \A k \in J : j <= k
  BY <1>4, LeastElement
<1>6. N - j \in I
  BY <1>3
<1>7. \A k \in I : N - j >= k
  BY <1>1, <1>2, <1>3, <1>5
<1> QED  BY <1>6, <1>7 DEF Max

\* Nodes whose pointers give them their own names are listed under them.
LEMMA ListingFacts ==
    ASSUME NEW t, NEW nodes \in Seq(Name), NEW S,
           \A n \in Range(nodes) \cap S : GetDomainName(t, n) = n
    PROVE  Listing(t, nodes, S) =
             ReplyOf(200, [d \in Range(nodes) \cap S |-> Assigned(t.zone[d])])
<1> DEFINE chosen == Range(nodes) \cap S
           name == [n \in chosen |-> GetDomainName(t, n)]
           at(d) == {i \in 1..Len(nodes) : nodes[i] \in S /\ name[nodes[i]] = d}
           last(d) == IF at(d) # {} THEN Max(at(d)) ELSE 0
           data(d) == Assigned(t.zone[nodes[last(d)]])
<1>1. Listing(t, nodes, S) =
        IF Dangling \in Range(name) THEN UndefinedReply
        ELSE ReplyOf(200, [d \in Range(name) |-> data(d)])
  BY DEF Listing, SelectLastInSeq
<1>2. \A n \in chosen : name[n] = n
  OBVIOUS
<1>3. Range(name) = chosen
  <2>1. DOMAIN name = chosen
    OBVIOUS
  <2> HIDE DEF name
  <2> QED  BY <1>2, <2>1 DEF Range
<1>4. Range(nodes) = {nodes[i] : i \in 1..Len(nodes)} /\ Range(nodes) \subseteq Name
  BY RangeType
<1>5. Dangling \notin chosen
  BY <1>4, MarkAssumption
<1>6. ASSUME NEW d \in chosen PROVE nodes[last(d)] = d
  <2>1. PICK i \in 1..Len(nodes) : nodes[i] = d
    BY <1>4
  <2>2. i \in at(d) /\ at(d) \in SUBSET (1..Len(nodes)) /\ Len(nodes) \in Nat
    BY <1>2, <2>1, LenProperties
  <2>3. \A k \in at(d) : nodes[k] = d
    <3> HIDE DEF name
    <3> QED  BY <1>2, <1>4
  <2> HIDE DEF at
  <2>4. last(d) \in at(d)
    BY <2>2, LastPlace
  <2> QED  BY <2>3, <2>4
<1> HIDE DEF name, at, last
<1>7. \A d \in chosen : data(d) = Assigned(t.zone[d])
  BY <1>6
<1> HIDE DEF data
<1>8. [d \in chosen |-> data(d)] = [d \in chosen |-> Assigned(t.zone[d])]
  BY <1>7
<1> HIDE DEF chosen
<1>9. Listing(t, nodes, S) = ReplyOf(200, [d \in chosen |-> data(d)])
  BY <1>1, <1>3, <1>5
<1> QED  BY <1>8, <1>9 DEF chosen

\* The right answer when there is one: these nodes, with their data.
Exactly(t, r, nodes) ==
    /\ r.status = 200
    /\ DOMAIN r.nodes = nodes
    /\ \A n \in DOMAIN r.nodes : r.nodes[n] = Assigned(t.zone[n])

\* A list whose nodes have their names.
LEMMA ListingIsExact ==
    ASSUME NEW t, NEW nodes \in Seq(Name), NEW S, NEW want,
           Range(nodes) \cap S = want,
           \A n \in want : GetDomainName(t, n) = n
    PROVE  Exactly(t, Listing(t, nodes, S), want)
<1> DEFINE chosen == Range(nodes) \cap S
<1>1. \A n \in chosen : GetDomainName(t, n) = n
  OBVIOUS
<1>2. Listing(t, nodes, S) = ReplyOf(200, [d \in chosen |-> Assigned(t.zone[d])])
  BY <1>1, ListingFacts
<1>3. chosen = want
  OBVIOUS
<1> HIDE DEF chosen
<1> QED  BY <1>2, <1>3 DEF Exactly, ReplyOf

\* The name of a root zone, wherever the pointers of others lead.
LEMMA RootZoneName ==
    ASSUME NEW t \in Sound, NEW n \in Name, Len(n) = 1
    PROVE  t.parent[n] = Root /\ GetDomainName(t, n) = n
<1>1. t.parent[n] = Root
  BY DEF Sound, PointersUp
<1>2. GetDomainName(t, n) = <<Last(n)>>
  <2>1. GetDomainName(t, n) =
          CASE t.parent[n] = Root     -> <<Last(n)>>
            [] t.parent[n] = Dangling -> Dangling
            [] OTHER -> IF GetDomainName(t, t.parent[n]) = Dangling THEN Dangling
                        ELSE Append(GetDomainName(t, t.parent[n]), Last(n))
    BY GetDomainNameRuns
  <2>2. Root # Dangling
    BY MarkAssumption
  <2> QED  BY <1>1, <2>1, <2>2
<1>3. n \in Seq(Label) /\ Last(n) = n[1]
  BY NameFacts DEF Last
<1>4. n = <<n[1]>>
  BY <1>3
<1> QED  BY <1>1, <1>2, <1>3, <1>4

\* A list of all nodes of a kind, found by a walk from the top.
LEMMA ListOfIsExact ==
    ASSUME NEW t \in Sound, NEW S, NEW want,
           want = {n \in Name : Has(t.zone, n) /\ n \in S},
           \A n \in want : GetDomainName(t, n) = n
    PROVE  Exactly(t, ListOf(t, S), want)
<1> DEFINE nodes == ForEachZone(t, Root)
<1>1. nodes \in Seq(Name) /\ Range(nodes) = Below(t, Root)
  BY ForEachZoneVisits DEF Sound, Places
<1>2. Below(t, Root) = {n \in Name : Has(t.zone, n)}
  <2>1. \A n \in Name : IsStrictPrefix(Root, n)
    <3> TAKE n \in Name
    <3>1. n \in Seq(Label) /\ Len(n) \in Nat /\ Root \in Seq(Label) /\ Len(Root) = 0
      BY NameFacts DEF Root
    <3>2. Len(Root) <= Len(n) /\ \A i \in 1..Len(Root) : Root[i] = n[i]
      BY <3>1
    <3>3. IsPrefix(Root, n)
      BY <3>1, <3>2, PrefixPointwise
    <3> QED  BY <3>3, RootIsNoName DEF IsStrictPrefix
  <2> QED  BY <2>1 DEF Below
<1> HIDE DEF nodes
<1>3. Range(nodes) \cap S = want
  BY <1>1, <1>2
<1>4. Exactly(t, Listing(t, nodes, S), want)
  BY <1>1, <1>3, ListingIsExact
<1> QED  BY <1>4 DEF ListOf, nodes

\* One zone, with or without what is below it.
LEMMA GetZoneIsExact ==
    ASSUME NEW t \in Sound, Intact(t), NEW name \in Name, NEW recurse \in BOOLEAN,
           NEW n, n = Search(t, name)
    PROVE  IF n = Root THEN ~Has(t.zone, name) /\ GetZone(t, name, recurse) = ReplyOf(404, NoNodes)
           ELSE /\ n \in Name /\ Has(t.zone, n)
                /\ Has(t.zone, name) => n = name
                /\ Exactly(t, GetZone(t, name, recurse),
                           {m \in Name : Has(t.zone, m) /\ (m = n \/ (recurse /\ IsPrefix(n, m)))})
<1>1. t \in Tree /\ WellFormed(t) /\ name \in Seq(Label)
  BY NameFacts DEF Sound
<1>2. Has(t.zone, name) => n = name
  BY <1>1, SearchComplete
<1>3. CASE n = Root
  BY <1>2, <1>3, RootIsNoName DEF GetZone, Has
<1>4. CASE n # Root
  <2>1. n \in Name /\ Has(t.zone, n)
    BY <1>1, <1>4, SearchFinds
  <2> DEFINE rest == IF recurse THEN ForEachZone(t, n) ELSE << >>
             first == <<n>>
             want == {m \in Name : Has(t.zone, m) /\ (m = n \/ (recurse /\ IsPrefix(n, m)))}
  <2>2. rest \in Seq(Name) /\ Range(rest) = IF recurse THEN Below(t, n) ELSE {}
    <3>1. CASE recurse
      BY <1>1, <2>1, <3>1, ForEachZoneVisits DEF Places
    <3>2. CASE ~recurse
      BY <3>2 DEF Range
    <3> QED  BY <3>1, <3>2
  <2>3. first \in Seq(Name) /\ Range(first) = {n}
    BY <2>1 DEF Range
  <2>4. GetZone(t, name, recurse) = Listing(t, first \o rest, Name)
    BY <1>4 DEF GetZone
  <2> HIDE DEF first, rest
  <2>5. first \o rest \in Seq(Name) /\ Range(first \o rest) = Range(first) \cup Range(rest)
    BY <2>2, <2>3, RangeConcat, ConcatProperties
  <2>6. Range(first \o rest) \cap Name = want
    <3>1. \A m \in Name : recurse /\ m \in Below(t, n) <=>
            recurse /\ Has(t.zone, m) /\ IsPrefix(n, m) /\ m # n
      BY DEF Below, IsStrictPrefix
    <3>2. Range(first \o rest) = {n} \cup {m \in Below(t, n) : recurse}
      BY <2>2, <2>3, <2>5
    <3> QED  BY <2>1, <3>1, <3>2
  <2>7. \A m \in want : GetDomainName(t, m) = m
    BY IntactName
  <2> HIDE DEF want
  <2>8. Exactly(t, Listing(t, first \o rest, Name), want)
    BY <2>5, <2>6, <2>7, ListingIsExact
  <2> QED  BY <1>2, <1>4, <2>1, <2>4, <2>8 DEF want
<1> QED  BY <1>3, <1>4

\* The zone that was asked for is not there.
IsMissing(t, path, name) == path \in {"zone", "zones/recurse"} /\ ~Has(t.zone, name)

\* What GetIsExact asks of one reply.
Answered(t, path, name, r) ==
    IF path \in {"", "other"} \/ IsMissing(t, path, name)
    THEN \/ r.status \in {404, 500} /\ r.nodes = NoNodes
         \/ /\ IsMissing(t, path, name)
            /\ r.status = 200
            /\ name \notin DOMAIN r.nodes
            /\ \A n \in DOMAIN r.nodes : Has(t.zone, n) /\ r.nodes[n] = Assigned(t.zone[n])
    ELSE Exactly(t, r, Wanted(t, path, name))

\* GET of a zone, alone or with those below it.
LEMMA ZoneIsAnswered ==
    ASSUME NEW t \in Sound, Intact(t), NEW name \in Name, NEW recurse \in BOOLEAN,
           NEW path, path = IF recurse THEN "zones/recurse" ELSE "zone"
    PROVE  Answered(t, path, name, GetZone(t, name, recurse))
<1> DEFINE n == Search(t, name)
           r == GetZone(t, name, recurse)
           want == {m \in Name : Has(t.zone, m) /\ (m = n \/ (recurse /\ IsPrefix(n, m)))}
<1>1. /\ n = Root => ~Has(t.zone, name) /\ r = ReplyOf(404, NoNodes)
      /\ n # Root => /\ n \in Name /\ Has(t.zone, n)
                     /\ Has(t.zone, name) => n = name
                     /\ Exactly(t, r, want)
  BY GetZoneIsExact
<1>2. \A m \in want : m \in Name /\ Has(t.zone, m)
  OBVIOUS
<1>3. ASSUME n = name PROVE want = Wanted(t, path, name)
  <2>1. CASE recurse
    <3>1. \A m \in Name : m = name => IsPrefix(name, m)
      BY NameFacts, PrefixReflexive
    <3> HIDE DEF n
    <3> QED  BY <1>3, <2>1, <3>1 DEF Wanted
  <2>2. CASE ~recurse
    <3> HIDE DEF n
    <3> QED  BY <1>3, <2>2 DEF Wanted
  <2> QED  BY <2>1, <2>2
<1>4. path \in {"zone", "zones/recurse"}
  OBVIOUS
<1> HIDE DEF n, r, want
<1>5. CASE Has(t.zone, name)
  <2>1. n = name
    BY <1>1, <1>5
  <2>2. Exactly(t, r, Wanted(t, path, name))
    BY <1>1, <1>3, <1>5, <2>1
  <2>3. path \notin {"", "other"} /\ ~IsMissing(t, path, name)
    BY <1>4, <1>5 DEF IsMissing
  <2> QED  BY <2>2, <2>3 DEF Answered, r
<1>6. CASE ~Has(t.zone, name)
  <2>1. IsMissing(t, path, name)
    BY <1>4, <1>6 DEF IsMissing
  <2>2. CASE n = Root
    <3>1. r.status = 404 /\ r.nodes = NoNodes
      BY <1>1, <2>2 DEF ReplyOf
    <3> QED  BY <2>1, <3>1 DEF Answered, r
  <2>3. CASE n # Root
    <3>1. Exactly(t, r, want)
      BY <1>1, <2>3
    <3>2. /\ r.status = 200 /\ name \notin DOMAIN r.nodes
          /\ \A m \in DOMAIN r.nodes : Has(t.zone, m) /\ r.nodes[m] = Assigned(t.zone[m])
      BY <1>2, <1>6, <3>1 DEF Exactly
    <3> QED  BY <2>1, <3>2 DEF Answered, r
  <2> QED  BY <2>2, <2>3
<1> QED  BY <1>5, <1>6

\* GET of a list of zones.
LEMMA ListIsAnswered ==
    ASSUME NEW t \in Sound, NEW path, NEW name, path = "zones" \/ Intact(t),
           path \in {"zones", "zones/authorative", "zones/soa"}
    PROVE  Answered(t, path, name, ProcessGet(t, path, name))
<1> DEFINE r == ProcessGet(t, path, name)
           want == Wanted(t, path, name)
<1>1. ASSUME NEW S, r = ListOf(t, S),
             want = {n \in Name : Has(t.zone, n) /\ n \in S},
             \A n \in want : GetDomainName(t, n) = n
      PROVE  Answered(t, path, name, r)
  <2> HIDE DEF r, want
  <2>1. Exactly(t, r, want)
    BY <1>1, ListOfIsExact
  <2>2. path \notin {"", "other"} /\ ~IsMissing(t, path, name)
    BY DEF IsMissing
  <2> QED  BY <2>1, <2>2 DEF Answered, want
<1>2. Intact(t) => \A n \in want : GetDomainName(t, n) = n
  BY IntactName DEF Wanted
<1>3. CASE path = "zones"
  <2> DEFINE S == {n \in Name : t.parent[n] = Root}
  <2>1. r = ListOf(t, S)
    BY <1>3 DEF ProcessGet
  <2>2. ASSUME NEW n \in Name PROVE n \in S <=> Len(n) = 1
    <3>1. Len(n) = 1 => n \in S
      BY RootZoneName
    <3>2. n \in S => Len(Root) = Len(n) - 1
      BY DEF Sound, PointersUp
    <3>3. Len(Root) = 0 /\ Len(n) \in Nat
      BY NameFacts DEF Root
    <3> HIDE DEF S
    <3> QED  BY <3>1, <3>2, <3>3
  <2> HIDE DEF S
  <2>3. want = {n \in Name : Has(t.zone, n) /\ n \in S}
    BY <1>3, <2>2 DEF Wanted
  <2>4. \A n \in want : GetDomainName(t, n) = n
    BY <1>3, RootZoneName DEF Wanted
  <2> HIDE DEF r, want
  <2> QED  BY <1>1, <2>1, <2>3, <2>4 DEF r
<1>4. CASE path = "zones/authorative"
  <2> DEFINE S == {n \in HaveSoa(t) : t.zone[n].authorative}
  <2>1. r = ListOf(t, S)
    BY <1>4 DEF ProcessGet
  <2>2. want = {n \in Name : Has(t.zone, n) /\ n \in S}
    BY <1>4 DEF Wanted, HaveSoa
  <2> HIDE DEF r, want, S
  <2> QED  BY <1>1, <1>2, <1>4, <2>1, <2>2 DEF r
<1>5. CASE path = "zones/soa"
  <2> DEFINE S == HaveSoa(t)
  <2>1. r = ListOf(t, S)
    BY <1>5 DEF ProcessGet
  <2>2. want = {n \in Name : Has(t.zone, n) /\ n \in S}
    BY <1>5 DEF Wanted, HaveSoa
  <2> HIDE DEF r, want, S
  <2> QED  BY <1>1, <1>2, <1>5, <2>1, <2>2 DEF r
<1> QED  BY <1>3, <1>4, <1>5

\* GET answers every path, for every tree whose pointers lead one level up.
LEMMA GetAnswers ==
    ASSUME NEW t \in Sound PROVE GetIsExact(t)
<1>1. ASSUME NEW path \in Path, NEW name \in Name \cup {Root}, path = "zones" \/ Intact(t)
      PROVE  Answered(t, path, name, ProcessGet(t, path, name))
  <2> DEFINE r == ProcessGet(t, path, name)
  <2>1. CASE path \in {"", "other"} \/ (name = Root /\ path \in {"zone", "zones/recurse"})
    <3>1. r = ReplyOf(404, NoNodes) \/ r = ReplyOf(500, NoNodes)
      <4>1. CASE path \in {"", "other"}
        BY <4>1 DEF ProcessGet
      <4>2. CASE path = "zone" /\ name = Root
        BY <4>2 DEF ProcessGet
      <4>3. CASE path = "zones/recurse" /\ name = Root
        BY <4>3 DEF ProcessGet
      <4> QED  BY <2>1, <4>1, <4>2, <4>3
    <3>2. path \in {"", "other"} \/ IsMissing(t, path, name)
      BY <2>1, RootIsNoName DEF IsMissing, Has
    <3>3. r.status \in {404, 500} /\ r.nodes = NoNodes
      BY <3>1 DEF ReplyOf
    <3> QED  BY <3>2, <3>3 DEF Answered
  <2>2. CASE name # Root /\ path \in {"zone", "zones/recurse"}
    <3> DEFINE recurse == path = "zones/recurse"
    <3>1. r = GetZone(t, name, recurse) /\ recurse \in BOOLEAN /\ name \in Name
      BY <2>2 DEF ProcessGet
    <3>2. path = IF recurse THEN "zones/recurse" ELSE "zone"
      BY <2>2
    <3>3. Intact(t)
      BY <1>1, <2>2
    <3> HIDE DEF r, recurse
    <3>4. Answered(t, path, name, GetZone(t, name, recurse))
      BY <3>1, <3>2, <3>3, ZoneIsAnswered
    <3> QED  BY <3>1, <3>4 DEF r
  <2>3. CASE path \in {"zones", "zones/authorative", "zones/soa"}
    BY <1>1, <2>3, ListIsAnswered
  <2> QED  BY <2>1, <2>2, <2>3 DEF Path
<1> QED  BY <1>1 DEF GetIsExact, Answered, IsMissing, Exactly

\* GET of any path returns the zones it should, each under its name with its data,
\* whatever requests, crashes and restarts came before, for any names and any number
\* of zones.
THEOREM ReadsStayExact == Spec => []ReadsAreExact
<1>1. Init => PointerInv /\ AnswerInv
  BY InitIsHonest
<1>2. IInv /\ PointerInv /\ AnswerInv /\ [Next]_vars => PointerInv' /\ AnswerInv'
  BY NextIsHonest
<1>3. IInv /\ PointerInv => ReadsAreExact
  <2> SUFFICES ASSUME IInv, PointerInv PROVE GetIsExact(zones)
    BY DEF ReadsAreExact
  <2>1. zones \in Sound
    BY DEF IInv, TypeOK, Rest, TreeInv, PointerInv, Sound
  <2> QED  BY <2>1, GetAnswers
<1> QED  BY <1>1, <1>2, <1>3, Invariance, PTL DEF Spec
=============================================================================
