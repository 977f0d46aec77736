----------------------------- MODULE AnswerBase -----------------------------
(***************************************************************************)
(* The bytes of a reply: LabelHeader and Question parse the names of a     *)
(* datagram, AnswerBase and the Rdata classes write records whose names    *)
(* are compressed against the names that are already in the buffer.        *)
(*                                                                         *)
(* A buffer is a sequence of cells: a label with its length byte, a        *)
(* pointer, the end mark of a name, the length of a record's data, or some *)
(* bytes without a name in them.  An offset is the index of a cell, so the *)
(* code's `offset + len + 1' is the next cell; sizes are in bytes.  Names  *)
(* are in the order of the wire, www.example.com being                     *)
(* <<"www", "example", "com">>.                                            *)
(***************************************************************************)
EXTENDS Integers, SequencesExt, FiniteSets

CONSTANTS
    Label,        \* the pieces between the dots of a name
    LabelBytes,   \* [Label -> Nat]: nothing checks how long they are
    MaxLabels,    \* the limit of ValidateSize: 255
    MaxReply,     \* max_reply_buffer_: 512
    Datagram,     \* what may follow the header of a query: sequences of cells
    Stale,        \* cells that an earlier query may have left after them
    QdCount,      \* the QDCOUNTs a query may have
    Answer,       \* the records that may be stored; see AnswerType
    MaxRecords    \* bound: how many records are stored

HeaderBytes == 12

\* The label of a cell that has none.
NoLabel == "no label"

\* The labels that a length byte can be read back for: below 64 and not the end mark.
Proper == {l \in Label : LabelBytes[l] \in 1..63}

\* The labels whose length byte, the length modulo 256, may read as a pointer or as the
\* length of a shorter label.
Wild == {l \in Label : LabelBytes[l] >= 192}

CellKind == {"label", "pointer", "end", "rdlength", "fixed",  \* we write these
             "illegal", "bad"}                                \* a datagram may have these too

\* `label' of a label, `to' of a pointer, `value' of a length; the others are dummies.
Cell == [kind : CellKind, label : Proper \cup {NoLabel}, to : Nat, value : Nat, bytes : Nat]

Raw(kind, n)  == [kind |-> kind, label |-> NoLabel, to |-> 0, value |-> 0, bytes |-> n]
Pointer(p)    == [Raw("pointer", 2) EXCEPT !.to = p]
End           == Raw("end", 1)

\* The length byte and the label, whatever they are: no bytes at all make an end mark,
\* 64 or more a byte that is no length.
LabelCell(l) ==
    CASE l \in Proper      -> [Raw("label", 1 + LabelBytes[l]) EXCEPT !.label = l]
      [] LabelBytes[l] = 0 -> End
      [] OTHER             -> Raw("bad", 1 + LabelBytes[l])

RdLength(n)   == [Raw("rdlength", 2) EXCEPT !.value = n]
Fixed(n)      == Raw("fixed", n)

Bytes(cells) ==
    LET upTo[i \in 0..Len(cells)] == IF i = 0 THEN 0 ELSE upTo[i - 1] + cells[i].bytes
    IN  upTo[Len(cells)]

\* What lies past the end of a datagram or a buffer is not known; reading it as a
\* part of a name is always an error.
CellAt(cells, p) == IF p \in DOMAIN cells THEN cells[p] ELSE Raw("bad", 0)

(* A record to be stored.  Names are what ToFraments makes of them: empty  *)
(* labels stay, but for one at the end, so that only the empty string has  *)
(* none.  An empty `owner' stands for a pointer to the question that is    *)
(* being answered.  `hosts' are the names in its data: the target of a     *)
(* CNAME, NS or MX, the server (if known) and the mailbox of a SOA, whose  *)
(* names are completed with the name of the zone unless they end with a    *)
(* dot (`absolute').  `text' is the number of bytes of a TXT.              *)
RType == {"A", "AAAA", "CNAME", "NS", "MX", "SOA", "TXT"}
Host == [name : Seq(Label), absolute : BOOLEAN]
AnswerType == [type : RType, owner : Seq(Label), hosts : Seq(Host), zone : Seq(Label), text : Nat]

ASSUME LabelAssumption ==
    /\ NoLabel \notin Label
    /\ LabelBytes \in [Label -> Nat]
    /\ MaxLabels \in Nat /\ MaxReply \in Nat /\ HeaderBytes <= MaxReply
ASSUME DatagramAssumption ==
    /\ Datagram \subseteq Seq(Cell)
    /\ \A d \in Datagram : \A i \in DOMAIN d :
        /\ d[i].kind = "label" => d[i].label \in Proper /\ d[i] = LabelCell(d[i].label)
        /\ d[i].kind = "end" => d[i] = End
    /\ Stale \subseteq Cell
    /\ QdCount \subseteq Nat \ {0}
ASSUME AnswerAssumption ==
    /\ Answer \subseteq AnswerType
    /\ \A a \in Answer :
        Len(a.hosts) \in CASE a.type \in {"CNAME", "NS", "MX"} -> {1}
                           [] a.type = "SOA" -> {1, 2}
                           [] OTHER -> {0}

VARIABLES
    phase,      \* "receive", "answer", "refused", "done" or "undefined"
    datagram,   \* the query being answered, after its header
    rcode,      \* of the reply
    name,       \* the labels that the question was parsed into
    question,   \* offset_ of the question being answered; 0 after the last one
    asked,      \* the offsets of the questions in the reply
    buffer,     \* the reply
    starts,     \* label_start_points_
    records     \* history: the records in the buffer, see RecordType

vars == <<phase, datagram, rcode, name, question, asked, buffer, starts, records>>

-----------------------------------------------------------------------------
(* LabelHeader: the labels of the question in d, `s' being the cell that   *)
(* an earlier datagram left in the query buffer past the end of this one.  *)
(* The result is the labels, or the exception that is thrown.              *)

Thrown(x) == [labels |-> << >>, end |-> x, next |-> 0]
Prepend(l, r) == IF r.end = "ok" THEN [r EXCEPT !.labels = <<l>> \o @] ELSE r

\* The labels a pointer may lead to: the ones parsed before the first pointer.
KnownLabels(d) ==
    {p \in DOMAIN d : \A q \in 1..p : d[q].kind = "label"}

\* What a cell adds to the size that ValidateSize looks at.
SizeOf(c) ==
    CASE c.kind = "end" -> 1 [] c.kind = "pointer" -> 2 [] OTHER -> c.bytes - 1

\* Is there one more label at p, `size' bytes being parsed?
GoesOn(d, p, size) ==
    /\ p \in DOMAIN d
    /\ d[p].kind \in {"label", "pointer"}
    /\ size + SizeOf(d[p]) <= MaxLabels
    /\ d[p].kind = "pointer" => d[p].to \in KnownLabels(d)

\* How the labels end if there is none.
LabelsEnd(d, s, p, size) ==
    LET c == IF p \in DOMAIN d THEN d[p] ELSE s
    IN  IF \/ c.kind \notin {"end", "label", "illegal", "pointer"}
           \/ size + SizeOf(c) > MaxLabels
           \/ c.kind # "end" /\ p \notin DOMAIN d
        THEN Thrown("LabelHeader")
        ELSE CASE c.kind = "illegal" -> Thrown("IllegalLabel")
               [] c.kind = "end" /\ size = 0 -> Thrown("NoLabels")
               [] c.kind = "end" /\ size # 0 -> [labels |-> << >>, end |-> "ok", next |-> p + 1]
               [] OTHER -> Thrown("IllegalPointer")

(* A pointer is followed by going on after the label that it names.  `to'  *)
(* is the cell that FindPointer arrives at with the two bytes in the       *)
(* machine's order, which need not be the one that the sender meant.       *)
LabelFor(d, p) == IF d[p].kind = "pointer" THEN d[p].to ELSE p

ParseLabels(d, s) ==
    LET parse[x \in (1..(Len(d) + 1)) \X (0..MaxLabels)] ==
          IF GoesOn(d, x[1], x[2])
          THEN Prepend(d[LabelFor(d, x[1])].label,
                       parse[<<LabelFor(d, x[1]) + 1, x[2] + SizeOf(d[x[1]])>>])
          ELSE LabelsEnd(d, s, x[1], x[2])
    IN  IF d = << >> THEN Thrown("LabelHeader") ELSE parse[<<1, 0>>]

\* Mutant: a pointer ends the name, as it does on the wire.
ParseQuestionToPointer(d, s) ==
    LET p == SelectInSeq(d, LAMBDA c : c.kind = "pointer")
        r == ParseLabels(d, s)
    IN  IF d = << >> THEN Thrown("InvalidQuery")
        ELSE IF p \in 2..(Len(d) - 1) /\ p - 1 \in KnownLabels(d)
        THEN [labels |-> [i \in 1..(p - 1) |-> d[i].label], end |-> "ok", next |-> p + 1]
        ELSE IF r.end = "ok" /\ Bytes(SubSeq(d, r.next, Len(d))) < 4 THEN Thrown("QuestionHeader")
        ELSE r

\* Mutant: LabelHeader takes what is left in the buffer for a part of the datagram.
ParseQuestionTooFar(d, s) ==
    LET r == ParseLabels(Append(d, s), s)
    IN  IF d = << >> THEN Thrown("InvalidQuery")
        ELSE IF r.end = "ok" /\ Bytes(SubSeq(d, r.next, Len(d))) < 4 THEN Thrown("QuestionHeader")
        ELSE r

\* ProcessQuestions wants something after the header; Question: the type and the class,
\* 4 bytes, must follow the name.
ParseQuestion(d, s) ==
    LET r == ParseLabels(d, s)
    IN  IF d = << >> THEN Thrown("InvalidQuery")
        ELSE IF r.end = "ok" /\ Bytes(SubSeq(d, r.next, Len(d))) < 4 THEN Thrown("QuestionHeader")
        ELSE r

\* The catch clauses of ProcesssQuerey.
RcodeOf(exception) ==
    IF exception \in {"InvalidQuery", "NoLabels", "IllegalLabel"} THEN "FORMAT_ERROR"
    ELSE "SERVER_FAILURE"

-----------------------------------------------------------------------------
(* AnswerBase.  `w' is what the writers work on: the buffer and            *)
(* label_start_points_.                                                    *)

Writer == [buffer : Seq(Cell), starts : Seq(Nat)]

\* The cells of the labels that the name at p0 leads through, down to its end.  A name
\* that comes to no end leads to 0.
Path(cells, p0) ==
    LET path[p \in 0..Len(cells) + 1] ==
          CASE CellAt(cells, p).kind = "label"   -> <<p>> \o path[p + 1]
            [] CellAt(cells, p).kind = "pointer" -> path[CellAt(cells, p).to]
            [] OTHER -> IF CellAt(cells, p).kind = "end" THEN << >> ELSE <<0>>
    IN  path[p0]

\* How many labels at the ends of the path and of the fragments are the same; none if
\* the name has no end.
Matching(cells, frags, path) ==
    LET same(k) == cells[path[Len(path) + 1 - k]].label = frags[Len(frags) + 1 - k]
        depth   == IF Len(path) < Len(frags) THEN Len(path) ELSE Len(frags)
    IN  IF 0 \in Range(path) THEN 0 ELSE Max({k \in 0..depth : \A i \in 1..k : same(i)})

\* Mutant: currFrag is not rolled back after a label that differs.
ReverseCompareKeepsFrag(cells, frags, start) ==
    LET path == Path(cells, start)
        k    == Matching(cells, frags, path)
    IN  [frag |-> IF Len(path) > k THEN Len(frags) - k - 1 ELSE Len(frags) - k,
         best |-> IF k = 0 THEN 0 ELSE path[Len(path) + 1 - k]]

(* ReverseCompare goes down the name to its end and matches its labels     *)
(* with the fragments on the way back.  `frag' is how many fragments are   *)
(* not matched (currFrag), `best' the cell of the last label that was.  If *)
(* the name has more labels than there are fragments and all of them       *)
(* match, currFrag goes below 0.                                           *)
ReverseCompare(cells, frags, start) ==
    LET path == Path(cells, start)
        k    == Matching(cells, frags, path)
    IN  [frag |-> IF k = Len(frags) THEN k - Len(path) ELSE Len(frags) - k,
         best |-> IF k = 0 THEN 0 ELSE path[Len(path) + 1 - k]]

\* The better of the best match so far and the one at `start'; the first one stays.
Nearer(cells, frags, best, start) ==
    LET r == ReverseCompare(cells, frags, start)
    IN  IF r.frag \in 0..(best.frag - 1) THEN [frag |-> r.frag, offset |-> r.best] ELSE best

\* SearchForDomainName: the first of the matches that leave the fewest fragments;
\* Len(frags) if there is none.
SearchForDomainName(w, frags) ==
    LET best[i \in 0..Len(w.starts)] ==
          IF i = 0 THEN [frag |-> Len(frags), offset |-> 0]
          ELSE Nearer(w.buffer, frags, best[i - 1], w.starts[i])
    IN  best[Len(w.starts)]

\* WriteDomainName of two arguments: what is not found, then a pointer to the rest.
WriteFragments(w, frags) ==
    LET found == SearchForDomainName(w, frags)
        labels == [i \in 1..found.frag |-> LabelCell(frags[i])]
        end == IF found.frag < Len(frags) THEN Pointer(found.offset) ELSE End
    IN  [w EXCEPT !.buffer = Append(@ \o labels, end)]

\* Mutant: a name is never remembered.
AddLabelForCompressionNever(w, p) == w

\* AddLabelForCompression: remember the name at p unless it is a pointer to one that
\* is known, or known itself.
AddLabelForCompression(w, p) ==
    LET c == CellAt(w.buffer, p)
        dst == IF c.kind = "pointer" THEN c.to ELSE p
    IN  IF dst \in Range(w.starts) THEN w ELSE [w EXCEPT !.starts = Append(@, p)]

\* WriteDomainName of three arguments; `fqdn' is the name, completed.
WriteDomainName(w, fqdn) ==
    AddLabelForCompression(WriteFragments(w, fqdn), Len(w.buffer) + 1)

\* ToFraments drops an empty label at the end, of a zone whose last label is a wildcard.
ToFraments(labels) ==
    IF labels # << >> /\ LabelBytes[Last(labels)] = 0 THEN Front(labels) ELSE labels

\* The name, and the labels of the zone and its parents; an empty name stays empty.
Fqdn(h, zone) ==
    IF h.absolute \/ h.name = << >> THEN h.name ELSE ToFraments(h.name \o zone)

(* What a record writes, piece by piece: cells, and names that are yet to  *)
(* be compressed.                                                          *)

NamePiece(fqdn) == [kind |-> "name", labels |-> fqdn]
HostPiece(a, i) == NamePiece(Fqdn(a.hosts[i], a.zone))

Put(w, cell) == [w EXCEPT !.buffer = Append(@, cell)]

\* The owner is a name, or a pointer to the question, whose name then is known too.
WritePiece(w, x) ==
    CASE x.kind = "name"    -> WriteDomainName(w, x.labels)
      [] x.kind = "pointer" -> AddLabelForCompression(Put(w, x), x.to)
      [] OTHER              -> Put(w, x)

WritePieces(w, pieces) ==
    LET after[i \in 0..Len(pieces)] ==
          IF i = 0 THEN w ELSE WritePiece(after[i - 1], pieces[i])
    IN  after[Len(pieces)]

\* WriteHeader: the owner, then type, class and ttl, then room for rdlength.
WriteHeader(a, q) ==
    <<IF a.owner # << >> THEN NamePiece(a.owner) ELSE Pointer(q), Fixed(8), RdLength(0)>>

\* The data that the Rdata classes write after the header.
RdataA(a)     == <<Fixed(4)>>
RdataAaaa(a)  == <<Fixed(16)>>
RdataCname(a) == <<HostPiece(a, 1)>>
RdataNs(a)    == <<HostPiece(a, 1)>>
RdataMx(a)    == <<Fixed(2), HostPiece(a, 1)>>
RdataTxt(a)   == <<Fixed(1 + a.text)>>

\* MNAME if there is one, RNAME, and the five numbers.
RdataSoa(a) == Append([i \in DOMAIN a.hosts |-> HostPiece(a, i)], Fixed(20))

Rdata(a) ==
    CASE a.type = "A"     -> RdataA(a)      [] a.type = "AAAA" -> RdataAaaa(a)
      [] a.type = "CNAME" -> RdataCname(a)  [] a.type = "NS"   -> RdataNs(a)
      [] a.type = "MX"    -> RdataMx(a)     [] a.type = "TXT"  -> RdataTxt(a)
      [] a.type = "SOA"   -> RdataSoa(a)

\* Mutant: the two bytes of an MX's priority are not counted.
RdlengthOfName(a, data) ==
    IF a.type = "MX" THEN Bytes(Tail(data)) ELSE Bytes(data)

\* rdlength_: fixed for addresses, else what was written, `data' being that.
Rdlength(a, data) ==
    CASE a.type = "A"    -> 4
      [] a.type = "AAAA" -> 16
      [] a.type = "MX"   -> 2 + Bytes(Tail(data))
      [] OTHER           -> Bytes(data)

\* Where the rdlength is of the record that begins at the cell `from'.
RdlengthAt(cells, from) ==
    CHOOSE p \in from..Len(cells) :
        cells[p].kind = "rdlength" /\ \A i \in from..(p - 1) : cells[i].kind # "rdlength"

\* Write of the Rdata classes; WriteRdlength fills in the length last.
Write(w, a, q) ==
    LET all  == WritePieces(w, WriteHeader(a, q) \o Rdata(a))
        at   == RdlengthAt(all.buffer, Len(w.buffer) + 1)
        data == SubSeq(all.buffer, at + 1, Len(all.buffer))
    IN  [all EXCEPT !.buffer[at] = RdLength(Rdlength(a, data))]

-----------------------------------------------------------------------------
(* One query.  ProcessQuestions parses the question and copies it `n'      *)
(* times, n being the QDCOUNT; then the records are stored, those of the   *)
(* first question first.                                                   *)

\* A record, its cells at..last, and where its rdlength is.
RecordType == [answer : AnswerType, owner : Seq(Label), at : Nat, rdlength : Nat, last : Nat]

Init ==
    /\ phase = "receive"
    /\ datagram = << >>
    /\ rcode = "OK"
    /\ name = << >>
    /\ question = 0
    /\ asked = << >>
    /\ buffer = << >>
    /\ starts = << >>
    /\ records = << >>

\* The query is refused, with the header alone as the reply.
Refuse(r) ==
    /\ phase' = "refused"
    /\ rcode' = r
    /\ buffer' = <<Fixed(HeaderBytes)>>
    /\ UNCHANGED <<name, question, asked>>

\* All the questions are the first one, read again; QCLASS is the class in it.
QClass == {"IN", "other"}

Receive(d, s, n, class) ==
    /\ phase = "receive"
    /\ datagram' = d
    /\ LET r == ParseQuestion(d, s)
           q == Append(SubSeq(d, 1, r.next - 1), Fixed(4))
       IN  \/ /\ r.end # "ok"
              /\ Refuse(RcodeOf(r.end))
           \/ /\ r.end = "ok" /\ class # "IN"
              /\ Refuse("REFUSED")
           \/ /\ r.end = "ok" /\ class = "IN"
              /\ HeaderBytes + n * Bytes(q) >= MaxReply
              /\ Refuse("FORMAT_ERROR")
           \/ /\ r.end = "ok" /\ class = "IN"
              /\ HeaderBytes + n * Bytes(q) < MaxReply
              /\ phase' = "answer"
              /\ name' = r.labels
              /\ asked' = [i \in 1..n |-> 2 + (i - 1) * Len(q)]
              /\ question' = 2
              /\ buffer' = <<Fixed(HeaderBytes)>> \o FlattenSeq([i \in 1..n |-> q])
              /\ UNCHANGED rcode
    /\ UNCHANGED <<starts, records>>

\* The record that w has and the buffer has not.
NewRecord(w, a) ==
    [answer |-> a, owner |-> IF a.owner = << >> THEN name ELSE a.owner,
     at |-> Len(buffer) + 1, rdlength |-> RdlengthAt(w.buffer, Len(buffer) + 1),
     last |-> Len(w.buffer)]

\* May a be stored now?  Without a question there is none to point at, and name
\* servers come after all the questions.
Fits(a) ==
    /\ phase = "answer"
    /\ Len(records) < MaxRecords
    /\ a.owner = << >> => question # 0
    /\ a.type = "NS" => question = 0

\* The labels of the names of a.
NamesIn(a) == Range(a.owner) \cup UNION {Range(Fqdn(a.hosts[i], a.zone)) : i \in DOMAIN a.hosts}

\* Mutant: a record that does not fit is taken back and the next one tried.
StoreGoesOn(a) ==
    /\ Fits(a)
    /\ NamesIn(a) \cap Wild = {}
    /\ \E w \in {Write([buffer |-> buffer, starts |-> starts], a, question)} :
           /\ starts' = w.starts
           /\ IF Bytes(w.buffer) > MaxReply THEN UNCHANGED <<buffer, records>>
              ELSE /\ buffer' = w.buffer
                   /\ records' = Append(records, NewRecord(w, a))
    /\ UNCHANGED <<phase, datagram, rcode, name, question, asked>>

\* Mutant: the record that does not fit stays in the buffer.
StoreKeepsAll(a) ==
    /\ Fits(a)
    /\ NamesIn(a) \cap Wild = {}
    /\ \E w \in {Write([buffer |-> buffer, starts |-> starts], a, question)} :
           /\ starts' = w.starts
           /\ buffer' = w.buffer
           /\ IF Bytes(w.buffer) > MaxReply
              THEN phase' = "done" /\ UNCHANGED records
              ELSE records' = Append(records, NewRecord(w, a)) /\ UNCHANGED phase
    /\ UNCHANGED <<datagram, rcode, name, question, asked>>

(* Store: Revert cuts the buffer back if the record is too much, but not   *)
(* label_start_points_; Truncated then ends the work on the query.         *)
Store(a) ==
    /\ Fits(a)
    /\ NamesIn(a) \cap Wild = {}
    /\ \E w \in {Write([buffer |-> buffer, starts |-> starts], a, question)} :
           /\ starts' = w.starts
           /\ \/ /\ Bytes(w.buffer) > MaxReply
                 /\ phase' = "done"
                 /\ UNCHANGED <<buffer, records>>
              \/ /\ Bytes(w.buffer) <= MaxReply
                 /\ buffer' = w.buffer
                 /\ records' = Append(records, NewRecord(w, a))
                 /\ UNCHANGED phase
    /\ UNCHANGED <<datagram, rcode, name, question, asked>>

\* What is found behind a length byte that reads as a pointer is left open, and so is
\* everything that follows.
StoreWild(a) ==
    /\ Fits(a)
    /\ NamesIn(a) \cap Wild # {}
    /\ phase' = "undefined"
    /\ UNCHANGED <<datagram, rcode, name, question, asked, buffer, starts, records>>

\* ProcessQuestions goes on to the next question, or to the other sections.
NextQuestion ==
    /\ phase = "answer"
    /\ question # 0
    /\ LET later == {o \in Range(asked) : o > question}
       IN  question' = IF later = {} THEN 0 ELSE Min(later)
    /\ UNCHANGED <<phase, datagram, rcode, name, asked, buffer, starts, records>>

Finish ==
    /\ phase = "answer"
    /\ question = 0
    /\ phase' = "done"
    /\ UNCHANGED <<datagram, rcode, name, question, asked, buffer, starts, records>>

Stopped ==
    /\ phase \in {"refused", "done", "undefined"}
    /\ UNCHANGED vars

Next ==
    \/ \E d \in Datagram, s \in Stale, n \in QdCount, class \in QClass : Receive(d, s, n, class)
    \/ \E a \in Answer : Store(a) \/ StoreWild(a)
    \/ NextQuestion
    \/ Finish
    \/ Stopped

Spec == Init /\ [][Next]_vars

-----------------------------------------------------------------------------
(* Properties.                                                             *)

\* The variables have the values their C++ types and the protocol allow; no reply
\* is sent that is longer than max_reply_buffer_ (Store, Revert).
TypeOK ==
    /\ phase \in {"receive", "answer", "refused", "done", "undefined"}
    /\ datagram \in Datagram \cup {<< >>}
    /\ rcode \in {"OK", "FORMAT_ERROR", "SERVER_FAILURE", "REFUSED"}
    /\ name \in Seq(Proper)
    /\ asked \in Seq(Nat) /\ question \in Range(asked) \cup {0}
    /\ buffer \in Seq(Cell) /\ Bytes(buffer) <= MaxReply
    /\ starts \in Seq(Nat)
    /\ records \in Seq(RecordType)

(* How a client reads a name: labels up to the end mark, a pointer leading *)
(* to an earlier place.  An error reads as <<NoLabel>>, no name at all.    *)
NameAt(cells, p0) ==
    LET read[p \in 0..Len(cells) + 1] ==
          CASE CellAt(cells, p).kind = "label" -> <<CellAt(cells, p).label>> \o read[p + 1]
            [] CellAt(cells, p).kind = "pointer" /\ CellAt(cells, p).to < p ->
                 read[CellAt(cells, p).to]
            [] OTHER -> IF CellAt(cells, p).kind = "end" THEN << >> ELSE <<NoLabel>>
    IN  read[p0]

\* The cell after the name at p0.
NameEnd(cells, p0) ==
    1 + CHOOSE p \in p0..Len(cells) :
            /\ cells[p].kind # "label"
            /\ \A i \in p0..(p - 1) : cells[i].kind = "label"

(* What a reader can make of a name: all of it if every label is proper.   *)
(* An empty label is an end mark and cuts the name short, a label that is  *)
(* too long makes it unreadable from there on.                             *)
AsRead(n) ==
    IF n \in Seq(Proper) THEN n
    ELSE LET i == Min({k \in DOMAIN n : n[k] \notin Proper})
         IN  SubSeq(n, 1, i - 1) \o IF LabelBytes[n[i]] = 0 THEN << >> ELSE <<NoLabel>>

\* The names of a record: where they are and what they should be.  Behind a name that
\* is cut short a reader does not find the next one.
NamesOf(r) ==
    LET a == r.answer
        meant(i) == Fqdn(a.hosts[i], a.zone)
        first == r.rdlength + IF a.type = "MX" THEN 2 ELSE 1
        place(i) == IF i = 1 THEN first ELSE NameEnd(buffer, first)
    IN  {[at |-> r.at, name |-> r.owner]} \cup
        {[at |-> place(i), name |-> meant(i)] :
            i \in {j \in DOMAIN a.hosts : j = 1 \/ meant(1) \in Seq(Proper)}}

AllNames == UNION {NamesOf(records[i]) : i \in DOMAIN records}

\* The names that the records of the reply are meant to have.
MeantNames ==
    UNION {LET r == records[i] IN
           {r.owner} \cup {Fqdn(r.answer.hosts[k], r.answer.zone) : k \in DOMAIN r.answer.hosts} :
           i \in DOMAIN records}

\* Every name in a record, owner or data, reads back as the name that was meant,
\* through any chain of pointers, all of which lead backwards, and whatever names with
\* empty or overlong labels are in the same reply (WriteDomainName,
\* SearchForDomainName, ReverseCompare).  A name with such a label reads as AsRead says,
\* and not as what it was meant to be: run wire_soa.
NamesReadBack == \A n \in AllNames : NameAt(buffer, n.at) = AsRead(n.name)

\* A reader that trusts the rdlengths finds every record: each length is the number
\* of bytes up to the next record or the end, for a text that outgrows its length
\* byte too (WriteRdlength, the Write of every Rdata class).
RecordsFramed ==
    \A i \in DOMAIN records :
        LET r == records[i] IN
        /\ buffer[r.rdlength].value = Bytes(SubSeq(buffer, r.rdlength + 1, r.last))
        /\ r.last = IF i < Len(records) THEN records[i + 1].at - 1 ELSE Len(buffer)

\* While there is more to write, every known start is a name in the buffer, one that a
\* record has, as far as it can be read: no offset of a record that was taken back is
\* left to be pointed at (Store, Revert, AddLabelForCompression).
StartsReadable ==
    phase = "answer" =>
        \A p \in Range(starts) : NameAt(buffer, p) \in {AsRead(n) : n \in MeantNames}

\* A name that an earlier record has, or the same one has before, takes two bytes if all
\* its labels are proper; only the root is shorter (AddLabelForCompression: "Add a label
\* in the reply-buffer to the list of known labels").
KnownNamesShared ==
    \A m, n \in AllNames :
        /\ m.name = n.name /\ m.at < n.at
        /\ n.name \in Seq(Proper) \ {<< >>}
        => buffer[n.at].kind = "pointer"

\* The question of an accepted query is in the reply as it came, label by label,
\* and a pointer in it (FindPointer resolves them) never gets that far: no offset
\* of the query becomes one of the reply.
QuestionKept ==
    phase \in {"answer", "done"} =>
        \A i \in DOMAIN asked :
            LET cells == SubSeq(buffer, asked[i], asked[i] + Len(name))
            IN  cells = Append([k \in DOMAIN name |-> LabelCell(name[k])], End)

\* What an earlier datagram left in the query buffer, which the parser may look at
\* by one byte, never decides how a query is answered (LabelHeader, Question).
StaleIgnored ==
    phase # "receive" =>
        \A s \in Stale :
            LET r == ParseQuestion(datagram, s)
            IN  /\ r.end = "ok" => r.labels = name \/ phase = "refused"
                /\ r.end # "ok" => phase = "refused" /\ rcode = RcodeOf(r.end)

-----------------------------------------------------------------------------
\* The data of a SOA reads as two names, the server and the mailbox, and each name as it
\* was meant (Zone.h:125 asks of mname: "FIXME: How do we handle this?"; AnswerBase.h:107
\* says of WriteDomainName: "Write a domain-name into the end of the buffer").  It fails
\* because RdataSoa leaves a missing mname out, and only ZoneMgrMemory sets it, and
\* because WriteDomainName writes the length of any label into one byte.
SoaReadsAsMeant ==
    \A i \in DOMAIN records :
        LET r == records[i] IN
        r.answer.type = "SOA" =>
            /\ Cardinality({p \in r.rdlength + 1..r.last : buffer[p].kind \in {"pointer", "end"}}) = 2
            /\ \A n \in NamesOf(r) : NameAt(buffer, n.at) = n.name
=============================================================================
