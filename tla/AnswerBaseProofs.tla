-------------------------- MODULE AnswerBaseProofs --------------------------
(***************************************************************************)
(* Proofs about AnswerBase for all labels, datagrams, records and sizes.   *)
(***************************************************************************)
EXTENDS AnswerBase, RecursionProofs

-----------------------------------------------------------------------------
(* Bytes.                                                                  *)

\* The parts of a cell have their types.
LEMMA CellParts ==
    ASSUME NEW c \in Cell
    PROVE  c.kind \in CellKind /\ c.to \in Nat /\ c.value \in Nat /\ c.bytes \in Nat
BY DEF Cell

\* The cells of a list are cells.
LEMMA CellsParts ==
    ASSUME NEW s \in Seq(Cell)
    PROVE  /\ Len(s) \in Nat /\ DOMAIN s = 1..Len(s)
           /\ \A i \in 1..Len(s) : s[i] \in Cell /\ s[i].bytes \in Nat /\ s[i].kind \in CellKind
<1>1. \A i \in 1..Len(s) : s[i] \in Cell
  BY ElementOfSeq
<1> QED  BY <1>1, CellParts, LenProperties

\* Bytes adds up the sizes of the cells, one after the other.
LEMMA BytesRuns ==
    ASSUME NEW s \in Seq(Cell)
    PROVE  \E f \in [0..Len(s) -> Nat] :
             /\ f[0] = 0
             /\ \A i \in 1..Len(s) : f[i] = f[i - 1] + s[i].bytes
             /\ Bytes(s) = f[Len(s)]
<1> DEFINE N == Len(s)
           Def(f) == [i \in 0..N |-> IF i = 0 THEN 0 ELSE f[i - 1] + s[i].bytes]
           upTo == CHOOSE f : f = Def(f)
           g == [x \in (1..N) \X Nat |-> x[2] + s[x[1]].bytes]
<1>1. N \in Nat /\ \A i \in 1..N : s[i] \in Cell /\ s[i].bytes \in Nat
  BY CellsParts
<1>2. \E f : f = Def(f)
  <2>1. g \in [(1..N) \X Nat -> Nat]
    BY <1>1
  <2>2. PICK f \in [0..N -> Nat] : f[0] = 0 /\ \A i \in 1..N : f[i] = g[<<i, f[i - 1]>>]
    <3> DEFINE T == Nat
               base == 0
    <3>1. N \in Nat /\ base \in T /\ IsStep(g, N, T)
      BY <1>1, <2>1 DEF IsStep
    <3>2. \E f : Steps(f, N, T, base, g)
      <4> HIDE DEF g, N, T, base
      <4> QED  BY <3>1, CountingUp
    <3> QED  BY <3>2 DEF Steps
  <2>3. \A i \in 1..N : f[i] = f[i - 1] + s[i].bytes
    <3> TAKE i \in 1..N
    <3>1. i - 1 \in 0..N /\ f[i - 1] \in Nat
      BY <1>1
    <3>2. g[<<i, f[i - 1]>>] = f[i - 1] + s[i].bytes
      BY <3>1
    <3> QED  BY <2>2, <3>2
  <2>4. f = Def(f)
    BY <1>1, <2>2, <2>3
  <2> HIDE DEF Def
  <2> QED  BY <2>4
<1>3. upTo = Def(upTo)
  <2> HIDE DEF Def
  <2> QED  BY <1>2
<1>4. Bytes(s) = upTo[N]
  BY DEF Bytes
<1> HIDE DEF upTo
<1>5. \A i \in 0..N : upTo[i] = IF i = 0 THEN 0 ELSE upTo[i - 1] + s[i].bytes
  BY <1>3
<1>6. 0..N \subseteq {i \in 0..N : upTo[i] \in Nat}
  <2> DEFINE T == {i \in 0..N : upTo[i] \in Nat}
  <2>1. 0 \in T
    BY <1>1, <1>5
  <2>2. ASSUME NEW i \in 1..N, i - 1 \in T PROVE i \in T
    BY <1>1, <1>5, <2>2
  <2>3. 0..N \subseteq T
    <3> HIDE DEF T, N
    <3> QED  BY <1>1, <2>1, <2>2, BoundedInduction
  <2> QED  BY <2>3
<1>7. upTo \in [0..N -> Nat]
  BY <1>3, <1>6
<1>8. upTo[0] = 0 /\ \A i \in 1..N : upTo[i] = upTo[i - 1] + s[i].bytes
  BY <1>1, <1>5
<1> HIDE DEF N
<1>9. \E f \in [0..N -> Nat] :
        f[0] = 0 /\ (\A i \in 1..N : f[i] = f[i - 1] + s[i].bytes) /\ Bytes(s) = f[N]
  BY <1>4, <1>7, <1>8
<1> QED  BY <1>9 DEF N

\* The bytes of two lists, one after the other.
LEMMA BytesConcat ==
    ASSUME NEW s \in Seq(Cell), NEW t \in Seq(Cell)
    PROVE  Bytes(s \o t) = Bytes(s) + Bytes(t)
<1> DEFINE u == s \o t
           M == Len(s)
           N == Len(t)
<1>1. /\ u \in Seq(Cell) /\ Len(u) = M + N /\ M \in Nat /\ N \in Nat
      /\ \A i \in 1..M : u[i] = s[i]
      /\ \A i \in 1..N : u[M + i] = t[i]
  BY ConcatProperties, LenProperties
<1>2. PICK f \in [0..M -> Nat] :
        f[0] = 0 /\ (\A i \in 1..M : f[i] = f[i - 1] + s[i].bytes) /\ Bytes(s) = f[M]
  BY BytesRuns
<1>3. PICK g \in [0..N -> Nat] :
        g[0] = 0 /\ (\A i \in 1..N : g[i] = g[i - 1] + t[i].bytes) /\ Bytes(t) = g[N]
  BY BytesRuns
<1> HIDE DEF u, M, N
<1>4. PICK h \in [0..(M + N) -> Nat] :
        h[0] = 0 /\ (\A i \in 1..(M + N) : h[i] = h[i - 1] + u[i].bytes) /\ Bytes(u) = h[M + N]
  BY <1>1, BytesRuns
<1>5. \A i \in 1..M : s[i].bytes \in Nat
  BY CellsParts DEF M
<1>6. \A i \in 1..N : t[i].bytes \in Nat
  BY CellsParts DEF N
<1>7. 0..M \subseteq {i \in 0..M : h[i] = f[i]}
  <2> DEFINE T == {i \in 0..M : h[i] = f[i]}
  <2>1. 0 \in T
    BY <1>1, <1>2, <1>4
  <2>2. ASSUME NEW i \in 1..M, i - 1 \in T PROVE i \in T
    <3>1. i \in 1..(M + N) /\ i - 1 \in 0..M /\ u[i] = s[i] /\ h[i - 1] = f[i - 1]
      BY <1>1, <2>2
    <3>2. h[i] = h[i - 1] + u[i].bytes /\ f[i] = f[i - 1] + s[i].bytes
      BY <1>2, <1>4, <3>1
    <3> QED  BY <3>1, <3>2
  <2>3. 0..M \subseteq T
    <3> HIDE DEF T
    <3> QED  BY <1>1, <2>1, <2>2, BoundedInduction
  <2> QED  BY <2>3
<1>8. 0..N \subseteq {i \in 0..N : h[M + i] = f[M] + g[i]}
  <2> DEFINE T == {i \in 0..N : h[M + i] = f[M] + g[i]}
  <2>1. 0 \in T
    BY <1>1, <1>2, <1>3, <1>7
  <2>2. ASSUME NEW i \in 1..N, i - 1 \in T PROVE i \in T
    <3>1. h[M + (i - 1)] = f[M] + g[i - 1]
      BY <2>2
    <3> HIDE DEF T
    <3>2. M \in 0..M /\ i - 1 \in 0..N /\ M + i \in 1..(M + N) /\ (M + i) - 1 = M + (i - 1)
      BY <1>1
    <3>3. h[M + i] = h[(M + i) - 1] + u[M + i].bytes
      BY <1>4, <3>2
    <3>4. u[M + i] = t[i]
      BY <1>1
    <3>5. f[M] \in Nat /\ g[i - 1] \in Nat
      BY <3>2
    <3>6. t[i].bytes \in Nat
      BY <1>6
    <3>7. g[i] = g[i - 1] + t[i].bytes
      BY <1>3
    <3>8. h[M + i] = (f[M] + g[i - 1]) + t[i].bytes
      BY <3>1, <3>2, <3>3, <3>4
    <3>9. \A x, y, z \in Nat : (x + y) + z = x + (y + z)
      OBVIOUS
    <3>10. h[M + i] = f[M] + g[i]
      BY <3>5, <3>6, <3>7, <3>8, <3>9
    <3> QED  BY <1>1, <3>10 DEF T
  <2>3. 0..N \subseteq T
    <3> HIDE DEF T
    <3> QED  BY <1>1, <2>1, <2>2, BoundedInduction
  <2> QED  BY <2>3
<1>9. Bytes(u) = Bytes(s) + Bytes(t)
  BY <1>1, <1>2, <1>3, <1>4, <1>8
<1> QED  BY <1>9 DEF u

\* The size of a list of cells, of none and of one.
LEMMA BytesFacts ==
    /\ \A s \in Seq(Cell) : Bytes(s) \in Nat
    /\ Bytes(<< >>) = 0
    /\ \A c \in Cell : Bytes(<<c>>) = c.bytes
<1>1. ASSUME NEW s \in Seq(Cell) PROVE Bytes(s) \in Nat
  <2>1. Len(s) \in Nat
    BY LenProperties
  <2> QED  BY <2>1, BytesRuns
<1>2. Bytes(<< >>) = 0
  <2>1. << >> \in Seq(Cell) /\ Len(<< >>) = 0
    OBVIOUS
  <2> QED  BY <2>1, BytesRuns
<1>3. ASSUME NEW c \in Cell PROVE Bytes(<<c>>) = c.bytes
  <2>1. <<c>> \in Seq(Cell) /\ Len(<<c>>) = 1 /\ <<c>>[1] = c /\ c.bytes \in Nat
    BY DEF Cell
  <2>2. PICK f \in [0..1 -> Nat] :
          f[0] = 0 /\ (\A i \in 1..1 : f[i] = f[i - 1] + <<c>>[i].bytes) /\ Bytes(<<c>>) = f[1]
    <3> HIDE DEF Cell
    <3>1. Len(<<c>>) = 1 /\ <<c>> \in Seq(Cell)
      BY <2>1
    <3> QED  BY <3>1, BytesRuns
  <2>3. f[1] = f[0] + c.bytes
    BY <2>1, <2>2
  <2> QED  BY <2>1, <2>2, <2>3
<1> QED  BY <1>1, <1>2, <1>3

-----------------------------------------------------------------------------
(* Cells.                                                                  *)

\* The cells that a record is written with.
LEMMA CellTypes ==
    /\ \A k \in CellKind, n \in Nat : Raw(k, n) \in Cell
    /\ \A l \in Proper : LabelCell(l) \in Cell /\ LabelCell(l).kind = "label"
                         /\ LabelCell(l).label = l
    /\ \A l \in Label \ Proper : LabelCell(l) \in Cell
         /\ LabelCell(l).kind = IF LabelBytes[l] = 0 THEN "end" ELSE "bad"
    /\ \A p \in Nat : Pointer(p) \in Cell /\ Pointer(p).kind = "pointer" /\ Pointer(p).to = p
    /\ \A n \in Nat : /\ RdLength(n) \in Cell /\ RdLength(n).kind = "rdlength"
                      /\ RdLength(n).value = n
    /\ \A n \in Nat : Fixed(n) \in Cell /\ Fixed(n).kind = "fixed" /\ Fixed(n).bytes = n
    /\ End \in Cell /\ End.kind = "end"
<1>1. \A k \in CellKind, n \in Nat : Raw(k, n) \in Cell
  BY DEF Raw, Cell
<1>2. ASSUME NEW l \in Proper
      PROVE  LabelCell(l) \in Cell /\ LabelCell(l).kind = "label" /\ LabelCell(l).label = l
  <2>1. 1 + LabelBytes[l] \in Nat /\ LabelBytes[l] # 0
    BY LabelAssumption DEF Proper
  <2>2. LabelCell(l) = [Raw("label", 1 + LabelBytes[l]) EXCEPT !.label = l]
    BY <2>1 DEF LabelCell
  <2> HIDE DEF LabelCell
  <2>3. l \in Proper \cup {NoLabel}
    OBVIOUS
  <2> QED  BY <2>1, <2>2, <2>3 DEF Raw, Cell, CellKind
<1>3. \A p \in Nat : Pointer(p) \in Cell /\ Pointer(p).kind = "pointer" /\ Pointer(p).to = p
  BY DEF Pointer, Raw, Cell, CellKind
<1>4. \A n \in Nat : /\ RdLength(n) \in Cell /\ RdLength(n).kind = "rdlength"
                     /\ RdLength(n).value = n
  BY DEF RdLength, Raw, Cell, CellKind
<1>5. \A n \in Nat : Fixed(n) \in Cell /\ Fixed(n).kind = "fixed" /\ Fixed(n).bytes = n
  BY DEF Fixed, Raw, Cell, CellKind
<1>6. End \in Cell /\ End.kind = "end"
  BY DEF End, Raw, Cell, CellKind
<1>7. ASSUME NEW l \in Label \ Proper
      PROVE  LabelCell(l) \in Cell
             /\ LabelCell(l).kind = IF LabelBytes[l] = 0 THEN "end" ELSE "bad"
  <2>1. 1 + LabelBytes[l] \in Nat
    BY LabelAssumption
  <2>2. LabelCell(l) = IF LabelBytes[l] = 0 THEN End ELSE Raw("bad", 1 + LabelBytes[l])
    BY DEF LabelCell
  <2>3. Raw("bad", 1 + LabelBytes[l]) \in Cell /\ Raw("bad", 1 + LabelBytes[l]).kind = "bad"
    BY <1>1, <2>1 DEF Raw, CellKind
  <2> QED  BY <1>6, <2>2, <2>3
<1> QED  BY <1>1, <1>2, <1>3, <1>4, <1>5, <1>6, <1>7

\* A label that can be read back takes its length and one byte.
LEMMA ProperCell ==
    ASSUME NEW l \in Proper
    PROVE  LabelCell(l).bytes = 1 + LabelBytes[l]
<1> DEFINE n == 1 + LabelBytes[l]
<1>1. LabelCell(l) = [Raw("label", n) EXCEPT !.label = l]
  <2>1. LabelBytes[l] # 0
    BY LabelAssumption DEF Proper
  <2> QED  BY <2>1 DEF LabelCell
<1> HIDE DEF n
<1>2. [Raw("label", n) EXCEPT !.label = l]
         = [kind |-> "label", label |-> l, to |-> 0, value |-> 0, bytes |-> n]
  BY DEF Raw
<1>3. LabelCell(l).bytes = n
  BY <1>1, <1>2
<1> QED  BY <1>3 DEF n

\* Labels that can be read back are labels.
LEMMA ProperIsLabel == Proper \subseteq Label /\ Seq(Proper) \subseteq Seq(Label)
<1>1. Proper \subseteq Label
  BY DEF Proper
<1> QED  BY <1>1

\* Beyond the cells there is nothing that is part of a name.
LEMMA CellAtFacts ==
    ASSUME NEW s \in Seq(Cell), NEW p
    PROVE  /\ CellAt(s, p) \in Cell
           /\ p \in 1..Len(s) => CellAt(s, p) = s[p]
           /\ CellAt(s, p).kind \in {"label", "pointer"} => p \in 1..Len(s)
<1>1. DOMAIN s = 1..Len(s) /\ \A i \in 1..Len(s) : s[i] \in Cell
  BY CellsParts
<1>2. Raw("bad", 0) \in Cell /\ Raw("bad", 0).kind = "bad"
  BY CellTypes DEF Raw, CellKind
<1>3. CellAt(s, p) = IF p \in 1..Len(s) THEN s[p] ELSE Raw("bad", 0)
  BY <1>1 DEF CellAt
<1> QED  BY <1>1, <1>2, <1>3

-----------------------------------------------------------------------------
(* Names in a buffer end: a pointer leads back, over the end of some name. *)

Back(b) ==
    \A p \in 1..Len(b) :
        /\ b[p].kind = "label" => b[p].label \in Proper
        /\ b[p].kind = "pointer" =>
             b[p].to \in 1..(p - 1) /\ \E e \in b[p].to..(p - 1) : b[e].kind # "label"

\* A buffer in which the last name, too, is complete.
Sealed(b) == Len(b) > 0 /\ b[Len(b)].kind # "label"

Buffer == {b \in Seq(Cell) : Back(b) /\ Sealed(b)}

\* Where the labels from p on end: the first cell that is none.
LEMMA RunEnds ==
    ASSUME NEW b \in Seq(Cell), NEW p \in 0..(Len(b) + 1)
    PROVE  \E e \in p..(Len(b) + 1) :
             /\ CellAt(b, e).kind # "label"
             /\ \A i \in p..(e - 1) : CellAt(b, i).kind = "label"
<1> DEFINE N == Len(b)
           T == {e \in p..(N + 1) : CellAt(b, e).kind # "label"}
<1>1. N \in Nat
  BY CellsParts
<1>2. N + 1 \in T
  <2>1. N + 1 \notin 1..N
    BY <1>1
  <2>2. CellAt(b, N + 1).kind # "label"
    BY <2>1, CellAtFacts
  <2>3. N + 1 \in p..(N + 1)
    BY <1>1
  <2> QED  BY <2>2, <2>3
<1>3. T \subseteq Nat
  BY <1>1
<1>4. PICK e \in T : \A y \in T : e <= y
  <2> HIDE DEF T
  <2> QED  BY <1>2, <1>3, LeastElement
<1>5. \A i \in p..(e - 1) : i \notin T
  BY <1>1, <1>3, <1>4
<1>6. \A i \in p..(e - 1) : i \in p..(N + 1)
  BY <1>1, <1>4
<1> QED  BY <1>4, <1>5, <1>6

\* How far a reader of a name has to go: every step brings it nearer to the end.
LEMMA NamesEnd ==
    ASSUME NEW b \in Seq(Cell), Back(b)
    PROVE  \E rank \in [0..(Len(b) + 1) -> Nat] : \A p \in 1..Len(b) :
             /\ b[p].kind = "label" => rank[p + 1] < rank[p]
             /\ b[p].kind = "pointer" => b[p].to \in 0..Len(b) + 1 /\ rank[b[p].to] < rank[p]
<1> DEFINE N == Len(b)
           M == N + 2
           Ends(p, e) == /\ CellAt(b, e).kind # "label"
                         /\ \A i \in p..(e - 1) : CellAt(b, i).kind = "label"
           term == [p \in 0..(N + 1) |-> CHOOSE e \in p..(N + 1) : Ends(p, e)]
           rank == [p \in 0..(N + 1) |-> term[p] * M + (term[p] - p)]
<1>1. N \in Nat /\ \A p \in 1..N : b[p] \in Cell /\ CellAt(b, p) = b[p]
  BY CellsParts, CellAtFacts
<1>2. \A p \in 0..(N + 1) : term[p] \in p..(N + 1) /\ Ends(p, term[p])
  <2> TAKE p \in 0..(N + 1)
  <2>1. \E e \in p..(N + 1) : Ends(p, e)
    BY RunEnds
  <2> HIDE DEF Ends
  <2> QED  BY <2>1
<1>3. \A p \in 0..(N + 1) : \A e \in p..(N + 1) : Ends(p, e) => term[p] = e
  <2> TAKE p \in 0..(N + 1)
  <2> TAKE e \in p..(N + 1)
  <2> HAVE Ends(p, e)
  <2>1. term[p] \in p..(N + 1) /\ Ends(p, term[p])
    BY <1>2
  <2> HIDE DEF term
  <2>2. ~(term[p] < e)
    BY <1>1, <2>1
  <2>3. ~(e < term[p])
    BY <1>1, <2>1
  <2> QED  BY <1>1, <2>1, <2>2, <2>3
<1> HIDE DEF term
<1>4. \A p \in 0..(N + 1) : term[p] \in Nat /\ p <= term[p] /\ term[p] <= N + 1
  BY <1>1, <1>2
<1>5. \A x, y \in Nat : x < y => x * M + M <= y * M
  <2> TAKE x, y \in Nat
  <2> HAVE x < y
  <2>1. y - x \in Nat /\ y - x >= 1 /\ M \in Nat
    BY <1>1
  <2>2. (y - x) * M >= M
    BY <2>1
  <2>3. y * M = x * M + (y - x) * M
    BY <2>1
  <2> QED  BY <2>1, <2>2, <2>3
<1>6. rank \in [0..(N + 1) -> Nat]
  <2> SUFFICES ASSUME NEW p \in 0..(N + 1) PROVE term[p] * M + (term[p] - p) \in Nat
    OBVIOUS
  <2>1. term[p] \in Nat /\ term[p] - p \in Nat /\ M \in Nat
    BY <1>1, <1>4
  <2> QED  BY <2>1
<1>7. ASSUME NEW p \in 1..N, b[p].kind = "label" PROVE rank[p + 1] < rank[p]
  <2>1. p \in 0..(N + 1) /\ p + 1 \in 0..(N + 1)
    BY <1>1
  <2>2. term[p] # p
    BY <1>1, <1>2, <1>7, <2>1
  <2>3. Ends(p + 1, term[p]) /\ term[p] \in (p + 1)..(N + 1)
    BY <1>1, <1>2, <1>4, <2>1, <2>2
  <2>4. term[p + 1] = term[p]
    BY <1>3, <2>1, <2>3
  <2>5. term[p] * M \in Nat /\ term[p] \in Nat
    BY <1>1, <1>4, <2>1
  <2> QED  BY <2>1, <2>4, <2>5
<1>8. ASSUME NEW p \in 1..N, b[p].kind = "pointer"
      PROVE  b[p].to \in 0..(N + 1) /\ rank[b[p].to] < rank[p]
  <2> DEFINE q == b[p].to
  <2>1. q \in 1..(p - 1) /\ \E e \in q..(p - 1) : b[e].kind # "label"
    BY <1>8 DEF Back
  <2>2. p \in 0..(N + 1) /\ q \in 0..(N + 1) /\ q < p /\ q \in Nat
    BY <1>1, <2>1
  <2> HIDE DEF q
  <2>3. term[p] = p
    <3>1. Ends(p, p) /\ p \in p..(N + 1)
      BY <1>1, <1>8, <2>2
    <3> QED  BY <1>3, <2>2, <3>1
  <2>4. term[q] < p
    <3>1. PICK e \in q..(p - 1) : b[e].kind # "label"
      BY <2>1
    <3>2. e \in 1..N /\ CellAt(b, e).kind # "label"
      BY <1>1, <2>1, <3>1
    <3>3. term[q] \in Nat /\ q <= term[q] /\ Ends(q, term[q])
      BY <1>2, <1>4, <2>2
    <3>4. ~(e < term[q])
      BY <1>1, <2>2, <3>1, <3>2, <3>3
    <3>5. e \in Nat /\ e < p /\ p \in Nat
      BY <1>1, <2>2, <3>1
    <3> HIDE DEF Ends
    <3> QED  BY <3>3, <3>4, <3>5
  <2>5. term[q] * M + M <= p * M
    <3>1. term[q] \in Nat /\ p \in Nat
      BY <1>1, <1>4, <2>2
    <3> HIDE DEF M
    <3> QED  BY <1>5, <2>4, <3>1
  <2>6. term[q] - q < M /\ term[q] - q \in Nat /\ term[q] \in Nat
    BY <1>1, <1>4, <2>2
  <2>7. term[q] * M \in Nat /\ p * M \in Nat /\ M \in Nat
    BY <1>1, <2>2, <2>6
  <2>8. rank[q] = term[q] * M + (term[q] - q) /\ rank[p] = p * M + (p - p)
    BY <2>2, <2>3
  <2>9. rank[q] < rank[p]
    <3> DEFINE x == term[q] * M
               y == p * M
               z == term[q] - q
    <3>1. rank[q] = x + z /\ rank[p] = y /\ x + M <= y /\ z < M
      BY <2>2, <2>5, <2>6, <2>7, <2>8
    <3>2. x \in Nat /\ y \in Nat /\ z \in Nat /\ M \in Nat
      BY <2>6, <2>7
    <3> HIDE DEF rank, M, x, y, z
    <3> QED  BY <3>1, <3>2
  <2> QED  BY <2>2, <2>9 DEF q
<1> QED  BY <1>6, <1>7, <1>8

\* Induction along the names: what holds at p if it holds where the reader of the
\* name at p goes next, holds everywhere.
LEMMA NameInduction ==
    ASSUME NEW b \in Seq(Cell), Back(b), NEW T,
           \A p \in 0..(Len(b) + 1) :
               /\ CellAt(b, p).kind = "label" => p + 1 \in T
               /\ CellAt(b, p).kind = "pointer" => CellAt(b, p).to \in T
               => p \in T
    PROVE  0..(Len(b) + 1) \subseteq T
<1> DEFINE N == Len(b)
<1>1. N \in Nat /\ \A p \in 1..N : b[p] \in Cell /\ CellAt(b, p) = b[p]
  BY CellsParts, CellAtFacts
<1>2. PICK rank \in [0..(N + 1) -> Nat] : \A p \in 1..N :
        /\ b[p].kind = "label" => rank[p + 1] < rank[p]
        /\ b[p].kind = "pointer" => b[p].to \in 0..(N + 1) /\ rank[b[p].to] < rank[p]
  BY NamesEnd
<1>3. \A p \in 0..(N + 1) :
        /\ CellAt(b, p).kind = "label" => p + 1 \in 0..(N + 1) /\ rank[p + 1] < rank[p]
        /\ CellAt(b, p).kind = "pointer" =>
             CellAt(b, p).to \in 0..(N + 1) /\ rank[CellAt(b, p).to] < rank[p]
  <2> TAKE p \in 0..(N + 1)
  <2>1. CellAt(b, p).kind \in {"label", "pointer"} => p \in 1..N /\ CellAt(b, p) = b[p]
    BY CellAtFacts
  <2> HIDE DEF N
  <2>2. p \in 1..N => p + 1 \in 0..(N + 1)
    BY <1>1
  <2> QED  BY <1>2, <2>1, <2>2
<1> DEFINE U == {k \in Nat : \A p \in 0..(N + 1) : rank[p] <= k => p \in T}
<1> HIDE DEF N
<1>4. \A p \in 0..(N + 1) : rank[p] \in Nat
  BY <1>2
<1>5. ASSUME NEW k \in Nat, NEW p \in 0..(N + 1), rank[p] <= k,
             \A q \in 0..(N + 1) : rank[q] < k => q \in T
      PROVE  p \in T
  <2>1. CellAt(b, p).kind = "label" => p + 1 \in T
    BY <1>3, <1>4, <1>5
  <2>2. CellAt(b, p).kind = "pointer" => CellAt(b, p).to \in T
    BY <1>3, <1>4, <1>5
  <2> QED  BY <2>1, <2>2 DEF N
<1>6. 0 \in U
  BY <1>4, <1>5
<1>7. ASSUME NEW k \in Nat, k \in U PROVE k + 1 \in U
  <2>1. \A q \in 0..(N + 1) : rank[q] < k + 1 => q \in T
    BY <1>4, <1>7
  <2>2. \A p \in 0..(N + 1) : rank[p] <= k + 1 => p \in T
    BY <1>5, <2>1
  <2> QED  BY <2>2
<1>8. Nat \subseteq U
  <2> HIDE DEF U
  <2> QED  BY <1>6, <1>7, SetInduction
<1> QED  BY <1>4, <1>8 DEF N

\* What a reader of names computes: `last' where a name ends, `add' before the rest
\* at a label.
Reads(f, b, T, last, add) ==
    /\ f \in [0..(Len(b) + 1) -> T]
    /\ \A p \in 0..(Len(b) + 1) :
         /\ CellAt(b, p).kind = "label" => f[p] = add[<<p, f[p + 1]>>]
         /\ CellAt(b, p).kind = "pointer" => f[p] = f[CellAt(b, p).to]
         /\ CellAt(b, p).kind \notin {"label", "pointer"} => f[p] = last[p]

IsReader(b, T, last, add) ==
    /\ last \in [0..(Len(b) + 1) -> T]
    /\ add \in [(0..(Len(b) + 1)) \X T -> T]

\* There is such a reader.
LEMMA ReaderExists ==
    ASSUME NEW b \in Seq(Cell), Back(b), NEW T, NEW last, NEW add, IsReader(b, T, last, add)
    PROVE  \E f : Reads(f, b, T, last, add)
<1> DEFINE N == Len(b)
           D == 0..(N + 1)
           S == {p \in D : CellAt(b, p).kind \notin {"label", "pointer"}}
           prev == [p \in D |-> IF CellAt(b, p).kind = "label" THEN p + 1 ELSE CellAt(b, p).to]
           first == [p \in S |-> last[p]]
           next == [x \in (D \ S) \X T |->
                      IF CellAt(b, x[1]).kind = "label" THEN add[<<x[1], x[2]>>] ELSE x[2]]
<1>1. N \in Nat /\ \A p \in 1..N : b[p] \in Cell /\ CellAt(b, p) = b[p]
  BY CellsParts, CellAtFacts
<1>2. PICK rank \in [D -> Nat] : \A p \in 1..N :
        /\ b[p].kind = "label" => rank[p + 1] < rank[p]
        /\ b[p].kind = "pointer" => b[p].to \in D /\ rank[b[p].to] < rank[p]
  BY NamesEnd
<1> DEFINE r == [dom |-> D, start |-> S, type |-> T, rank |-> rank, prev |-> prev,
                 first |-> first, next |-> next]
<1>3. \A p \in D \ S : prev[p] \in D /\ rank[prev[p]] < rank[p]
  <2> SUFFICES ASSUME NEW p \in D, CellAt(b, p).kind \in {"label", "pointer"}
               PROVE  prev[p] \in D /\ rank[prev[p]] < rank[p]
    OBVIOUS
  <2>1. p \in 1..N /\ CellAt(b, p) = b[p]
    BY CellAtFacts
  <2> HIDE DEF N
  <2>2. p + 1 \in D
    BY <1>1, <2>1
  <2> QED  BY <1>2, <2>1, <2>2
<1>4. first \in [S -> T] /\ next \in [(D \ S) \X T -> T] /\ T # {}
  <2>1. last \in [D -> T] /\ add \in [D \X T -> T]
    BY DEF IsReader
  <2>2. 0 \in D
    BY <1>1
  <2> HIDE DEF D
  <2> QED  BY <2>1, <2>2
<1>5. IsRecursion(r)
  <2>1. S \subseteq D
    OBVIOUS
  <2> HIDE DEF D, S, prev, first, next
  <2> QED  BY <1>2, <1>3, <1>4, <2>1 DEF IsRecursion
<1>6. PICK f \in [D -> T] : \A p \in D : Obeys(f, p, r)
  <2>1. r.dom = D /\ r.type = T
    OBVIOUS
  <2> HIDE DEF r, D
  <2> QED  BY <1>5, <2>1, RecursionExists
<1>7. \A p \in D : f[p] = IF p \in S THEN first[p] ELSE next[<<p, f[prev[p]]>>]
  <2> HIDE DEF D, S, first, next, prev
  <2> QED  BY <1>6 DEF Obeys
<1>8. ASSUME NEW p \in D
      PROVE  /\ CellAt(b, p).kind = "label" => f[p] = add[<<p, f[p + 1]>>]
             /\ CellAt(b, p).kind = "pointer" => f[p] = f[CellAt(b, p).to]
             /\ CellAt(b, p).kind \notin {"label", "pointer"} => f[p] = last[p]
  <2>1. p \notin S => f[prev[p]] \in T /\ <<p, f[prev[p]]>> \in (D \ S) \X T
    <3> HIDE DEF D, S, prev
    <3> QED  BY <1>3
  <2>2. p \in S => first[p] = last[p]
    OBVIOUS
  <2>3. p \notin S => next[<<p, f[prev[p]]>>] =
                        IF CellAt(b, p).kind = "label" THEN add[<<p, f[prev[p]]>>] ELSE f[prev[p]]
    <3> HIDE DEF D, S, prev
    <3> QED  BY <2>1
  <2>4. p \in S <=> CellAt(b, p).kind \notin {"label", "pointer"}
    <3> HIDE DEF D
    <3> QED  OBVIOUS
  <2>5. prev[p] = IF CellAt(b, p).kind = "label" THEN p + 1 ELSE CellAt(b, p).to
    <3> HIDE DEF D
    <3> QED  OBVIOUS
  <2> HIDE DEF D, S, prev, first, next
  <2> QED  BY <1>7, <2>2, <2>3, <2>4, <2>5
<1>9. Reads(f, b, T, last, add)
  BY <1>6, <1>8 DEF Reads
<1> QED  BY <1>9

\* Path, one cell at a time.
LEMMA PathStep ==
    ASSUME NEW b \in Seq(Cell), Back(b), NEW p \in 0..(Len(b) + 1)
    PROVE  /\ Path(b, p) \in Seq(Nat)
           /\ CellAt(b, p).kind = "label" => Path(b, p) = <<p>> \o Path(b, p + 1)
           /\ CellAt(b, p).kind = "pointer" => Path(b, p) = Path(b, CellAt(b, p).to)
           /\ CellAt(b, p).kind = "end" => Path(b, p) = << >>
           /\ CellAt(b, p).kind \notin {"label", "pointer", "end"} => Path(b, p) = <<0>>
<1> DEFINE N == Len(b)
           D == 0..(N + 1)
           Def(f) == [q \in D |->
                        CASE CellAt(b, q).kind = "label"   -> <<q>> \o f[q + 1]
                          [] CellAt(b, q).kind = "pointer" -> f[CellAt(b, q).to]
                          [] OTHER -> IF CellAt(b, q).kind = "end" THEN << >> ELSE <<0>>]
           path == CHOOSE f : f = Def(f)
           T == Seq(Nat)
           last == [q \in D |-> IF CellAt(b, q).kind = "end" THEN << >> ELSE <<0>>]
           add == [x \in D \X T |-> <<x[1]>> \o x[2]]
<1>1. N \in Nat /\ \A q \in 1..N : CellAt(b, q) = b[q]
  BY CellsParts, CellAtFacts
<1>2. \E f : f = Def(f)
  <2>1. IsReader(b, T, last, add)
    <3>1. last \in [D -> T]
      <4>1. << >> \in T /\ <<0>> \in T
        OBVIOUS
      <4> HIDE DEF D, T
      <4> QED  BY <4>1
    <3>2. \A q \in D : q \in Nat
      BY <1>1
    <3>3. \A q \in D, s \in T : <<q>> \o s \in T
      BY <3>2
    <3>4. add \in [D \X T -> T]
      <4> HIDE DEF D, T
      <4> QED  BY <3>3
    <3> HIDE DEF last, add, T
    <3> QED  BY <3>1, <3>4 DEF IsReader
  <2>2. PICK f : Reads(f, b, T, last, add)
    <3> HIDE DEF last, add, T, D
    <3> QED  BY <2>1, ReaderExists
  <2>3. f \in [D -> T]
    BY <2>2 DEF Reads
  <2>4. ASSUME NEW q \in D, CellAt(b, q).kind = "label" PROVE f[q] = <<q>> \o f[q + 1]
    <3>1. q \in 1..N
      BY <2>4, CellAtFacts
    <3>2. q + 1 \in D /\ f[q + 1] \in T
      BY <1>1, <2>3, <3>1
    <3>3. f[q] = add[<<q, f[q + 1]>>]
      <4> HIDE DEF add, T, last
      <4> QED  BY <2>2, <2>4 DEF Reads
    <3> HIDE DEF D, T
    <3> QED  BY <3>2, <3>3
  <2>5. \A q \in D : CellAt(b, q).kind = "pointer" => f[q] = f[CellAt(b, q).to]
    <3> HIDE DEF add, T, last
    <3> QED  BY <2>2 DEF Reads
  <2>6. \A q \in D : CellAt(b, q).kind \notin {"label", "pointer"} =>
          f[q] = IF CellAt(b, q).kind = "end" THEN << >> ELSE <<0>>
    <3>1. \A q \in D : CellAt(b, q).kind \notin {"label", "pointer"} => f[q] = last[q]
      <4> HIDE DEF add, T, last
      <4> QED  BY <2>2 DEF Reads
    <3> HIDE DEF D
    <3> QED  BY <3>1
  <2>7. f = Def(f)
    <3> HIDE DEF D, T
    <3> QED  BY <2>3, <2>4, <2>5, <2>6
  <2> HIDE DEF Def
  <2> QED  BY <2>7
<1>3. path = Def(path)
  <2> HIDE DEF Def
  <2> QED  BY <1>2
<1>4. \A q : Path(b, q) = path[q]
  BY DEF Path
<1> HIDE DEF path
<1>5. \A q \in D : path[q] = CASE CellAt(b, q).kind = "label"   -> <<q>> \o path[q + 1]
                               [] CellAt(b, q).kind = "pointer" -> path[CellAt(b, q).to]
                               [] OTHER -> IF CellAt(b, q).kind = "end" THEN << >> ELSE <<0>>
  <2> HIDE DEF D
  <2> QED  BY <1>3
<1>6. \A q \in D :
        /\ CellAt(b, q).kind = "label" => path[q] = <<q>> \o path[q + 1]
        /\ CellAt(b, q).kind = "pointer" => path[q] = path[CellAt(b, q).to]
        /\ CellAt(b, q).kind = "end" => path[q] = << >>
        /\ CellAt(b, q).kind \notin {"label", "pointer", "end"} => path[q] = <<0>>
  <2> HIDE DEF D
  <2> QED  BY <1>5
<1>7. D \subseteq {q \in D : path[q] \in Seq(Nat)}
  <2> DEFINE U == {q \in D : path[q] \in Seq(Nat)}
  <2>1. ASSUME NEW q \in D, CellAt(b, q).kind = "label" => q + 1 \in U,
               CellAt(b, q).kind = "pointer" => CellAt(b, q).to \in U
        PROVE  q \in U
    <3>1. CASE CellAt(b, q).kind = "label"
      <4>1. path[q + 1] \in Seq(Nat) /\ q \in Nat
        BY <1>1, <2>1, <3>1
      <4>2. <<q>> \o path[q + 1] \in Seq(Nat)
        BY <4>1
      <4> HIDE DEF D
      <4> QED  BY <1>6, <3>1, <4>2
    <3>2. CASE CellAt(b, q).kind = "pointer"
      <4> HIDE DEF D
      <4> QED  BY <1>6, <2>1, <3>2
    <3>3. CASE CellAt(b, q).kind = "end"
      <4>1. << >> \in Seq(Nat)
        OBVIOUS
      <4> HIDE DEF D
      <4> QED  BY <1>6, <3>3, <4>1
    <3>4. CASE CellAt(b, q).kind \notin {"label", "pointer", "end"}
      <4>1. <<0>> \in Seq(Nat)
        OBVIOUS
      <4> HIDE DEF D
      <4> QED  BY <1>6, <3>4, <4>1
    <3> QED  BY <3>1, <3>2, <3>3, <3>4
  <2>2. D \subseteq U
    <3> HIDE DEF U
    <3> QED  BY <2>1, NameInduction
  <2> QED  BY <2>2
<1>8. p \in D
  OBVIOUS
<1> HIDE DEF D
<1> QED  BY <1>4, <1>6, <1>7, <1>8

\* NameAt, one cell at a time.
LEMMA NameStep ==
    ASSUME NEW b \in Seq(Cell), Back(b), NEW p \in 0..(Len(b) + 1)
    PROVE  /\ NameAt(b, p) \in Seq(Proper \cup {NoLabel})
           /\ CellAt(b, p).kind = "label" => NameAt(b, p) = <<CellAt(b, p).label>> \o NameAt(b, p + 1)
           /\ CellAt(b, p).kind = "pointer" => NameAt(b, p) = NameAt(b, CellAt(b, p).to)
           /\ CellAt(b, p).kind = "end" => NameAt(b, p) = << >>
           /\ CellAt(b, p).kind \notin {"label", "pointer", "end"} => NameAt(b, p) = <<NoLabel>>
<1> DEFINE N == Len(b)
           D == 0..(N + 1)
           L == Proper \cup {NoLabel}
           Def(f) == [q \in D |->
                        CASE CellAt(b, q).kind = "label" -> <<CellAt(b, q).label>> \o f[q + 1]
                          [] CellAt(b, q).kind = "pointer" /\ CellAt(b, q).to < q ->
                               f[CellAt(b, q).to]
                          [] OTHER -> IF CellAt(b, q).kind = "end" THEN << >> ELSE <<NoLabel>>]
           read == CHOOSE f : f = Def(f)
           T == Seq(L)
           last == [q \in D |-> IF CellAt(b, q).kind = "end" THEN << >> ELSE <<NoLabel>>]
           add == [x \in D \X T |-> <<CellAt(b, x[1]).label>> \o x[2]]
<1>1. /\ N \in Nat
      /\ \A q \in D : CellAt(b, q).label \in L
      /\ \A q \in D : CellAt(b, q).kind = "label" => q + 1 \in D
  <2>1. N \in Nat
    BY CellsParts
  <2>2. \A q : CellAt(b, q) \in Cell
    BY CellAtFacts
  <2>3. \A q : CellAt(b, q).label \in L
    BY <2>2 DEF Cell
  <2>4. \A q : CellAt(b, q).kind = "label" => q \in 1..N
    BY CellAtFacts
  <2>5. \A q \in 1..N : q + 1 \in D
    BY <2>1
  <2> HIDE DEF D, N, L
  <2> QED  BY <2>1, <2>3, <2>4, <2>5
<1>2. \A q \in D : CellAt(b, q).kind = "pointer" => CellAt(b, q).to < q
  <2> TAKE q \in D
  <2> HAVE CellAt(b, q).kind = "pointer"
  <2>1. q \in 1..N /\ CellAt(b, q) = b[q]
    BY CellAtFacts
  <2>2. b[q].to \in 1..(q - 1)
    BY <2>1 DEF Back
  <2> QED  BY <2>1, <2>2
<1>3. \E f : f = Def(f)
  <2>1. IsReader(b, T, last, add)
    <3>1. last \in [D -> T]
      <4>1. << >> \in T /\ <<NoLabel>> \in T
        OBVIOUS
      <4> HIDE DEF D, T
      <4> QED  BY <4>1
    <3>3. \A q \in D, s \in T : <<CellAt(b, q).label>> \o s \in T
      <4> HIDE DEF D, L
      <4>1. \A q \in D : <<CellAt(b, q).label>> \in Seq(L)
        BY <1>1
      <4> QED  BY <4>1, ConcatProperties
    <3>4. add \in [D \X T -> T]
      <4> HIDE DEF D, T
      <4> QED  BY <3>3
    <3> HIDE DEF last, add, T
    <3> QED  BY <3>1, <3>4 DEF IsReader
  <2>2. PICK f : Reads(f, b, T, last, add)
    <3> HIDE DEF last, add, T, D
    <3> QED  BY <2>1, ReaderExists
  <2>3. f \in [D -> T]
    BY <2>2 DEF Reads
  <2>4. ASSUME NEW q \in D, CellAt(b, q).kind = "label"
        PROVE  f[q] = <<CellAt(b, q).label>> \o f[q + 1]
    <3>2. q + 1 \in D /\ f[q + 1] \in T
      <4> HIDE DEF D, T
      <4> QED  BY <1>1, <2>3, <2>4
    <3>3. f[q] = add[<<q, f[q + 1]>>]
      <4> HIDE DEF add, T, last
      <4> QED  BY <2>2, <2>4 DEF Reads
    <3> HIDE DEF D, T
    <3> QED  BY <3>2, <3>3
  <2>5. \A q \in D : CellAt(b, q).kind = "pointer" => f[q] = f[CellAt(b, q).to]
    <3> HIDE DEF add, T, last
    <3> QED  BY <2>2 DEF Reads
  <2>6. \A q \in D : CellAt(b, q).kind \notin {"label", "pointer"} =>
          f[q] = IF CellAt(b, q).kind = "end" THEN << >> ELSE <<NoLabel>>
    <3>1. \A q \in D : CellAt(b, q).kind \notin {"label", "pointer"} => f[q] = last[q]
      <4> HIDE DEF add, T, last
      <4> QED  BY <2>2 DEF Reads
    <3> HIDE DEF D
    <3> QED  BY <3>1
  <2>7. f = Def(f)
    <3> HIDE DEF D, T
    <3> QED  BY <1>2, <2>3, <2>4, <2>5, <2>6
  <2> HIDE DEF Def
  <2> QED  BY <2>7
<1>4. read = Def(read)
  <2> HIDE DEF Def
  <2> QED  BY <1>3
<1>5. \A q : NameAt(b, q) = read[q]
  BY DEF NameAt
<1> HIDE DEF read
<1>6. \A q \in D :
        read[q] = CASE CellAt(b, q).kind = "label" -> <<CellAt(b, q).label>> \o read[q + 1]
                    [] CellAt(b, q).kind = "pointer" /\ CellAt(b, q).to < q ->
                         read[CellAt(b, q).to]
                    [] OTHER -> IF CellAt(b, q).kind = "end" THEN << >> ELSE <<NoLabel>>
  <2> HIDE DEF D
  <2> QED  BY <1>4
<1>7. \A q \in D :
        /\ CellAt(b, q).kind = "label" => read[q] = <<CellAt(b, q).label>> \o read[q + 1]
        /\ CellAt(b, q).kind = "pointer" => read[q] = read[CellAt(b, q).to]
        /\ CellAt(b, q).kind = "end" => read[q] = << >>
        /\ CellAt(b, q).kind \notin {"label", "pointer", "end"} => read[q] = <<NoLabel>>
  <2> HIDE DEF D
  <2> QED  BY <1>2, <1>6
<1>8. D \subseteq {q \in D : read[q] \in Seq(L)}
  <2> DEFINE U == {q \in D : read[q] \in Seq(L)}
  <2>1. ASSUME NEW q \in D, CellAt(b, q).kind = "label" => q + 1 \in U,
               CellAt(b, q).kind = "pointer" => CellAt(b, q).to \in U
        PROVE  q \in U
    <3>1. CASE CellAt(b, q).kind = "label"
      <4>1. read[q + 1] \in Seq(L) /\ <<CellAt(b, q).label>> \in Seq(L)
        <5> HIDE DEF D, L
        <5> QED  BY <1>1, <2>1, <3>1
      <4>2. <<CellAt(b, q).label>> \o read[q + 1] \in Seq(L)
        <5> HIDE DEF L
        <5> QED  BY <4>1, ConcatProperties
      <4> HIDE DEF D, L
      <4> QED  BY <1>7, <3>1, <4>2
    <3>2. CASE CellAt(b, q).kind = "pointer"
      <4> HIDE DEF D, L
      <4> QED  BY <1>7, <2>1, <3>2
    <3>3. CASE CellAt(b, q).kind = "end"
      <4>1. << >> \in Seq(L)
        OBVIOUS
      <4> HIDE DEF D, L
      <4> QED  BY <1>7, <3>3, <4>1
    <3>4. CASE CellAt(b, q).kind \notin {"label", "pointer", "end"}
      <4>1. <<NoLabel>> \in Seq(L)
        OBVIOUS
      <4> HIDE DEF D, L
      <4> QED  BY <1>7, <3>4, <4>1
    <3> QED  BY <3>1, <3>2, <3>3, <3>4
  <2>2. D \subseteq U
    <3> HIDE DEF U
    <3> QED  BY <2>1, NameInduction
  <2> QED  BY <2>2
<1>9. p \in D
  OBVIOUS
<1> HIDE DEF D
<1> QED  BY <1>5, <1>7, <1>8, <1>9

-----------------------------------------------------------------------------
(* The name at a place, and the labels on the path through it.             *)

\* A list with one more element in front.
LEMMA PutInFront ==
    ASSUME NEW S, NEW x \in S, NEW s \in Seq(S)
    PROVE  /\ <<x>> \o s \in Seq(S)
           /\ Len(s) \in Nat /\ Len(<<x>> \o s) = Len(s) + 1
           /\ (<<x>> \o s)[1] = x
           /\ \A i \in 2..(Len(s) + 1) : (<<x>> \o s)[i] = s[i - 1]
<1>1. <<x>> \in Seq(S) /\ Len(<<x>>) = 1 /\ <<x>>[1] = x
  OBVIOUS
<1>2. Len(s) \in Nat
  BY LenProperties
<1> QED  BY <1>1, <1>2, ConcatProperties

\* The elements of such a list tell what the rest is a list of.
LEMMA Uncons ==
    ASSUME NEW S, NEW R, NEW x \in R, NEW s \in Seq(R), <<x>> \o s \in Seq(S)
    PROVE  x \in S /\ s \in Seq(S)
<1> DEFINE t == <<x>> \o s
           N == Len(s)
<1>1. N \in Nat /\ Len(t) = N + 1 /\ t[1] = x /\ \A i \in 2..(N + 1) : t[i] = s[i - 1]
  BY PutInFront
<1>2. \A i \in 1..Len(t) : t[i] \in S
  BY ElementOfSeq
<1> HIDE DEF t
<1>3. x \in S
  BY <1>1, <1>2
<1>4. ASSUME NEW i \in 1..N PROVE s[i] \in S
  <2>1. i + 1 \in 2..(N + 1) /\ i + 1 \in 1..Len(t) /\ (i + 1) - 1 = i
    BY <1>1
  <2> QED  BY <1>1, <1>2, <2>1
<1>5. s = [i \in 1..N |-> s[i]]
  BY SeqDef
<1>6. s \in Seq(S)
  <2> HIDE DEF N
  <2>1. [i \in 1..N |-> s[i]] \in Seq(S)
    BY <1>1, <1>4, IsASeq
  <2> QED  BY <1>5, <2>1
<1> QED  BY <1>3, <1>6

\* path leads through the labels of n, and the rest of n is the name at any of them.
OnPath(b, path, n) ==
    /\ path \in Seq(1..Len(b)) /\ n \in Seq(Proper) /\ Len(path) = Len(n)
    /\ \A i \in 1..Len(n) :
         /\ b[path[i]].kind = "label" /\ b[path[i]].label = n[i]
         /\ NameAt(b, path[i]) \in Seq(Proper)
         /\ Len(NameAt(b, path[i])) = Len(n) + 1 - i
         /\ \A j \in 1..(Len(n) + 1 - i) : NameAt(b, path[i])[j] = n[(i + j) - 1]

\* A label in front of a path.
LEMMA PathGrows ==
    ASSUME NEW b \in Seq(Cell), NEW path, NEW n, OnPath(b, path, n),
           NEW p \in 1..Len(b), NEW l \in Proper, b[p].kind = "label", b[p].label = l,
           NameAt(b, p) = <<l>> \o n
    PROVE  OnPath(b, <<p>> \o path, <<l>> \o n)
<1> DEFINE B == Len(b)
           N == Len(n)
           pp == <<p>> \o path
           nn == <<l>> \o n
<1>0. path \in Seq(1..B) /\ n \in Seq(Proper) /\ Len(path) = N
  BY DEF OnPath
<1>1. /\ pp \in Seq(1..B) /\ Len(pp) = N + 1 /\ pp[1] = p /\ N \in Nat
      /\ \A i \in 2..(N + 1) : pp[i] = path[i - 1]
  <2> HIDE DEF B
  <2>1. p \in 1..B
    BY DEF B
  <2> QED  BY <1>0, <2>1, PutInFront
<1>2. /\ nn \in Seq(Proper) /\ Len(nn) = N + 1 /\ nn[1] = l
      /\ \A i \in 2..(N + 1) : nn[i] = n[i - 1]
  BY <1>0, PutInFront
<1>3. NameAt(b, p) = nn
  OBVIOUS
<1> HIDE DEF B, N, pp, nn
<1>4. ASSUME NEW i \in 1..Len(nn)
      PROVE  /\ b[pp[i]].kind = "label" /\ b[pp[i]].label = nn[i]
             /\ NameAt(b, pp[i]) \in Seq(Proper)
             /\ Len(NameAt(b, pp[i])) = Len(nn) + 1 - i
             /\ \A j \in 1..(Len(nn) + 1 - i) : NameAt(b, pp[i])[j] = nn[(i + j) - 1]
  <2>1. CASE i = 1
    <3>1. \A j \in 1..(Len(nn) + 1 - i) : (i + j) - 1 = j
      BY <1>1, <1>2, <2>1
    <3>2. Len(nn) + 1 - i = Len(nn)
      BY <1>1, <1>2, <2>1
    <3> QED  BY <1>1, <1>2, <1>3, <2>1, <3>1, <3>2
  <2>2. CASE i # 1
    <3> DEFINE k == i - 1
    <3>1. i \in 2..(N + 1) /\ k \in 1..N /\ i = k + 1
      BY <1>1, <1>2, <2>2
    <3>2. pp[i] = path[k] /\ nn[i] = n[k]
      BY <1>1, <1>2, <3>1
    <3>3. /\ b[path[k]].kind = "label" /\ b[path[k]].label = n[k]
          /\ NameAt(b, path[k]) \in Seq(Proper)
          /\ Len(NameAt(b, path[k])) = N + 1 - k
          /\ \A j \in 1..(N + 1 - k) : NameAt(b, path[k])[j] = n[(k + j) - 1]
      BY <3>1 DEF OnPath, N
    <3>4. Len(nn) + 1 - i = N + 1 - k
      BY <1>1, <1>2, <3>1
    <3>5. ASSUME NEW j \in 1..(N + 1 - k) PROVE nn[(i + j) - 1] = n[(k + j) - 1]
      <4>1. (i + j) - 1 \in 2..(N + 1) /\ ((i + j) - 1) - 1 = (k + j) - 1
        BY <1>1, <3>1
      <4> QED  BY <1>2, <4>1
    <3> HIDE DEF k
    <3> QED  BY <3>2, <3>3, <3>4, <3>5
  <2> QED  BY <2>1, <2>2
<1>5. OnPath(b, pp, nn)
  BY <1>1, <1>2, <1>4 DEF OnPath, B
<1> QED  BY <1>5 DEF pp, nn

\* Path leads through the labels of every name that can be read.
LEMMA NameOnPath ==
    ASSUME NEW b \in Seq(Cell), Back(b), NEW p \in 0..(Len(b) + 1), NameAt(b, p) \in Seq(Proper)
    PROVE  OnPath(b, Path(b, p), NameAt(b, p))
<1> DEFINE D == 0..(Len(b) + 1)
           L == Proper \cup {NoLabel}
           T == {q \in D : NameAt(b, q) \in Seq(Proper) => OnPath(b, Path(b, q), NameAt(b, q))}
<1>1. ASSUME NEW q \in D, CellAt(b, q).kind = "label" => q + 1 \in T,
             CellAt(b, q).kind = "pointer" => CellAt(b, q).to \in T
      PROVE  q \in T
  <2> SUFFICES ASSUME NameAt(b, q) \in Seq(Proper)
               PROVE  OnPath(b, Path(b, q), NameAt(b, q))
    <3> HIDE DEF D
    <3> QED  OBVIOUS
  <2>1. CASE CellAt(b, q).kind = "label"
    <3>1. q \in 1..Len(b) /\ CellAt(b, q) = b[q] /\ b[q] \in Cell
      BY <2>1, CellAtFacts
    <3>2. q + 1 \in D
      BY <1>1, <2>1
    <3>3. NameAt(b, q) = <<b[q].label>> \o NameAt(b, q + 1) /\ Path(b, q) = <<q>> \o Path(b, q + 1)
      BY <2>1, <3>1, NameStep, PathStep
    <3>4. NameAt(b, q + 1) \in Seq(L) /\ b[q].label \in L
      <4>1. NameAt(b, q + 1) \in Seq(L)
        BY <3>2, NameStep
      <4>2. b[q].label \in L
        BY <3>1 DEF Cell
      <4> QED  BY <4>1, <4>2
    <3>5. b[q].label \in Proper /\ NameAt(b, q + 1) \in Seq(Proper)
      <4> HIDE DEF L
      <4> QED  BY <3>3, <3>4, Uncons
    <3>6. OnPath(b, Path(b, q + 1), NameAt(b, q + 1))
      BY <1>1, <2>1, <3>5
    <3>7. OnPath(b, <<q>> \o Path(b, q + 1), <<b[q].label>> \o NameAt(b, q + 1))
      BY <2>1, <3>1, <3>3, <3>5, <3>6, PathGrows
    <3> QED  BY <3>3, <3>7
  <2>2. CASE CellAt(b, q).kind = "pointer"
    <3>1. NameAt(b, q) = NameAt(b, CellAt(b, q).to) /\ Path(b, q) = Path(b, CellAt(b, q).to)
      BY <2>2, NameStep, PathStep
    <3> QED  BY <1>1, <2>2, <3>1
  <2>3. CASE CellAt(b, q).kind = "end"
    <3>1. NameAt(b, q) = << >> /\ Path(b, q) = << >>
      BY <2>3, NameStep, PathStep
    <3>2. OnPath(b, << >>, << >>)
      <4>1. << >> \in Seq(1..Len(b)) /\ << >> \in Seq(Proper) /\ Len(<< >>) = 0
        OBVIOUS
      <4> QED  BY <4>1 DEF OnPath
    <3> QED  BY <3>1, <3>2
  <2>4. CASE CellAt(b, q).kind \notin {"label", "pointer", "end"}
    <3>1. NameAt(b, q) = <<NoLabel>>
      BY <2>4, NameStep
    <3>2. Len(<<NoLabel>>) = 1 /\ <<NoLabel>>[1] = NoLabel
      OBVIOUS
    <3>3. NoLabel \in Proper
      BY <3>1, <3>2, ElementOfSeq
    <3> QED  BY <3>3, ProperIsLabel, LabelAssumption
  <2> QED  BY <2>1, <2>2, <2>3, <2>4
<1>2. D \subseteq T
  <2> HIDE DEF T
  <2> QED  BY <1>1, NameInduction
<1> QED  BY <1>2

\* A name that cannot be read leads to 0.
LEMMA UnreadPath ==
    ASSUME NEW b \in Seq(Cell), Back(b), NEW p \in 0..(Len(b) + 1), NameAt(b, p) \notin Seq(Proper)
    PROVE  0 \in Range(Path(b, p))
<1> DEFINE D == 0..(Len(b) + 1)
           T == {q \in D : NameAt(b, q) \notin Seq(Proper) => 0 \in Range(Path(b, q))}
<1>0. \A s \in Seq(Nat) : \A i \in 1..Len(s) : s[i] \in Range(s)
  <2> TAKE s \in Seq(Nat)
  <2>1. DOMAIN s = 1..Len(s)
    BY LenProperties
  <2> QED  BY <2>1 DEF Range
<1>1. ASSUME NEW q \in D, CellAt(b, q).kind = "label" => q + 1 \in T,
             CellAt(b, q).kind = "pointer" => CellAt(b, q).to \in T
      PROVE  q \in T
  <2> SUFFICES ASSUME NameAt(b, q) \notin Seq(Proper)
               PROVE  0 \in Range(Path(b, q))
    <3> HIDE DEF D
    <3> QED  OBVIOUS
  <2>1. CASE CellAt(b, q).kind = "label"
    <3>1. q \in 1..Len(b) /\ CellAt(b, q) = b[q] /\ b[q] \in Cell
      BY <2>1, CellAtFacts
    <3>2. q + 1 \in D /\ q \in Nat
      BY <1>1, <2>1, <3>1
    <3>3. NameAt(b, q) = <<b[q].label>> \o NameAt(b, q + 1) /\ Path(b, q) = <<q>> \o Path(b, q + 1)
      BY <2>1, <3>1, NameStep, PathStep
    <3>4. b[q].label \in Proper
      BY <2>1, <3>1 DEF Back
    <3>5. NameAt(b, q + 1) \notin Seq(Proper)
      BY <3>3, <3>4, PutInFront
    <3>6. 0 \in Range(Path(b, q + 1)) /\ Path(b, q + 1) \in Seq(Nat)
      BY <1>1, <2>1, <3>2, <3>5, PathStep
    <3> DEFINE s == Path(b, q + 1)
    <3>7. 0 \in Range(s) /\ s \in Seq(Nat) /\ Path(b, q) = <<q>> \o s /\ q \in Nat
      BY <3>2, <3>3, <3>6
    <3> HIDE DEF s
    <3>8. PICK i \in 1..Len(s) : s[i] = 0
      <4>1. DOMAIN s = 1..Len(s)
        BY <3>7, LenProperties
      <4> QED  BY <3>7, <4>1 DEF Range
    <3> DEFINE u == <<q>> \o s
    <3>9. u \in Seq(Nat) /\ i + 1 \in 1..Len(u) /\ u[i + 1] = 0
      <4>1. /\ u \in Seq(Nat) /\ Len(s) \in Nat /\ Len(u) = Len(s) + 1
            /\ \A k \in 2..(Len(s) + 1) : u[k] = s[k - 1]
        BY <3>7, PutInFront
      <4> HIDE DEF u
      <4>2. i + 1 \in 2..(Len(s) + 1) /\ (i + 1) - 1 = i /\ i + 1 \in 1..Len(u)
        BY <4>1
      <4> QED  BY <3>8, <4>1, <4>2
    <3> HIDE DEF u
    <3> QED  BY <1>0, <3>7, <3>9 DEF u
  <2>2. CASE CellAt(b, q).kind = "pointer"
    <3>1. NameAt(b, q) = NameAt(b, CellAt(b, q).to) /\ Path(b, q) = Path(b, CellAt(b, q).to)
      BY <2>2, NameStep, PathStep
    <3> QED  BY <1>1, <2>2, <3>1
  <2>3. CASE CellAt(b, q).kind = "end"
    <3>1. NameAt(b, q) = << >>
      BY <2>3, NameStep
    <3> QED  BY <3>1, EmptySeq
  <2>4. CASE CellAt(b, q).kind \notin {"label", "pointer", "end"}
    <3>1. Path(b, q) = <<0>>
      BY <2>4, PathStep
    <3> DEFINE z == <<0>>
    <3>2. z \in Seq(Nat) /\ Len(z) = 1 /\ z[1] = 0 /\ Path(b, q) = z
      BY <3>1
    <3> HIDE DEF z
    <3>3. 1 \in 1..Len(z)
      BY <3>2
    <3> QED  BY <1>0, <3>2, <3>3
  <2> QED  BY <2>1, <2>2, <2>3, <2>4
<1>2. D \subseteq T
  <2> HIDE DEF T
  <2> QED  BY <1>1, NameInduction
<1> QED  BY <1>2

-----------------------------------------------------------------------------
(* Names stay what they are while the buffer grows behind them.            *)

\* c is b, with other lengths perhaps, and more behind it.
Grown(b, c) ==
    /\ b \in Buffer /\ c \in Buffer /\ Len(b) <= Len(c)
    /\ \A i \in 1..Len(b) : c[i].kind = b[i].kind /\ c[i].label = b[i].label /\ c[i].to = b[i].to

\* The parts of a buffer.
LEMMA BufferParts ==
    ASSUME NEW b \in Buffer
    PROVE  /\ b \in Seq(Cell) /\ Back(b) /\ Sealed(b)
           /\ Len(b) \in Nat /\ Len(b) > 0 /\ DOMAIN b = 1..Len(b)
           /\ \A i \in 1..Len(b) : b[i] \in Cell /\ CellAt(b, i) = b[i]
           /\ \A i \in 1..Len(b) : b[i].kind = "label" => i + 1 \in 1..Len(b)
           /\ \A i \in 1..Len(b) : b[i].kind = "pointer" => b[i].to \in 1..Len(b)
<1>1. b \in Seq(Cell) /\ Back(b) /\ Sealed(b)
  BY DEF Buffer
<1>2. /\ Len(b) \in Nat /\ DOMAIN b = 1..Len(b)
      /\ \A i \in 1..Len(b) : b[i] \in Cell /\ CellAt(b, i) = b[i]
  BY <1>1, CellsParts, CellAtFacts
<1>3. Len(b) > 0 /\ b[Len(b)].kind # "label"
  BY <1>1 DEF Sealed
<1>4. ASSUME NEW i \in 1..Len(b), b[i].kind = "label" PROVE i + 1 \in 1..Len(b)
  <2>1. i # Len(b) /\ Len(b) \in Nat
    BY <1>2, <1>3, <1>4
  <2> QED  BY <2>1
<1>5. ASSUME NEW i \in 1..Len(b), b[i].kind = "pointer" PROVE b[i].to \in 1..Len(b)
  <2>1. b[i].to \in 1..(i - 1)
    BY <1>1, <1>5 DEF Back
  <2> QED  BY <1>2, <2>1
<1> QED  BY <1>1, <1>2, <1>3, <1>4, <1>5

\* How a name in a buffer reads.
LEMMA ReadName ==
    ASSUME NEW b \in Buffer, NEW p \in 1..Len(b)
    PROVE  /\ NameAt(b, p) \in Seq(Proper \cup {NoLabel})
           /\ b[p].kind = "label" => NameAt(b, p) = <<b[p].label>> \o NameAt(b, p + 1)
           /\ b[p].kind = "pointer" => NameAt(b, p) = NameAt(b, b[p].to)
           /\ b[p].kind = "end" => NameAt(b, p) = << >>
           /\ b[p].kind \notin {"label", "pointer", "end"} => NameAt(b, p) = <<NoLabel>>
<1>1. b \in Seq(Cell) /\ Back(b) /\ Len(b) \in Nat /\ CellAt(b, p) = b[p]
  BY BufferParts
<1>2. p \in 0..(Len(b) + 1)
  BY <1>1
<1>3. b \in Seq(Cell) /\ Back(b)
  BY <1>1
<1>4. /\ NameAt(b, p) \in Seq(Proper \cup {NoLabel})
      /\ CellAt(b, p).kind = "label" => NameAt(b, p) = <<CellAt(b, p).label>> \o NameAt(b, p + 1)
      /\ CellAt(b, p).kind = "pointer" => NameAt(b, p) = NameAt(b, CellAt(b, p).to)
      /\ CellAt(b, p).kind = "end" => NameAt(b, p) = << >>
      /\ CellAt(b, p).kind \notin {"label", "pointer", "end"} => NameAt(b, p) = <<NoLabel>>
  BY <1>2, <1>3, NameStep
<1> QED  BY <1>1, <1>4

\* A name reads the same in a buffer that has grown.
LEMMA NameKept ==
    ASSUME NEW b, NEW c, Grown(b, c), NEW p \in 1..Len(b)
    PROVE  NameAt(c, p) = NameAt(b, p)
<1> DEFINE D == 0..(Len(b) + 1)
           T == {q \in D : q \in 1..Len(b) => NameAt(c, q) = NameAt(b, q)}
<1>1. /\ b \in Buffer /\ c \in Buffer /\ b \in Seq(Cell) /\ Back(b) /\ c \in Seq(Cell) /\ Back(c)
      /\ Len(b) \in Nat /\ Len(c) \in Nat /\ Len(b) <= Len(c)
  BY BufferParts DEF Grown
<1>2. ASSUME NEW q \in D, CellAt(b, q).kind = "label" => q + 1 \in T,
             CellAt(b, q).kind = "pointer" => CellAt(b, q).to \in T
      PROVE  q \in T
  <2> SUFFICES ASSUME q \in 1..Len(b) PROVE NameAt(c, q) = NameAt(b, q)
    <3> HIDE DEF D
    <3> QED  OBVIOUS
  <2>1. /\ CellAt(b, q) = b[q]
        /\ b[q].kind = "label" => q + 1 \in 1..Len(b)
        /\ b[q].kind = "pointer" => b[q].to \in 1..Len(b)
    BY <1>1, BufferParts
  <2>2. q \in 1..Len(c) /\ CellAt(c, q) = c[q]
    <3>1. q \in 1..Len(c)
      BY <1>1
    <3> QED  BY <1>1, <3>1, BufferParts
  <2>3. c[q].kind = b[q].kind /\ c[q].label = b[q].label /\ c[q].to = b[q].to
    BY DEF Grown
  <2>4. /\ b[q].kind = "label" => NameAt(b, q) = <<b[q].label>> \o NameAt(b, q + 1)
        /\ b[q].kind = "pointer" => NameAt(b, q) = NameAt(b, b[q].to)
        /\ b[q].kind = "end" => NameAt(b, q) = << >>
        /\ b[q].kind \notin {"label", "pointer", "end"} => NameAt(b, q) = <<NoLabel>>
    <3>1. b \in Buffer
      BY <1>1
    <3> QED  BY <3>1, ReadName
  <2>5. /\ c[q].kind = "label" => NameAt(c, q) = <<c[q].label>> \o NameAt(c, q + 1)
        /\ c[q].kind = "pointer" => NameAt(c, q) = NameAt(c, c[q].to)
        /\ c[q].kind = "end" => NameAt(c, q) = << >>
        /\ c[q].kind \notin {"label", "pointer", "end"} => NameAt(c, q) = <<NoLabel>>
    <3>1. c \in Buffer /\ q \in 1..Len(c)
      BY <1>1, <2>2
    <3> QED  BY <3>1, ReadName
  <2>6. b[q].kind = "label" => NameAt(c, q + 1) = NameAt(b, q + 1)
    BY <1>2, <2>1
  <2>7. b[q].kind = "pointer" => NameAt(c, b[q].to) = NameAt(b, b[q].to)
    BY <1>2, <2>1
  <2> QED  BY <2>3, <2>4, <2>5, <2>6, <2>7
<1>3. D \subseteq T
  <2> HIDE DEF T
  <2> QED  BY <1>1, <1>2, NameInduction
<1>4. p \in D
  BY <1>1
<1> QED  BY <1>3, <1>4

\* Growing more is growing, too.
LEMMA GrownMore ==
    ASSUME NEW b, NEW c, NEW d, Grown(b, c), Grown(c, d)
    PROVE  Grown(b, d)
<1>1. b \in Buffer /\ c \in Buffer /\ d \in Buffer
  BY DEF Grown
<1>2. /\ Len(b) \in Nat /\ Len(c) \in Nat /\ Len(d) \in Nat
      /\ Len(b) <= Len(c) /\ Len(c) <= Len(d)
  BY <1>1, BufferParts DEF Grown
<1>3. \A i \in 1..Len(b) : i \in 1..Len(c)
  BY <1>2
<1> QED  BY <1>1, <1>2, <1>3 DEF Grown

\* Two lists, one after the other.
LEMMA JoinParts ==
    ASSUME NEW S, NEW s \in Seq(S), NEW t \in Seq(S)
    PROVE  /\ s \o t \in Seq(S) /\ Len(s \o t) = Len(s) + Len(t)
           /\ Len(s) \in Nat /\ Len(t) \in Nat
           /\ \A i \in 1..Len(s) : (s \o t)[i] = s[i]
           /\ \A i \in 1..Len(t) : (s \o t)[Len(s) + i] = t[i]
<1>1. Len(s) \in Nat /\ Len(t) \in Nat
  BY LenProperties
<1>2. /\ s \o t \in Seq(S) /\ Len(s \o t) = Len(s) + Len(t)
      /\ \A i \in 1..(Len(s) + Len(t)) :
            (s \o t)[i] = IF i <= Len(s) THEN s[i] ELSE t[i - Len(s)]
  BY ConcatProperties
<1>3. \A i \in 1..Len(s) : i \in 1..(Len(s) + Len(t)) /\ i <= Len(s)
  BY <1>1
<1>4. \A i \in 1..Len(t) : /\ Len(s) + i \in 1..(Len(s) + Len(t))
                           /\ ~(Len(s) + i <= Len(s)) /\ (Len(s) + i) - Len(s) = i
  BY <1>1
<1> QED  BY <1>1, <1>2, <1>3, <1>4

\* The rest of a list from one label on, and from the next on.
LEMMA SuffixStep ==
    ASSUME NEW S, NEW s \in Seq(S), NEW r \in Seq(S), NEW k \in 1..Len(s)
    PROVE  /\ SubSeq(s, k, Len(s)) \o r = <<s[k]>> \o (SubSeq(s, k + 1, Len(s)) \o r)
           /\ SubSeq(s, k, Len(s)) \in Seq(S)
           /\ SubSeq(s, k + 1, Len(s)) \in Seq(S)
<1> DEFINE N == Len(s)
           a == SubSeq(s, k, N)
           t == SubSeq(s, k + 1, N)
           lhs == a \o r
           rhs == <<s[k]>> \o (t \o r)
<1>1. N \in Nat /\ \A i \in 1..N : s[i] \in S
  BY LenProperties, ElementOfSeq
<1>2. a \in Seq(S) /\ Len(a) = (N + 1) - k /\ \A i \in 1..((N + 1) - k) : a[i] = s[(k + i) - 1]
  BY <1>1
<1>3. t \in Seq(S) /\ Len(t) = N - k /\ \A i \in 1..(N - k) : t[i] = s[k + i]
  BY <1>1
<1> HIDE DEF a, t
<1>4. /\ t \o r \in Seq(S) /\ Len(t \o r) = (N - k) + Len(r) /\ Len(r) \in Nat
      /\ \A i \in 1..(N - k) : (t \o r)[i] = t[i]
      /\ \A i \in 1..Len(r) : (t \o r)[(N - k) + i] = r[i]
  <2>1. N - k \in Nat
    BY <1>1
  <2>2. /\ \A i \in 1..Len(t) : (t \o r)[i] = t[i]
        /\ \A i \in 1..Len(r) : (t \o r)[Len(t) + i] = r[i]
        /\ t \o r \in Seq(S) /\ Len(t \o r) = Len(t) + Len(r) /\ Len(r) \in Nat
    <3>1. t \in Seq(S)
      BY <1>3
    <3> QED  BY <3>1, JoinParts
  <2> QED  BY <1>3, <2>1, <2>2
<1>5. /\ lhs \in Seq(S) /\ Len(lhs) = ((N + 1) - k) + Len(r)
      /\ \A i \in 1..((N + 1) - k) : lhs[i] = a[i]
      /\ \A i \in 1..Len(r) : lhs[((N + 1) - k) + i] = r[i]
  <2>2. /\ \A i \in 1..Len(a) : lhs[i] = a[i]
        /\ \A i \in 1..Len(r) : lhs[Len(a) + i] = r[i]
        /\ lhs \in Seq(S) /\ Len(lhs) = Len(a) + Len(r)
    <3>1. a \in Seq(S)
      BY <1>2
    <3> QED  BY <3>1, JoinParts
  <2> QED  BY <1>2, <2>2
<1> DEFINE u == t \o r
<1>6. /\ rhs \in Seq(S) /\ Len(rhs) = Len(u) + 1
      /\ rhs[1] = s[k] /\ \A i \in 2..(Len(u) + 1) : rhs[i] = u[i - 1]
  <2>1. u \in Seq(S) /\ s[k] \in S /\ rhs = <<s[k]>> \o u
    BY <1>1, <1>4
  <2> HIDE DEF u, rhs
  <2> QED  BY <2>1, PutInFront
<1> HIDE DEF lhs, rhs, u, N
<1>7. k \in 1..N /\ N \in Nat /\ Len(r) \in Nat
  BY <1>1, <1>4 DEF N
<1>8. Len(lhs) = Len(rhs) /\ Len(u) = (N - k) + Len(r)
  BY <1>4, <1>5, <1>6, <1>7 DEF u
<1>9. ASSUME NEW i \in 1..Len(lhs) PROVE lhs[i] = rhs[i]
  <2>1. CASE i = 1
    <3>1. 1 \in 1..((N + 1) - k) /\ (k + 1) - 1 = k
      BY <1>7
    <3>2. lhs[1] = a[1] /\ a[1] = s[k]
      BY <1>2, <1>5, <3>1
    <3> QED  BY <1>6, <2>1, <3>2
  <2>2. CASE i \in 2..((N + 1) - k)
    <3>1. i \in 1..((N + 1) - k) /\ i - 1 \in 1..(N - k) /\ (k + i) - 1 = k + (i - 1)
      BY <1>7, <2>2
    <3>2. i \in 2..(Len(u) + 1)
      BY <1>7, <1>8, <2>2
    <3>3. lhs[i] = s[k + (i - 1)]
      BY <1>2, <1>5, <3>1
    <3>4. rhs[i] = u[i - 1] /\ u[i - 1] = t[i - 1] /\ t[i - 1] = s[k + (i - 1)]
      BY <1>3, <1>4, <1>6, <3>1, <3>2 DEF u
    <3> QED  BY <3>3, <3>4
  <2>3. CASE i > (N + 1) - k
    <3> DEFINE j == i - ((N + 1) - k)
    <3>0. i \in Nat /\ i <= ((N + 1) - k) + Len(r)
      BY <1>5, <1>7
    <3>1. j \in 1..Len(r) /\ i = ((N + 1) - k) + j /\ i - 1 = (N - k) + j
      BY <1>7, <2>3, <3>0
    <3>2. i \in 2..(Len(u) + 1)
      BY <1>5, <1>7, <1>8, <2>3
    <3> HIDE DEF j
    <3>3. lhs[i] = r[j]
      BY <1>5, <3>1
    <3>4. rhs[i] = u[i - 1] /\ u[i - 1] = r[j]
      BY <1>4, <1>6, <3>1, <3>2 DEF u
    <3> QED  BY <3>3, <3>4
  <2> QED  BY <1>5, <1>7, <2>1, <2>2, <2>3
<1>10. lhs = rhs
  BY <1>5, <1>6, <1>8, <1>9, SeqEqual
<1> QED  BY <1>2, <1>3, <1>10 DEF lhs, rhs, a, t, u, N

-----------------------------------------------------------------------------
(* Writing a name.                                                         *)

\* The labels ms, of whatever length, and then `end', which is none, may follow b.
MayFollow(b, ms, end) ==
    /\ b \in Buffer
    /\ ms \in Seq(Cell)
    /\ \A i \in 1..Len(ms) :
         ms[i].kind # "pointer" /\ (ms[i].kind = "label" => ms[i].label \in Proper)
    /\ end \in Cell /\ end.kind # "label"
    /\ end.kind = "pointer" => end.to \in 1..Len(b)

\* c is b with them.
Extended(b, ms, end, c) ==
    /\ Grown(b, c) /\ Len(c) = Len(b) + Len(ms) + 1 /\ Len(ms) \in Nat
    /\ \A i \in 1..Len(b) : c[i] = b[i]
    /\ \A i \in 1..Len(ms) : c[Len(b) + i] = ms[i]
    /\ c[Len(c)] = end

\* A buffer with some labels and something that is none behind it is a buffer.
LEMMA BufferExtended ==
    ASSUME NEW b, NEW ms, NEW end, MayFollow(b, ms, end)
    PROVE  Extended(b, ms, end, Append(b \o ms, end))
<1> DEFINE c == Append(b \o ms, end)
<1>0. /\ b \in Buffer /\ ms \in Seq(Cell)
      /\ \A i \in 1..Len(ms) :
           ms[i].kind # "pointer" /\ (ms[i].kind = "label" => ms[i].label \in Proper)
      /\ end \in Cell /\ end.kind # "label"
      /\ end.kind = "pointer" => end.to \in 1..Len(b)
  BY DEF MayFollow
<1> DEFINE B == Len(b)
           M == Len(ms)
           bm == b \o ms
<1>1. b \in Seq(Cell) /\ Back(b) /\ Sealed(b) /\ B \in Nat /\ B > 0
  BY <1>0, BufferParts
<1>2. /\ bm \in Seq(Cell) /\ Len(bm) = B + M /\ M \in Nat
      /\ \A i \in 1..B : bm[i] = b[i]
      /\ \A i \in 1..M : bm[B + i] = ms[i]
  <2>1. b \in Seq(Cell) /\ ms \in Seq(Cell)
    BY <1>0, <1>1
  <2> QED  BY <2>1, JoinParts
<1> HIDE DEF bm
<1>3. /\ c \in Seq(Cell) /\ Len(c) = (B + M) + 1
      /\ \A i \in 1..(B + M) : c[i] = bm[i]
      /\ c[(B + M) + 1] = end
  <2>1. bm \in Seq(Cell) /\ c = Append(bm, end) /\ Len(bm) = B + M /\ end \in Cell
    BY <1>0, <1>2 DEF bm
  <2> HIDE DEF B, M, c
  <2> QED  BY <2>1, AppendProperties
<1> HIDE DEF B, M, c
<1>4. \A i \in 1..B : c[i] = b[i]
  BY <1>1, <1>2, <1>3
<1>5. \A i \in 1..M : c[B + i] = ms[i]
  BY <1>1, <1>2, <1>3
<1>6. \A i \in 1..Len(c) : i \in 1..B \/ (\E j \in 1..M : i = B + j) \/ i = (B + M) + 1
  <2> TAKE i \in 1..Len(c)
  <2>1. i > B /\ i <= B + M => i - B \in 1..M /\ i = B + (i - B)
    BY <1>1, <1>2, <1>3
  <2> QED  BY <1>1, <1>2, <1>3, <2>1
<1>7. b[B].kind # "label" /\ c[B].kind # "label"
  BY <1>1, <1>4 DEF Sealed, B
<1>13. ASSUME NEW p \in 1..Len(c), c[p].kind = "label" PROVE c[p].label \in Proper
  <2>1. CASE p \in 1..B
    BY <1>1, <1>4, <1>13, <2>1 DEF Back, B
  <2>2. CASE \E j \in 1..M : p = B + j
    BY <1>0, <1>5, <1>13, <2>2 DEF M
  <2>3. CASE p = (B + M) + 1
    BY <1>0, <1>3, <1>13, <2>3
  <2> QED  BY <1>6, <2>1, <2>2, <2>3
<1>8. Back(c)
  <2> SUFFICES ASSUME NEW p \in 1..Len(c), c[p].kind = "pointer"
               PROVE  c[p].to \in 1..(p - 1) /\ \E e \in c[p].to..(p - 1) : c[e].kind # "label"
    BY <1>13 DEF Back
  <2>1. CASE p \in 1..B
    <3>1. b[p].to \in 1..(p - 1) /\ \E e \in b[p].to..(p - 1) : b[e].kind # "label"
      BY <1>1, <1>4, <2>1 DEF Back, B
    <3>2. PICK e \in b[p].to..(p - 1) : b[e].kind # "label"
      BY <3>1
    <3>3. e \in 1..B
      BY <1>1, <2>1, <3>1, <3>2
    <3> QED  BY <1>4, <2>1, <3>1, <3>2, <3>3
  <2>2. CASE \E j \in 1..M : p = B + j
    BY <1>0, <1>5, <2>2 DEF M
  <2>3. CASE p = (B + M) + 1
    <3>1. c[p] = end /\ end.to \in 1..B
      BY <1>0, <1>3, <2>3 DEF B
    <3>2. end.to \in 1..(p - 1) /\ B \in end.to..(p - 1)
      BY <1>1, <1>2, <2>3, <3>1
    <3> QED  BY <1>7, <3>1, <3>2
  <2> QED  BY <1>6, <2>1, <2>2, <2>3
<1>9. Sealed(c)
  BY <1>0, <1>1, <1>2, <1>3 DEF Sealed
<1>10. Grown(b, c)
  <2>1. c \in Buffer
    BY <1>3, <1>8, <1>9 DEF Buffer
  <2>2. B <= Len(c)
    BY <1>1, <1>2, <1>3
  <2> QED  BY <1>0, <1>4, <2>1, <2>2 DEF Grown, B
<1>11. Len(c) = B + M + 1 /\ c[Len(c)] = end
  BY <1>1, <1>2, <1>3
<1>12. Extended(b, ms, end, c)
  BY <1>2, <1>4, <1>5, <1>10, <1>11 DEF B, M, Extended
<1> QED  BY <1>12 DEF c

\* Behind the cells of the labels ls a name goes on as what comes next.
LEMMA NameWritten ==
    ASSUME NEW c \in Buffer, NEW B \in Nat, NEW ls \in Seq(Proper),
           B + Len(ls) + 1 <= Len(c), \A i \in 1..Len(ls) : c[B + i] = LabelCell(ls[i])
    PROVE  NameAt(c, B + 1) = ls \o NameAt(c, B + Len(ls) + 1)
<1> DEFINE rest == NameAt(c, B + Len(ls) + 1)
           M == Len(ls)
           E == B + M + 1
           S == Proper \cup {NoLabel}
<1>1. M \in Nat /\ (\A i \in 1..M : ls[i] \in Proper) /\ ls \in Seq(S)
  BY LenProperties, ElementOfSeq
<1>2. \A i \in 1..M : LabelCell(ls[i]).kind = "label" /\ LabelCell(ls[i]).label = ls[i]
  BY <1>1, CellTypes
<1>3. Len(c) \in Nat /\ E \in 1..Len(c)
  <2>1. Len(c) \in Nat
    BY BufferParts
  <2> QED  BY <1>1, <2>1
<1>4. NameAt(c, E) = rest /\ rest \in Seq(S)
  <2> HIDE DEF E
  <2>1. NameAt(c, E) \in Seq(S)
    BY <1>3, ReadName
  <2> QED  BY <2>1 DEF E
<1> HIDE DEF rest
<1> DEFINE T == {k \in 0..M : NameAt(c, E - k) = SubSeq(ls, (M + 1) - k, M) \o rest}
<1>6. 0 \in T
  <2>1. SubSeq(ls, (M + 1) - 0, M) = << >>
    BY <1>1
  <2>2. << >> \o rest = rest
    BY <1>4, ConcatEmptySeq
  <2>3. E - 0 = E /\ 0 \in 0..M
    BY <1>1
  <2> HIDE DEF M, E
  <2> QED  BY <1>4, <2>1, <2>2, <2>3
<1>7. ASSUME NEW k \in 1..M, k - 1 \in T PROVE k \in T
  <2> DEFINE j == (M + 1) - k
             p == B + j
  <2>1. j \in 1..M /\ (M + 1) - (k - 1) = j + 1 /\ E - k = p /\ E - (k - 1) = p + 1
    BY <1>1
  <2>2. p \in 1..Len(c)
    <3> HIDE DEF M
    <3> QED  BY <1>1, <1>3, <2>1
  <2>3. c[p] = LabelCell(ls[j])
    BY <2>1
  <2> HIDE DEF j, p, M, T, E
  <2>4. NameAt(c, p) = <<ls[j]>> \o NameAt(c, p + 1)
    <3>1. c[p].kind = "label" /\ c[p].label = ls[j]
      BY <1>2, <2>1, <2>3
    <3> QED  BY <2>2, <3>1, ReadName
  <2>5. NameAt(c, p + 1) = SubSeq(ls, j + 1, M) \o rest
    BY <1>7, <2>1 DEF T
  <2>6. SubSeq(ls, j, M) \o rest = <<ls[j]>> \o (SubSeq(ls, j + 1, M) \o rest)
    <3>1. j \in 1..Len(ls)
      BY <2>1 DEF M
    <3> HIDE DEF S
    <3>2. SubSeq(ls, j, Len(ls)) \o rest = <<ls[j]>> \o (SubSeq(ls, j + 1, Len(ls)) \o rest)
      BY <1>1, <1>4, <3>1, SuffixStep, ZenonT(30)
    <3> QED  BY <3>2 DEF M
  <2>7. k \in 0..M
    BY <1>1
  <2>8. NameAt(c, E - k) = SubSeq(ls, (M + 1) - k, M) \o rest
    BY <2>1, <2>4, <2>5, <2>6 DEF j
  <2> QED  BY <2>7, <2>8 DEF T
<1>8. 0..M \subseteq T
  <2> HIDE DEF T, M
  <2> QED  BY <1>1, <1>6, <1>7, BoundedInduction
<1>9. M \in 0..M /\ E - M = B + 1 /\ (M + 1) - M = 1
  BY <1>1
<1>10. NameAt(c, E - M) = SubSeq(ls, (M + 1) - M, M) \o rest
  <2> HIDE DEF M, E
  <2> QED  BY <1>8, <1>9
<1>11. SubSeq(ls, 1, M) = ls
  BY <1>1
<1> HIDE DEF M, E
<1> QED  BY <1>9, <1>10, <1>11 DEF rest

\* What a reader can make of a name: the labels before the first one that is not proper.
LEMMA AsReadFacts ==
    ASSUME NEW n \in Seq(Label)
    PROVE  /\ AsRead(n) \in Seq(Proper \cup {NoLabel})
           /\ n \in Seq(Proper) => AsRead(n) = n
           /\ n \notin Seq(Proper) => \E j \in 1..Len(n) :
                /\ n[j] \in Label \ Proper /\ \A i \in 1..(j - 1) : n[i] \in Proper
                /\ AsRead(n) = SubSeq(n, 1, j - 1)
                                  \o IF LabelBytes[n[j]] = 0 THEN << >> ELSE <<NoLabel>>
<1>1. CASE n \in Seq(Proper)
  BY <1>1 DEF AsRead
<1>2. CASE n \notin Seq(Proper)
  <2> DEFINE T == {k \in DOMAIN n : n[k] \notin Proper}
             j == Min(T)
             a == SubSeq(n, 1, j - 1)
             S == Proper \cup {NoLabel}
             x == IF LabelBytes[n[j]] = 0 THEN << >> ELSE <<NoLabel>>
  <2>1. Len(n) \in Nat /\ DOMAIN n = 1..Len(n) /\ \A i \in 1..Len(n) : n[i] \in Label
    BY LenProperties, ElementOfSeq
  <2>2. T # {}
    <3> SUFFICES ASSUME \A i \in 1..Len(n) : n[i] \in Proper PROVE n \in Seq(Proper)
      BY <1>2, <2>1
    <3>1. n = [i \in 1..Len(n) |-> n[i]]
      BY SeqDef
    <3>2. [i \in 1..Len(n) |-> n[i]] \in Seq(Proper)
      BY <2>1, IsASeq
    <3> QED  BY <3>1, <3>2
  <2>3. T \subseteq Nat
    BY <2>1
  <2>4. j \in T /\ \A y \in T : j <= y
    <3> HIDE DEF T
    <3>1. \E z \in T : \A y \in T : z <= y
      BY <2>2, <2>3, LeastElement
    <3> QED  BY <3>1, Zenon DEF Min
  <2>5. AsRead(n) = a \o x
    BY <1>2 DEF AsRead
  <2> HIDE DEF j
  <2>6. j \in 1..Len(n) /\ n[j] \in Label \ Proper
    BY <2>1, <2>4
  <2>7. ASSUME NEW i \in 1..(j - 1) PROVE n[i] \in Proper
    <3>1. i \in 1..Len(n) /\ ~(j <= i)
      BY <2>1, <2>6
    <3> QED  BY <2>1, <2>4, <3>1
  <2>8. a \in Seq(S)
    <3>1. j - 1 \in Nat /\ a = [i \in 1..(j - 1) |-> n[i]]
      BY <2>1, <2>6
    <3>2. [i \in 1..(j - 1) |-> n[i]] \in Seq(S)
      BY <2>7, <3>1, IsASeq
    <3> QED  BY <3>1, <3>2
  <2>9. x \in Seq(S)
    <3>1. << >> \in Seq(S) /\ <<NoLabel>> \in Seq(S)
      OBVIOUS
    <3> HIDE DEF S
    <3> QED  BY <3>1
  <2>10. a \o x \in Seq(S)
    <3> HIDE DEF a, x, S
    <3> QED  BY <2>8, <2>9, ConcatProperties
  <2>11. \E k \in 1..Len(n) :
           /\ n[k] \in Label \ Proper /\ \A i \in 1..(k - 1) : n[i] \in Proper
           /\ AsRead(n) = SubSeq(n, 1, k - 1)
                             \o IF LabelBytes[n[k]] = 0 THEN << >> ELSE <<NoLabel>>
    BY <2>5, <2>6, <2>7
  <2> QED  BY <1>2, <2>5, <2>10, <2>11
<1> QED  BY <1>1, <1>2

-----------------------------------------------------------------------------
(* Looking for a name that is known.                                       *)

\* A bounded set of numbers has a greatest element.
LEMMA MaxFacts ==
    ASSUME NEW d \in Nat, NEW T, T \subseteq 0..d, T # {}
    PROVE  Max(T) \in T /\ \A y \in T : y <= Max(T)
<1> DEFINE U == {d - x : x \in T}
<1>1. U \subseteq Nat /\ U # {}
  OBVIOUS
<1>2. PICK u \in U : \A y \in U : u <= y
  <2> HIDE DEF U
  <2> QED  BY <1>1, LeastElement
<1>3. PICK x \in T : u = d - x
  BY <1>2
<1>4. \A y \in T : x >= y
  <2> TAKE y \in T
  <2>1. d - y \in U
    OBVIOUS
  <2>2. d - x <= d - y
    BY <1>2, <1>3, <2>1
  <2>3. x \in 0..d /\ y \in 0..d
    OBVIOUS
  <2> QED  BY <2>2, <2>3
<1>5. Max(T) \in T /\ \A y \in T : Max(T) >= y
  <2>1. \E z \in T : \A y \in T : z >= y
    BY <1>4
  <2> QED  BY <2>1, Zenon DEF Max
<1>6. \A y \in T : y \in 0..d
  OBVIOUS
<1> QED  BY <1>5, <1>6

\* The labels that match are the last ones, and no label before them does.
LEMMA MatchingFacts ==
    ASSUME NEW b, NEW frags, NEW path, Len(frags) \in Nat, Len(path) \in Nat,
           NEW k, k = Matching(b, frags, path)
    PROVE  /\ k \in Nat /\ k <= Len(path) /\ k <= Len(frags)
           /\ \A i \in 1..k : b[path[Len(path) + 1 - i]].label = frags[Len(frags) + 1 - i]
           /\ 0 \in Range(path) => k = 0
           /\ (/\ 0 \notin Range(path)
               /\ Len(path) = Len(frags)
               /\ \A i \in 1..Len(path) : b[path[i]].label = frags[i])
              => k = Len(path)
<1> DEFINE P == Len(path)
           F == Len(frags)
           same(j) == b[path[P + 1 - j]].label = frags[F + 1 - j]
           depth == IF P < F THEN P ELSE F
           T == {j \in 0..depth : \A i \in 1..j : same(i)}
<1>1. P \in Nat /\ F \in Nat /\ depth \in Nat /\ depth <= P /\ depth <= F
  OBVIOUS
<1>2. k = IF 0 \in Range(path) THEN 0 ELSE Max(T)
  BY DEF Matching
<1>8. CASE 0 \in Range(path)
  BY <1>1, <1>2, <1>8
<1>9. CASE 0 \notin Range(path)
  <2>3. 0 \in T
    BY <1>1
  <2>4. k \in T /\ \A y \in T : y <= k
    <3>1. T \subseteq 0..depth
      OBVIOUS
    <3> HIDE DEF T, depth
    <3> QED  BY <1>1, <1>2, <1>9, <2>3, <3>1, MaxFacts
  <2>5. k \in 0..depth /\ \A i \in 1..k : same(i)
    BY <2>4
  <2>6. ASSUME P = F, \A i \in 1..P : b[path[i]].label = frags[i] PROVE k = P
    <3>1. ASSUME NEW i \in 1..P PROVE same(i)
      <4>1. P + 1 - i \in 1..P /\ F + 1 - i = P + 1 - i
        BY <1>1, <2>6
      <4> HIDE DEF P, F
      <4> QED  BY <2>6, <4>1
    <3>2. depth = P
      BY <1>1, <2>6
    <3>3. P \in T
      <4>1. P \in 0..depth
        BY <1>1, <3>2
      <4> HIDE DEF same, depth
      <4> QED  BY <3>1, <4>1
    <3>4. P <= k
      BY <2>4, <3>3
    <3> HIDE DEF depth, T
    <3> QED  BY <1>1, <2>5, <3>2, <3>4
  <2>7. k \in Nat /\ k <= P /\ k <= F
    <3> HIDE DEF depth
    <3> QED  BY <1>1, <2>5
  <2> QED  BY <1>9, <2>5, <2>6, <2>7
<1> QED  BY <1>8, <1>9

\* x.offset is a name that is what remains of frags after the first x.frag ones.
Leads(b, frags, x) ==
    /\ x.frag \in 0..Len(frags) /\ x.offset \in Nat
    /\ x.frag < Len(frags) =>
         /\ x.offset \in 1..Len(b) /\ NameAt(b, x.offset) \in Seq(Proper)
         /\ Len(NameAt(b, x.offset)) = Len(frags) - x.frag
         /\ \A j \in 1..(Len(frags) - x.frag) : NameAt(b, x.offset)[j] = frags[x.frag + j]

\* The name at p is in the buffer, and complete.
Readable(b, p) == p \in 1..Len(b) /\ NameAt(b, p) \in Seq(Proper)

\* What ReverseCompare finds in a name ends as the fragments do.
LEMMA ReadableLeads ==
    ASSUME NEW b \in Buffer, NEW frags \in Seq(Label), NEW p, Readable(b, p),
           NEW r, r = ReverseCompare(b, frags, p)
    PROVE  /\ r.frag \in 0..(Len(frags) - 1) =>
                 Leads(b, frags, [frag |-> r.frag, offset |-> r.best])
           /\ NameAt(b, p) = frags => r.frag = 0
<1> DEFINE path == Path(b, p)
           n == NameAt(b, p)
           k == Matching(b, frags, path)
           F == Len(frags)
           N == Len(n)
<1>1. b \in Seq(Cell) /\ Back(b) /\ Len(b) \in Nat /\ p \in 0..(Len(b) + 1) /\ n \in Seq(Proper)
  <2>1. b \in Seq(Cell) /\ Back(b) /\ Len(b) \in Nat
    BY BufferParts
  <2> QED  BY <2>1 DEF Readable
<1>2. OnPath(b, path, n)
  BY <1>1, NameOnPath
<1>8. 0 \notin Range(path)
  <2>1. path \in Seq(1..Len(b))
    BY <1>2 DEF OnPath
  <2> HIDE DEF path
  <2>2. DOMAIN path = 1..Len(path) /\ \A i \in 1..Len(path) : path[i] \in 1..Len(b)
    BY <2>1, ElementOfSeq, LenProperties
  <2> QED  BY <1>1, <2>2 DEF Range
<1>3. r.frag = (IF k = F THEN k - Len(path) ELSE F - k)
      /\ r.best = (IF k = 0 THEN 0 ELSE path[Len(path) + 1 - k])
  BY DEF ReverseCompare
<1> HIDE DEF path, n
<1>4. F \in Nat /\ N \in Nat /\ Len(path) = N /\ path \in Seq(1..Len(b))
  BY <1>1, <1>2, LenProperties DEF OnPath
<1>5. /\ k \in Nat /\ k <= N /\ k <= F
      /\ \A i \in 1..k : b[path[N + 1 - i]].label = frags[F + 1 - i]
      /\ (N = F /\ \A i \in 1..N : b[path[i]].label = frags[i]) => k = N
  <2> DEFINE kk == k
  <2>1. Len(frags) \in Nat /\ Len(path) \in Nat /\ kk = Matching(b, frags, path)
    BY <1>4
  <2> HIDE DEF kk
  <2>2. /\ kk \in Nat /\ kk <= Len(path) /\ kk <= Len(frags)
        /\ \A i \in 1..kk : b[path[Len(path) + 1 - i]].label = frags[Len(frags) + 1 - i]
        /\ (/\ Len(path) = Len(frags)
            /\ \A i \in 1..Len(path) : b[path[i]].label = frags[i])
           => kk = Len(path)
    BY <1>8, <2>1, MatchingFacts
  <2>3. Len(path) = N
    BY <1>4
  <2>4. /\ kk \in Nat /\ kk <= N /\ kk <= F
        /\ \A i \in 1..kk : b[path[N + 1 - i]].label = frags[F + 1 - i]
        /\ (N = F /\ \A i \in 1..N : b[path[i]].label = frags[i]) => kk = N
    BY <2>2, <2>3
  <2> QED  BY <2>4 DEF kk
<1> HIDE DEF k
<1>6. ASSUME n = frags PROVE r.frag = 0
  <2>1. \A i \in 1..N : b[path[i]].label = frags[i]
    BY <1>2, <1>6 DEF OnPath
  <2>2. k = N /\ N = F
    BY <1>5, <1>6, <2>1
  <2> QED  BY <1>3, <1>4, <2>2
<1>7. ASSUME r.frag \in 0..(F - 1)
      PROVE  Leads(b, frags, [frag |-> r.frag, offset |-> r.best])
  <2> HIDE DEF F, N
  <2>1. k > 0 /\ r.frag = F - k
    BY <1>3, <1>4, <1>5, <1>7
  <2> DEFINE i == N + 1 - k
             o == r.best
             fr == r.frag
  <2>2. i \in 1..N /\ o = path[i] /\ N + 1 - i = k
    BY <1>3, <1>4, <1>5, <2>1
  <2>3. /\ NameAt(b, o) \in Seq(Proper) /\ Len(NameAt(b, o)) = N + 1 - i
        /\ \A j \in 1..(N + 1 - i) : NameAt(b, o)[j] = n[(i + j) - 1]
    <3> HIDE DEF i, o
    <3> QED  BY <1>2, <2>2 DEF OnPath, N
  <2>4. o \in 1..Len(b)
    <3>1. i \in 1..Len(path)
      BY <1>4, <2>2
    <3> HIDE DEF i, o
    <3> QED  BY <1>4, <2>2, <3>1, ElementOfSeq
  <2>5. ASSUME NEW j \in 1..k PROVE NameAt(b, o)[j] = frags[fr + j]
    <3> DEFINE m == (i + j) - 1
               h == k + 1 - j
    <3>1. m \in 1..N /\ h \in 1..k /\ N + 1 - h = m /\ F + 1 - h = fr + j
      BY <1>4, <1>5, <2>1, <2>2
    <3>2. NameAt(b, o)[j] = n[m]
      BY <2>2, <2>3
    <3> HIDE DEF m, h, fr, o, i
    <3>3. b[path[m]].label = n[m]
      BY <1>2, <3>1 DEF OnPath, N
    <3>4. b[path[m]].label = frags[fr + j]
      BY <1>5, <3>1
    <3> QED  BY <3>2, <3>3, <3>4
  <2>6. F - fr = k /\ fr \in 0..F /\ o \in Nat /\ fr < F
    BY <1>1, <1>4, <1>5, <2>1, <2>4
  <2> HIDE DEF i, o, fr
  <2>7. Leads(b, frags, [frag |-> fr, offset |-> o])
    <3> DEFINE x == [frag |-> fr, offset |-> o]
    <3>1. x.frag = fr /\ x.offset = o
      OBVIOUS
    <3> HIDE DEF x
    <3>2. Leads(b, frags, x)
      BY <2>2, <2>3, <2>4, <2>5, <2>6, <3>1 DEF Leads, F
    <3> QED  BY <3>2 DEF x
  <2> QED  BY <2>7 DEF o, fr
<1> QED  BY <1>6, <1>7 DEF n

\* ReverseCompare matches nothing with a name that cannot be read.
LEMMA CompareLeads ==
    ASSUME NEW b \in Buffer, NEW frags \in Seq(Label), NEW p \in 1..Len(b),
           NEW r, r = ReverseCompare(b, frags, p)
    PROVE  /\ r.frag \in 0..(Len(frags) - 1) =>
                 Leads(b, frags, [frag |-> r.frag, offset |-> r.best])
           /\ NameAt(b, p) = frags /\ frags \in Seq(Proper) => r.frag = 0
<1> DEFINE path == Path(b, p)
           F == Len(frags)
           k == Matching(b, frags, path)
<1>1. CASE NameAt(b, p) \in Seq(Proper)
  <2>1. Readable(b, p)
    BY <1>1 DEF Readable
  <2> QED  BY <2>1, ReadableLeads
<1>2. CASE NameAt(b, p) \notin Seq(Proper)
  <2>1. b \in Seq(Cell) /\ Back(b) /\ Len(b) \in Nat
    BY BufferParts
  <2>2. p \in 0..(Len(b) + 1)
    BY <2>1
  <2>3. 0 \in Range(path) /\ path \in Seq(Nat)
    BY <1>2, <2>1, <2>2, UnreadPath, PathStep
  <2>4. r.frag = IF k = F THEN k - Len(path) ELSE F - k
    BY DEF ReverseCompare
  <2> HIDE DEF path
  <2>5. F \in Nat /\ Len(path) \in Nat
    BY <2>3, LenProperties
  <2>6. k = 0
    BY <2>3, <2>5, MatchingFacts
  <2> HIDE DEF k
  <2>7. r.frag \notin 0..(F - 1)
    BY <2>4, <2>5, <2>6
  <2> QED  BY <1>2, <2>7
<1> QED  BY <1>1, <1>2

\* The better of two matches is a match, and as good as either.
LEMMA NearerFacts ==
    ASSUME NEW b \in Buffer, NEW frags \in Seq(Label), NEW p \in 1..Len(b),
           NEW x, Leads(b, frags, x), x \in [frag : Nat, offset : Nat],
           NEW y, y = Nearer(b, frags, x, p)
    PROVE  /\ Leads(b, frags, y) /\ y \in [frag : Nat, offset : Nat]
           /\ x.frag = 0 => y.frag = 0
           /\ NameAt(b, p) = frags /\ frags \in Seq(Proper) => y.frag = 0
<1> DEFINE r == ReverseCompare(b, frags, p)
           z == [frag |-> r.frag, offset |-> r.best]
<1>1. y = IF r.frag \in 0..(x.frag - 1) THEN z ELSE x
  BY DEF Nearer
<1>2. (r.frag \in 0..(Len(frags) - 1) => Leads(b, frags, z)) /\ (NameAt(b, p) = frags /\ frags \in Seq(Proper) => r.frag = 0)
  <2> DEFINE q == r
  <2>1. q = ReverseCompare(b, frags, p)
    OBVIOUS
  <2> HIDE DEF q
  <2>2. (q.frag \in 0..(Len(frags) - 1) => Leads(b, frags, [frag |-> q.frag, offset |-> q.best]))
        /\ (NameAt(b, p) = frags /\ frags \in Seq(Proper) => q.frag = 0)
    BY <2>1, CompareLeads
  <2> QED  BY <2>2 DEF q
<1> HIDE DEF r
<1>3. x.frag \in 0..Len(frags) /\ Len(frags) \in Nat
  BY LenProperties DEF Leads
<1>4. CASE r.frag \in 0..(x.frag - 1)
  <2>1. r.frag \in 0..(Len(frags) - 1) /\ x.frag # 0
    BY <1>3, <1>4
  <2>2. Leads(b, frags, z) /\ y = z
    BY <1>1, <1>2, <1>4, <2>1
  <2>3. z.offset \in Nat /\ z.frag = r.frag /\ r.frag \in Nat
    BY <1>3, <1>4, <2>2 DEF Leads
  <2>4. z \in [frag : Nat, offset : Nat]
    BY <2>3
  <2> QED  BY <1>2, <2>1, <2>2, <2>3, <2>4
<1>5. CASE r.frag \notin 0..(x.frag - 1)
  <2>1. y = x
    BY <1>1, <1>5
  <2>2. r.frag = 0 => x.frag = 0
    BY <1>3, <1>5
  <2> QED  BY <1>2, <2>1, <2>2
<1> QED  BY <1>4, <1>5

\* What the writers work on: every known start is in the buffer.
GoodWriter(w) ==
    /\ w \in [buffer : Buffer, starts : Seq(Nat)]
    /\ \A i \in 1..Len(w.starts) : w.starts[i] \in 1..Len(w.buffer)

\* The name is one of the known ones.
Known(w, n) == \E i \in 1..Len(w.starts) : NameAt(w.buffer, w.starts[i]) = n

\* SearchForDomainName finds a name that ends as frags, and frags itself if it is known.
LEMMA SearchLeads ==
    ASSUME NEW w, GoodWriter(w), NEW frags \in Seq(Label)
    PROVE  /\ Leads(w.buffer, frags, SearchForDomainName(w, frags))
           /\ Known(w, frags) /\ frags \in Seq(Proper) => SearchForDomainName(w, frags).frag = 0
<1> DEFINE b == w.buffer
           st == w.starts
           S == Len(st)
           F == Len(frags)
           R == [frag : Nat, offset : Nat]
           T == {x \in R : Leads(b, frags, x)}
           base == [frag |-> F, offset |-> 0]
           g == [x \in (1..S) \X T |-> Nearer(b, frags, x[2], st[x[1]])]
           Def(f) == [i \in 0..S |-> IF i = 0 THEN [frag |-> Len(frags), offset |-> 0]
                                     ELSE Nearer(w.buffer, frags, f[i - 1], w.starts[i])]
           best == CHOOSE f : f = Def(f)
<1>1. b \in Buffer /\ st \in Seq(Nat) /\ S \in Nat /\ F \in Nat
      /\ \A i \in 1..S : st[i] \in 1..Len(b)
  BY LenProperties DEF GoodWriter
<1> HIDE DEF b, st
<1>2. base \in T
  <2>1. base.frag = F /\ base.offset = 0 /\ base \in R
    BY <1>1
  <2> HIDE DEF base
  <2>2. Leads(b, frags, base)
    BY <1>1, <2>1 DEF Leads
  <2> QED  BY <2>1, <2>2
<1>3. ASSUME NEW i \in 1..S, NEW x \in T
      PROVE  /\ Nearer(b, frags, x, st[i]) \in T
             /\ x.frag = 0 => Nearer(b, frags, x, st[i]).frag = 0
             /\ NameAt(b, st[i]) = frags /\ frags \in Seq(Proper) => Nearer(b, frags, x, st[i]).frag = 0
  <2> DEFINE y == Nearer(b, frags, x, st[i])
             p == st[i]
  <2>1. p \in 1..Len(b) /\ Leads(b, frags, x) /\ x \in R /\ y = Nearer(b, frags, x, p) /\ b \in Buffer
    BY <1>1
  <2> HIDE DEF y, p
  <2>2. /\ Leads(b, frags, y) /\ y \in R
        /\ x.frag = 0 => y.frag = 0
        /\ NameAt(b, p) = frags /\ frags \in Seq(Proper) => y.frag = 0
    BY <2>1, NearerFacts
  <2> QED  BY <2>2 DEF y, p
<1>4. \E f : f = Def(f)
  <2>1. IsStep(g, S, T)
    <3> HIDE DEF T, S
    <3> QED  BY <1>3 DEF IsStep
  <2>2. PICK f : Steps(f, S, T, base, g)
    <3> HIDE DEF T, S, g, base
    <3> QED  BY <1>1, <1>2, <2>1, CountingUp
  <2>3. f \in [0..S -> T] /\ f[0] = base /\ \A i \in 1..S : f[i] = g[<<i, f[i - 1]>>]
    <3> HIDE DEF T, S, g, base
    <3> QED  BY <2>2 DEF Steps
  <2>4. ASSUME NEW i \in 1..S PROVE f[i] = Nearer(b, frags, f[i - 1], st[i])
    <3>1. i - 1 \in 0..S
      BY <1>1
    <3> HIDE DEF T, S
    <3>2. f[i - 1] \in T
      BY <2>3, <3>1
    <3> QED  BY <2>3, <3>2
  <2>5. \A i \in 0..S : i # 0 => i \in 1..S
    BY <1>1
  <2>6. f = Def(f)
    <3> HIDE DEF T, S
    <3>1. \A i \in 0..S : f[i] = IF i = 0 THEN [frag |-> Len(frags), offset |-> 0]
                                 ELSE Nearer(w.buffer, frags, f[i - 1], w.starts[i])
      BY <2>3, <2>4, <2>5 DEF b, st
    <3> QED  BY <2>3, <3>1
  <2> HIDE DEF Def
  <2> QED  BY <2>6
<1>5. best = Def(best)
  <2> HIDE DEF Def
  <2> QED  BY <1>4
<1>6. SearchForDomainName(w, frags) = best[S]
  BY DEF SearchForDomainName, st
<1> HIDE DEF best
<1>7. best[0] = base /\ \A i \in 1..S : best[i] = Nearer(b, frags, best[i - 1], st[i])
  <2>1. \A i \in 0..S : best[i] = IF i = 0 THEN [frag |-> Len(frags), offset |-> 0]
                                  ELSE Nearer(w.buffer, frags, best[i - 1], w.starts[i])
    <3> HIDE DEF S
    <3> QED  BY <1>5
  <2>2. 0 \in 0..S /\ \A i \in 1..S : i \in 0..S /\ i # 0
    BY <1>1
  <2> HIDE DEF S
  <2> QED  BY <2>1, <2>2 DEF b, st
<1> DEFINE U == {i \in 0..S : /\ best[i] \in T
                              /\ (\E j \in 1..i : NameAt(b, st[j]) = frags)
                                 /\ frags \in Seq(Proper) => best[i].frag = 0}
<1>8. 0 \in U
  <2>1. 0 \in 0..S
    BY <1>1
  <2> HIDE DEF T, S
  <2> QED  BY <1>2, <1>7, <2>1
<1>9. ASSUME NEW i \in 1..S, i - 1 \in U PROVE i \in U
  <2>1. i \in 0..S /\ \A j \in 1..i : j = i \/ j \in 1..(i - 1)
    BY <1>1
  <2> HIDE DEF T, S
  <2>2. best[i - 1] \in T /\ best[i] = Nearer(b, frags, best[i - 1], st[i])
    BY <1>7, <1>9
  <2>3. /\ best[i] \in T
        /\ best[i - 1].frag = 0 => best[i].frag = 0
        /\ NameAt(b, st[i]) = frags /\ frags \in Seq(Proper) => best[i].frag = 0
    BY <1>3, <2>2
  <2> QED  BY <1>9, <2>1, <2>3
<1>10. 0..S \subseteq U
  <2> HIDE DEF U, S
  <2> QED  BY <1>1, <1>8, <1>9, BoundedInduction
<1>11. S \in U
  <2>1. S \in 0..S
    BY <1>1
  <2> HIDE DEF U, S
  <2> QED  BY <1>10, <2>1
<1> QED  BY <1>6, <1>11 DEF Known, b, st

-----------------------------------------------------------------------------
(* What the writers do.                                                    *)

\* c is b with the name n behind it: its labels, and the end or a pointer.
WroteName(b, c, n) ==
    /\ Grown(b, c) /\ Len(b) < Len(c)
    /\ \A i \in 1..Len(b) : c[i] = b[i]
    /\ NameAt(c, Len(b) + 1) = AsRead(n)
    /\ n \in Seq(Proper) => \A i \in (Len(b) + 1)..(Len(c) - 1) : c[i].kind = "label"
    /\ \A i \in (Len(b) + 1)..Len(c) : c[i].kind \in {"label", "pointer", "end", "bad"}
    /\ c[Len(c)].kind \in {"end", "pointer"}

\* WriteDomainName of two arguments writes the name, without a label if it is known.
LEMMA FragmentsWritten ==
    ASSUME NEW w, GoodWriter(w), NEW frags \in Seq(Label)
    PROVE  /\ WroteName(w.buffer, WriteFragments(w, frags).buffer, frags)
           /\ WriteFragments(w, frags) = [buffer |-> WriteFragments(w, frags).buffer,
                                          starts |-> w.starts]
           /\ Known(w, frags) /\ frags \in Seq(Proper) =>
                WriteFragments(w, frags).buffer[Len(w.buffer) + 1].kind # "label"
<1> DEFINE b == w.buffer
           found == SearchForDomainName(w, frags)
           fr == found.frag
           o == found.offset
           B == Len(b)
           F == Len(frags)
           ms == [i \in 1..fr |-> LabelCell(frags[i])]
           end == IF fr < F THEN Pointer(o) ELSE End
           c == Append(b \o ms, end)
           rest == IF fr < F THEN NameAt(b, o) ELSE << >>
<1>1. Leads(b, frags, found) /\ (Known(w, frags) /\ frags \in Seq(Proper) => fr = 0)
  BY SearchLeads
<1>2. w = [buffer |-> w.buffer, starts |-> w.starts] /\ b \in Buffer
  BY DEF GoodWriter
<1>3. WriteFragments(w, frags) = [buffer |-> c, starts |-> w.starts]
  <2>1. WriteFragments(w, frags) = [w EXCEPT !.buffer = c]
    BY DEF WriteFragments
  <2> HIDE DEF c
  <2> QED  BY <1>2, <2>1
<1> HIDE DEF b, found
<1>4. /\ F \in Nat /\ fr \in 0..F /\ o \in Nat
      /\ fr < F => /\ o \in 1..Len(b) /\ NameAt(b, o) \in Seq(Proper)
                   /\ Len(NameAt(b, o)) = F - fr
                   /\ \A j \in 1..(F - fr) : NameAt(b, o)[j] = frags[fr + j]
  BY <1>1, LenProperties DEF Leads
<1> HIDE DEF fr, o
<1>5. \A i \in 1..F : frags[i] \in Label
  BY ElementOfSeq
<1>7. /\ rest \in Seq(Proper) /\ Len(rest) = F - fr
      /\ \A j \in 1..(F - fr) : rest[j] = frags[fr + j]
  <2>1. fr < F \/ fr = F
    BY <1>4
  <2>2. << >> \in Seq(Proper) /\ Len(<< >>) = 0
    OBVIOUS
  <2>3. CASE fr = F
    <3>1. rest = << >> /\ F - fr = 0 /\ 1..(F - fr) = {}
      BY <1>4, <2>3
    <3> HIDE DEF rest, F
    <3> QED  BY <2>2, <3>1
  <2>4. CASE fr < F
    BY <1>4, <2>4
  <2> QED  BY <2>1, <2>3, <2>4
<1>8. \A i \in (fr + 1)..F : frags[i] \in Proper
  <2> TAKE i \in (fr + 1)..F
  <2> HIDE DEF rest, F
  <2>1. i - fr \in 1..(F - fr) /\ fr + (i - fr) = i
    BY <1>4
  <2>2. rest[i - fr] \in Proper
    BY <1>7, <2>1, ElementOfSeq
  <2> QED  BY <1>7, <2>1, <2>2
<1>9. /\ ms \in Seq(Cell) /\ Len(ms) = fr
      /\ \A i \in 1..fr : /\ ms[i] = LabelCell(frags[i])
                          /\ ms[i].kind \in {"label", "end", "bad"}
                          /\ ms[i].kind = "label" => ms[i].label \in Proper
                          /\ frags[i] \in Proper => ms[i].kind = "label"
  <2>1. ASSUME NEW i \in 1..fr
        PROVE  /\ LabelCell(frags[i]) \in Cell
               /\ LabelCell(frags[i]).kind \in {"label", "end", "bad"}
               /\ LabelCell(frags[i]).kind = "label" => LabelCell(frags[i]).label \in Proper
               /\ frags[i] \in Proper => LabelCell(frags[i]).kind = "label"
    <3> DEFINE l == frags[i]
    <3>1. l \in Label
      BY <1>4, <1>5
    <3> HIDE DEF l
    <3>2. /\ LabelCell(l) \in Cell /\ LabelCell(l).kind \in {"label", "end", "bad"}
          /\ LabelCell(l).kind = "label" => LabelCell(l).label \in Proper
          /\ l \in Proper => LabelCell(l).kind = "label"
      BY <3>1, CellTypes
    <3> QED  BY <3>2 DEF l
  <2>2. fr \in Nat
    BY <1>4
  <2>3. ms \in [1..fr -> Cell]
    BY <2>1
  <2>4. \A i \in 1..fr : ms[i] = LabelCell(frags[i])
    OBVIOUS
  <2> HIDE DEF ms
  <2>5. ms \in Seq(Cell) /\ Len(ms) = fr
    BY <2>2, <2>3
  <2> QED  BY <2>1, <2>4, <2>5
<1>10. /\ end \in Cell
       /\ \/ end.kind = "end" /\ rest = << >>
          \/ end.kind = "pointer" /\ end.to \in 1..Len(b) /\ NameAt(b, end.to) = rest
  <2>1. CASE fr < F
    <3>1. end = Pointer(o) /\ rest = NameAt(b, o)
      BY <2>1
    <3>2. end \in Cell /\ end.kind = "pointer" /\ end.to = o
      BY <1>4, <3>1, CellTypes
    <3> QED  BY <1>4, <2>1, <3>1, <3>2
  <2>2. CASE ~(fr < F)
    BY <2>2, CellTypes
  <2> QED  BY <2>1, <2>2
<1> HIDE DEF end, rest, ms, F
<1>11. /\ Grown(b, c) /\ Len(c) = B + fr + 1
       /\ \A i \in 1..B : c[i] = b[i]
       /\ \A i \in 1..fr : c[B + i] = ms[i]
       /\ c[Len(c)] = end
  <2>1. MayFollow(b, ms, end)
    BY <1>2, <1>9, <1>10 DEF b, MayFollow
  <2>2. Extended(b, ms, end, c)
    BY <2>1, BufferExtended
  <2> QED  BY <1>9, <2>2 DEF Extended
<1> HIDE DEF c
<1>12. B \in Nat /\ fr \in Nat /\ c \in Buffer /\ Len(c) \in 1..Len(c) /\ Len(c) \in Nat
  <2>1. b \in Buffer /\ c \in Buffer
    BY <1>2, <1>11 DEF b, Grown
  <2>2. B \in Nat /\ Len(c) \in Nat
    BY <2>1, BufferParts
  <2> QED  BY <1>4, <1>11, <2>1, <2>2
<1>13. NameAt(c, B + fr + 1) = rest
  <2>1. /\ end.kind = "pointer" => NameAt(c, Len(c)) = NameAt(c, end.to)
        /\ end.kind = "end" => NameAt(c, Len(c)) = << >>
    BY <1>11, <1>12, ReadName
  <2>2. end.kind = "pointer" => NameAt(c, end.to) = NameAt(b, end.to)
    BY <1>10, <1>11, NameKept
  <2> QED  BY <1>10, <1>11, <2>1, <2>2
<1> HIDE DEF B
<1>14. NameAt(c, B + 1) = AsRead(frags)
  <2>1. CASE frags \in Seq(Proper)
    <3> DEFINE ls == SubSeq(frags, 1, fr)
    <3>1. /\ \A i \in 1..fr : frags[i] \in Proper
          /\ ls = [i \in 1..fr |-> frags[i]]
      <4>1. \A i \in 1..fr : i \in 1..F
        BY <1>4
      <4> QED  BY <1>12, <2>1, <4>1, ElementOfSeq DEF F
    <3>2. ls \in Seq(Proper) /\ Len(ls) = fr /\ \A i \in 1..fr : ls[i] = frags[i]
      <4>1. [i \in 1..fr |-> frags[i]] \in Seq(Proper)
        BY <1>12, <3>1, IsASeq
      <4>2. Len([i \in 1..fr |-> frags[i]]) = fr
        BY <1>12
      <4> HIDE DEF ls
      <4> QED  BY <3>1, <4>1, <4>2
    <3> HIDE DEF ls
    <3>3. ls \o rest = frags
      <4>1. /\ ls \o rest \in Seq(Proper) /\ Len(ls \o rest) = fr + (F - fr)
            /\ \A i \in 1..fr : (ls \o rest)[i] = ls[i]
            /\ \A i \in 1..(F - fr) : (ls \o rest)[fr + i] = rest[i]
        <5>1. ls \in Seq(Proper) /\ rest \in Seq(Proper)
          BY <1>7, <3>2
        <5>2. ls \o rest \in Seq(Proper) /\ Len(ls \o rest) = Len(ls) + Len(rest)
              /\ (\A i \in 1..Len(ls) : (ls \o rest)[i] = ls[i])
              /\ \A i \in 1..Len(rest) : (ls \o rest)[Len(ls) + i] = rest[i]
          BY <5>1, JoinParts
        <5> QED  BY <1>7, <3>2, <5>2
      <4>2. fr + (F - fr) = F
        BY <1>4
      <4>3. ASSUME NEW i \in 1..F PROVE (ls \o rest)[i] = frags[i]
        <5>1. CASE i \in 1..fr
          BY <3>2, <4>1, <5>1
        <5>2. CASE i \notin 1..fr
          <6>1. i - fr \in 1..(F - fr) /\ fr + (i - fr) = i
            BY <1>4, <5>2
          <6> QED  BY <1>7, <4>1, <6>1
        <5> QED  BY <5>1, <5>2
      <4> QED  BY <2>1, <4>1, <4>2, <4>3, SeqEqual DEF F
    <3>4. /\ B + Len(ls) + 1 <= Len(c) /\ NameAt(c, B + Len(ls) + 1) = rest
          /\ \A i \in 1..Len(ls) : c[B + i] = LabelCell(ls[i])
      BY <1>9, <1>11, <1>12, <1>13, <3>2
    <3>5. NameAt(c, B + 1) = ls \o NameAt(c, B + Len(ls) + 1)
      BY <1>12, <3>2, <3>4, NameWritten
    <3> QED  BY <2>1, <3>3, <3>4, <3>5, AsReadFacts
  <2>2. CASE frags \notin Seq(Proper)
    <3>1. PICK j \in 1..F :
            /\ frags[j] \in Label \ Proper /\ \A i \in 1..(j - 1) : frags[i] \in Proper
            /\ AsRead(frags) = SubSeq(frags, 1, j - 1)
                                  \o IF LabelBytes[frags[j]] = 0 THEN << >> ELSE <<NoLabel>>
      BY <2>2, AsReadFacts DEF F
    <3> DEFINE ls == SubSeq(frags, 1, j - 1)
               tail == IF LabelBytes[frags[j]] = 0 THEN << >> ELSE <<NoLabel>>
    <3>2. j \in 1..fr /\ j - 1 \in Nat /\ j - 1 <= F
      BY <1>4, <1>8, <3>1
    <3>3. ls \in Seq(Proper) /\ Len(ls) = j - 1 /\ \A i \in 1..(j - 1) : ls[i] = frags[i]
      <4>1. ls = [i \in 1..(j - 1) |-> frags[i]]
        BY <3>2 DEF F
      <4>2. [i \in 1..(j - 1) |-> frags[i]] \in Seq(Proper)
        BY <3>1, <3>2, IsASeq
      <4>3. Len([i \in 1..(j - 1) |-> frags[i]]) = j - 1
        BY <3>2
      <4> HIDE DEF ls
      <4> QED  BY <4>1, <4>2, <4>3
    <3> HIDE DEF ls
    <3>4. c[B + j] = LabelCell(frags[j]) /\ B + j \in 1..Len(c)
      BY <1>9, <1>11, <1>12, <3>2
    <3>5. LabelCell(frags[j]).kind = IF LabelBytes[frags[j]] = 0 THEN "end" ELSE "bad"
      BY <3>1, CellTypes
    <3>6. NameAt(c, B + j) = tail
      <4>1. /\ c[B + j].kind = "end" => NameAt(c, B + j) = << >>
            /\ c[B + j].kind \notin {"label", "pointer", "end"} => NameAt(c, B + j) = <<NoLabel>>
        BY <1>12, <3>4, ReadName
      <4> QED  BY <3>4, <3>5, <4>1
    <3> HIDE DEF tail
    <3>7. /\ B + Len(ls) + 1 <= Len(c) /\ NameAt(c, B + Len(ls) + 1) = tail
          /\ \A i \in 1..Len(ls) : c[B + i] = LabelCell(ls[i])
      <4>1. B + Len(ls) + 1 = B + j /\ \A i \in 1..Len(ls) : i \in 1..fr
        BY <1>12, <3>2, <3>3
      <4> QED  BY <1>9, <1>11, <1>12, <3>2, <3>3, <3>6, <4>1
    <3>8. NameAt(c, B + 1) = ls \o NameAt(c, B + Len(ls) + 1)
      BY <1>12, <3>3, <3>7, NameWritten
    <3> QED  BY <3>1, <3>7, <3>8 DEF ls, tail
  <2> QED  BY <2>1, <2>2
<1>15. WroteName(b, c, frags)
  <2>1. B < Len(c)
    BY <1>11, <1>12
  <2>2. ASSUME NEW i \in (B + 1)..(Len(c) - 1)
        PROVE  /\ c[i].kind \in {"label", "end", "bad"}
               /\ frags \in Seq(Proper) => c[i].kind = "label"
    <3>1. i - B \in 1..fr /\ B + (i - B) = i /\ i - B \in 1..F
      BY <1>4, <1>11, <1>12
    <3>2. c[i] = ms[i - B]
      BY <1>11, <3>1
    <3>3. frags \in Seq(Proper) => frags[i - B] \in Proper
      BY <3>1, ElementOfSeq DEF F
    <3> QED  BY <1>9, <3>1, <3>2, <3>3
  <2>3. c[Len(c)].kind \in {"end", "pointer"}
    BY <1>10, <1>11
  <2>4. \A i \in (B + 1)..Len(c) : i = Len(c) \/ i \in (B + 1)..(Len(c) - 1)
    BY <1>12
  <2>5. \A i \in (B + 1)..Len(c) : c[i].kind \in {"label", "pointer", "end", "bad"}
    BY <2>2, <2>3, <2>4
  <2> QED  BY <1>11, <1>14, <2>1, <2>2, <2>3, <2>5 DEF WroteName, B
<1>16. Known(w, frags) /\ frags \in Seq(Proper) => c[B + 1].kind # "label"
  <2>1. fr = 0 => Len(c) = B + 1
    BY <1>11, <1>12
  <2> QED  BY <1>1, <1>10, <1>11, <2>1 DEF fr
<1> QED  BY <1>3, <1>15, <1>16 DEF b, B

\* v has the starts that w has, and perhaps p.
Remembers(w, v, p) ==
    /\ GoodWriter(v) /\ v.buffer = w.buffer
    /\ \E j \in 1..Len(v.starts) : NameAt(v.buffer, v.starts[j]) = NameAt(w.buffer, p)
    /\ \A i \in 1..Len(w.starts) : \E j \in 1..Len(v.starts) : v.starts[j] = w.starts[i]
    /\ \A j \in 1..Len(v.starts) : \/ v.starts[j] = p
                                   \/ \E i \in 1..Len(w.starts) : v.starts[j] = w.starts[i]

\* AddLabelForCompression makes the name at p a known one.
LEMMA LabelRemembered ==
    ASSUME NEW w, GoodWriter(w), NEW p \in 1..Len(w.buffer)
    PROVE  Remembers(w, AddLabelForCompression(w, p), p)
<1> DEFINE b == w.buffer
           st == w.starts
           S == Len(st)
           c == CellAt(b, p)
           dst == IF c.kind = "pointer" THEN c.to ELSE p
           v == AddLabelForCompression(w, p)
           sp == Append(st, p)
<1>1. /\ w = [buffer |-> b, starts |-> st] /\ b \in Buffer /\ st \in Seq(Nat) /\ S \in Nat
      /\ DOMAIN st = 1..S /\ p \in 1..Len(b)
      /\ \A i \in 1..S : st[i] \in 1..Len(b)
  BY LenProperties DEF GoodWriter
<1>2. v = IF dst \in Range(st) THEN w ELSE [w EXCEPT !.starts = Append(@, p)]
  BY DEF AddLabelForCompression
<1>3. c = b[p] /\ p \in Nat
  <2>1. b \in Buffer /\ p \in 1..Len(b)
    BY <1>1
  <2>2. Len(b) \in Nat /\ CellAt(b, p) = b[p]
    BY <2>1, BufferParts
  <2> QED  BY <2>1, <2>2
<1>4. NameAt(b, dst) = NameAt(b, p)
  <2>1. b \in Buffer /\ p \in 1..Len(b)
    BY <1>1
  <2>2. b[p].kind = "pointer" => NameAt(b, p) = NameAt(b, b[p].to)
    BY <2>1, ReadName
  <2> HIDE DEF b
  <2> QED  BY <1>3, <2>2
<1> HIDE DEF dst, v
<1>5. CASE dst \in Range(st)
  <2>1. v = w
    BY <1>2, <1>5
  <2>2. PICK i \in 1..S : st[i] = dst
    BY <1>1, <1>5 DEF Range
  <2>3. \E j \in 1..S : NameAt(b, st[j]) = NameAt(b, p)
    BY <1>4, <2>2
  <2> QED  BY <2>1, <2>3 DEF Remembers, v
<1>6. CASE dst \notin Range(st)
  <2>1. v = [buffer |-> b, starts |-> sp]
    <3>1. v = [w EXCEPT !.starts = Append(@, p)]
      BY <1>2, <1>6
    <3> HIDE DEF b, st
    <3> QED  BY <1>1, <3>1
  <2>2. /\ sp \in Seq(Nat) /\ Len(sp) = S + 1 /\ sp[S + 1] = p
        /\ \A i \in 1..S : sp[i] = st[i]
    <3>1. st \in Seq(Nat) /\ p \in Nat
      BY <1>1, <1>3
    <3> HIDE DEF st
    <3> QED  BY <3>1, AppendProperties
  <2> HIDE DEF b, st, sp
  <2>3. v.buffer = b /\ v.starts = sp
    BY <2>1
  <2>4. \A j \in 1..(S + 1) : j = S + 1 \/ j \in 1..S
    BY <1>1
  <2>5. S + 1 \in 1..(S + 1) /\ \A i \in 1..S : i \in 1..(S + 1)
    BY <1>1
  <2>6. p \in 1..Len(b)
    BY DEF b
  <2> HIDE DEF S
  <2>7. \A j \in 1..Len(sp) : sp[j] \in 1..Len(b)
    BY <1>1, <2>2, <2>4, <2>6
  <2>8. GoodWriter(v)
    <3>1. v \in [buffer : Buffer, starts : Seq(Nat)]
      BY <1>1, <2>1, <2>2
    <3> QED  BY <2>3, <2>7, <3>1 DEF GoodWriter
  <2>9. \E j \in 1..Len(sp) : NameAt(b, sp[j]) = NameAt(b, p)
    BY <2>2, <2>5
  <2>10. \A i \in 1..S : \E j \in 1..Len(sp) : sp[j] = st[i]
    BY <2>2, <2>5
  <2>11. \A j \in 1..Len(sp) : sp[j] = p \/ \E i \in 1..S : sp[j] = st[i]
    BY <2>2, <2>4
  <2>12. Remembers(w, v, p)
    BY <2>3, <2>8, <2>9, <2>10, <2>11 DEF Remembers, b, st, S
  <2> QED  BY <2>12 DEF v
<1> QED  BY <1>5, <1>6

\* The starts are still good when the buffer has grown, and name what they did.
LEMMA WriterGrows ==
    ASSUME NEW w, GoodWriter(w), NEW c, Grown(w.buffer, c)
    PROVE  /\ GoodWriter([buffer |-> c, starts |-> w.starts])
           /\ \A i \in 1..Len(w.starts) :
                NameAt(c, w.starts[i]) = NameAt(w.buffer, w.starts[i])
<1> DEFINE b == w.buffer
           st == w.starts
           v == [buffer |-> c, starts |-> st]
<1>1. /\ b \in Buffer /\ c \in Buffer /\ st \in Seq(Nat) /\ Len(b) <= Len(c)
      /\ \A i \in 1..Len(st) : st[i] \in 1..Len(b)
  BY DEF GoodWriter, Grown
<1>2. Len(b) \in Nat /\ Len(c) \in Nat
  BY <1>1, BufferParts
<1>3. Grown(b, c)
  OBVIOUS
<1> HIDE DEF b, st
<1>4. ASSUME NEW i \in 1..Len(st)
      PROVE  st[i] \in 1..Len(c) /\ NameAt(c, st[i]) = NameAt(b, st[i])
  <2>1. st[i] \in 1..Len(b)
    BY <1>1
  <2>2. NameAt(c, st[i]) = NameAt(b, st[i])
    BY <1>3, <2>1, NameKept
  <2>3. st[i] \in 1..Len(c)
    BY <1>1, <1>2, <2>1
  <2> QED  BY <2>2, <2>3
<1>5. GoodWriter(v)
  <2>1. v.buffer = c /\ v.starts = st /\ v \in [buffer : Buffer, starts : Seq(Nat)]
    BY <1>1
  <2> HIDE DEF v
  <2> QED  BY <1>4, <2>1 DEF GoodWriter
<1> QED  BY <1>4, <1>5 DEF b, st

-----------------------------------------------------------------------------
(* Pieces of records.                                                      *)

\* What may be written next.
IsPiece(w, x) ==
    \/ x.kind = "name" /\ x.labels \in Seq(Label)
    \/ x \in Cell /\ x.kind = "pointer" /\ Readable(w.buffer, x.to)
    \/ x \in Cell /\ x.kind \in {"fixed", "rdlength"}

\* The name that a piece stands for.
PieceName(w, x) == IF x.kind = "name" THEN x.labels ELSE NameAt(w.buffer, x.to)

\* v is w with the piece x behind it.
PieceWritten(w, v, x) ==
    /\ GoodWriter(v) /\ Grown(w.buffer, v.buffer) /\ Len(w.buffer) < Len(v.buffer)
    /\ \A i \in 1..Len(w.buffer) : v.buffer[i] = w.buffer[i]
    /\ \A i \in 1..Len(w.starts) : \E j \in 1..Len(v.starts) : v.starts[j] = w.starts[i]
    /\ \A j \in 1..Len(v.starts) :
         \/ \E i \in 1..Len(w.starts) : v.starts[j] = w.starts[i]
         \/ /\ x.kind \in {"name", "pointer"}
            /\ NameAt(v.buffer, v.starts[j]) = AsRead(PieceName(w, x))
    /\ x.kind \in {"name", "pointer"} =>
         /\ PieceName(w, x) \in Seq(Label)
         /\ Known(v, AsRead(PieceName(w, x)))
         /\ WroteName(w.buffer, v.buffer, PieceName(w, x))
         /\ Known(w, PieceName(w, x)) /\ PieceName(w, x) \in Seq(Proper) =>
              v.buffer[Len(w.buffer) + 1].kind # "label"
    /\ x.kind # "name" => Len(v.buffer) = Len(w.buffer) + 1 /\ v.buffer[Len(v.buffer)] = x

\* A single cell behind the buffer.
LEMMA CellPut ==
    ASSUME NEW b \in Buffer, NEW x \in Cell, x.kind # "label",
           x.kind = "pointer" => x.to \in 1..Len(b)
    PROVE  /\ Grown(b, Append(b, x)) /\ Len(b) \in Nat /\ Len(Append(b, x)) = Len(b) + 1
           /\ \A i \in 1..Len(b) : Append(b, x)[i] = b[i]
           /\ Append(b, x)[Len(b) + 1] = x
<1> DEFINE ms == << >>
<1>1. ms \in Seq(Cell) /\ Len(ms) = 0
  OBVIOUS
<1>2. b \in Seq(Cell) /\ Len(b) \in Nat
  BY BufferParts
<1>3. b \o ms = b
  BY <1>2, ConcatEmptySeq
<1> HIDE DEF ms
<1>4. MayFollow(b, ms, x)
  BY <1>1 DEF MayFollow
<1>5. Extended(b, ms, x, Append(b \o ms, x))
  BY <1>4, BufferExtended
<1>6. Extended(b, ms, x, Append(b, x))
  BY <1>3, <1>5
<1> DEFINE c == Append(b, x)
<1> HIDE DEF c
<1>7. /\ Grown(b, c) /\ Len(c) = Len(b) + Len(ms) + 1
      /\ \A i \in 1..Len(b) : c[i] = b[i]
      /\ c[Len(c)] = x
  BY <1>6 DEF Extended, c
<1>8. Len(c) = Len(b) + 1
  BY <1>1, <1>2, <1>7
<1> QED  BY <1>2, <1>7, <1>8 DEF c

\* WritePiece writes the piece.
LEMMA PieceIsWritten ==
    ASSUME NEW w, GoodWriter(w), NEW x, IsPiece(w, x)
    PROVE  PieceWritten(w, WritePiece(w, x), x)
<1> DEFINE b == w.buffer
           st == w.starts
           v == WritePiece(w, x)
           n == PieceName(w, x)
<1>1. w = [buffer |-> b, starts |-> st] /\ b \in Buffer /\ Len(b) \in Nat
  <2>1. w = [buffer |-> b, starts |-> st] /\ b \in Buffer
    BY DEF GoodWriter
  <2> QED  BY <2>1, BufferParts
<1>2. ASSUME NEW c, NEW p, x.kind \in {"name", "pointer"}, n \in Seq(Label),
             WroteName(b, c, n), p \in 1..Len(c),
             NameAt(c, p) = AsRead(n), v = AddLabelForCompression([buffer |-> c, starts |-> st], p),
             Known(w, n) /\ n \in Seq(Proper) => c[Len(b) + 1].kind # "label",
             x.kind # "name" => Len(c) = Len(b) + 1 /\ c[Len(c)] = x
      PROVE  PieceWritten(w, v, x)
  <2> DEFINE u == [buffer |-> c, starts |-> st]
  <2>1. Grown(b, c) /\ Len(b) < Len(c) /\ \A i \in 1..Len(b) : c[i] = b[i]
    BY <1>2 DEF WroteName
  <2>2. GoodWriter(u) /\ u.buffer = c /\ u.starts = st
    <3>1. GoodWriter(u)
      BY <2>1, WriterGrows
    <3> QED  BY <3>1
  <2>3. v = AddLabelForCompression(u, p)
    BY <1>2
  <2> HIDE DEF u
  <2>4. Remembers(u, v, p)
    <3>1. p \in 1..Len(u.buffer)
      BY <1>2, <2>2
    <3>2. Remembers(u, AddLabelForCompression(u, p), p)
      BY <2>2, <3>1, LabelRemembered
    <3> HIDE DEF v
    <3> QED  BY <2>3, <3>2
  <2> HIDE DEF v, n
  <2>5. /\ GoodWriter(v) /\ v.buffer = c
        /\ \E j \in 1..Len(v.starts) : NameAt(v.buffer, v.starts[j]) = AsRead(n)
        /\ \A i \in 1..Len(st) : \E j \in 1..Len(v.starts) : v.starts[j] = st[i]
        /\ \A j \in 1..Len(v.starts) : \/ v.starts[j] = p
                                       \/ \E i \in 1..Len(st) : v.starts[j] = st[i]
    <3> HIDE DEF st, b
    <3>1. NameAt(c, p) = AsRead(n)
      BY <1>2
    <3> QED  BY <2>2, <2>4, <3>1 DEF Remembers
  <2>6. Known(v, AsRead(n))
    BY <2>5 DEF Known
  <2>7. \A j \in 1..Len(v.starts) :
          \/ \E i \in 1..Len(st) : v.starts[j] = st[i]
          \/ x.kind \in {"name", "pointer"} /\ NameAt(v.buffer, v.starts[j]) = AsRead(n)
    <3> HIDE DEF st, b
    <3> QED  BY <1>2, <2>5
  <2> QED  BY <1>2, <2>1, <2>5, <2>6, <2>7 DEF PieceWritten, n
<1>3. CASE x.kind = "name" /\ x.labels \in Seq(Label)
  <2> DEFINE u == WriteFragments(w, x.labels)
             c == u.buffer
             p == Len(b) + 1
  <2>1. WroteName(b, c, x.labels) /\ u = [buffer |-> c, starts |-> st]
        /\ (Known(w, x.labels) /\ x.labels \in Seq(Proper) => c[Len(b) + 1].kind # "label")
    <3>1. x.labels \in Seq(Label)
      BY <1>3
    <3> QED  BY <3>1, FragmentsWritten
  <2>2. v = AddLabelForCompression(u, p)
    BY <1>3 DEF WritePiece, WriteDomainName
  <2>3. n = x.labels
    BY <1>3 DEF PieceName
  <2> HIDE DEF u, c, n, v
  <2>4. NameAt(c, p) = AsRead(n)
    BY <2>1, <2>3 DEF WroteName
  <2>5. p \in 1..Len(c)
    <3>1. Len(c) \in Nat /\ Len(b) < Len(c)
      <4>1. c \in Buffer /\ Len(b) < Len(c)
        BY <2>1 DEF WroteName, Grown
      <4> QED  BY <4>1, BufferParts
    <3> QED  BY <1>1, <3>1
  <2>6. v = AddLabelForCompression([buffer |-> c, starts |-> st], p)
    <3> HIDE DEF b, st, p
    <3> QED  BY <2>1, <2>2
  <2>7. x.kind \in {"name", "pointer"} /\ WroteName(b, c, n) /\ n \in Seq(Label)
        /\ (Known(w, n) /\ n \in Seq(Proper) => c[Len(b) + 1].kind # "label")
    BY <1>3, <2>1, <2>3
  <2>8. PieceWritten(w, v, x)
    <3> HIDE DEF b, st, p
    <3>1. x.kind # "name" => Len(c) = Len(b) + 1 /\ c[Len(c)] = x
      BY <1>3
    <3> QED  BY <1>2, <2>4, <2>5, <2>6, <2>7, <3>1 DEF b, p
  <2> QED  BY <2>8 DEF v
<1>4. ASSUME x \in Cell, x.kind # "label", x.kind = "pointer" => x.to \in 1..Len(b)
      PROVE  /\ Put(w, x) = [buffer |-> Append(b, x), starts |-> st]
             /\ Grown(b, Append(b, x)) /\ Len(Append(b, x)) = Len(b) + 1
             /\ \A i \in 1..Len(b) : Append(b, x)[i] = b[i]
             /\ Append(b, x)[Len(b) + 1] = x
  <2>1. Put(w, x) = [buffer |-> Append(b, x), starts |-> st]
    <3>1. Put(w, x) = [w EXCEPT !.buffer = Append(@, x)]
      BY DEF Put
    <3> HIDE DEF b, st
    <3> QED  BY <1>1, <3>1
  <2> QED  BY <1>1, <1>4, <2>1, CellPut
<1>5. CASE x \in Cell /\ x.kind = "pointer" /\ Readable(w.buffer, x.to)
  <2> DEFINE c == Append(b, x)
             p == x.to
  <2>1. p \in 1..Len(b) /\ NameAt(b, p) \in Seq(Proper)
    BY <1>5 DEF Readable
  <2>2. /\ Put(w, x) = [buffer |-> c, starts |-> st]
        /\ Grown(b, c) /\ Len(c) = Len(b) + 1
        /\ \A i \in 1..Len(b) : c[i] = b[i]
        /\ c[Len(b) + 1] = x
    BY <1>4, <1>5, <2>1
  <2>3. v = AddLabelForCompression(Put(w, x), p)
    BY <1>5 DEF WritePiece
  <2>4. n = NameAt(b, p)
    BY <1>5 DEF PieceName
  <2>11. n \in Seq(Proper) /\ n \in Seq(Label) /\ AsRead(n) = n
    <3> HIDE DEF n
    <3>1. n \in Seq(Proper) /\ n \in Seq(Label)
      BY <2>1, <2>4, ProperIsLabel
    <3> QED  BY <3>1, AsReadFacts
  <2> HIDE DEF c, n, v
  <2>5. NameAt(c, p) = n
    BY <2>1, <2>2, <2>4, NameKept
  <2>6. c \in Buffer /\ Len(c) \in 1..Len(c) /\ p \in 1..Len(c)
    <3>1. c \in Buffer
      BY <2>2 DEF Grown
    <3> HIDE DEF b
    <3> QED  BY <1>1, <2>1, <2>2, <3>1
  <2>7. NameAt(c, Len(b) + 1) = n
    <3>1. c[Len(c)].kind = "pointer" => NameAt(c, Len(c)) = NameAt(c, c[Len(c)].to)
      BY <2>6, ReadName
    <3> QED  BY <1>5, <2>2, <2>5, <3>1
  <2>8. WroteName(b, c, n)
    <3>1. /\ (Len(b) + 1)..(Len(c) - 1) = {} /\ Len(b) < Len(c)
          /\ \A i \in (Len(b) + 1)..Len(c) : i = Len(b) + 1
      <4> HIDE DEF b
      <4> QED  BY <1>1, <2>2
    <3> QED  BY <1>5, <2>2, <2>7, <2>11, <3>1 DEF WroteName
  <2>9. p \in 1..Len(c)
    BY <2>6
  <2>10. PieceWritten(w, v, x)
    <3>1. v = AddLabelForCompression([buffer |-> c, starts |-> st], p)
      <4> HIDE DEF b, st, p
      <4> QED  BY <2>2, <2>3
    <3>2. x.kind # "name" => Len(c) = Len(b) + 1 /\ c[Len(c)] = x
      BY <2>2
    <3>3. Known(w, n) /\ n \in Seq(Proper) => c[Len(b) + 1].kind # "label"
      BY <1>5, <2>2
    <3> HIDE DEF b, st, p
    <3> QED  BY <1>2, <1>5, <2>5, <2>8, <2>9, <2>11, <3>1, <3>2, <3>3 DEF b
  <2> QED  BY <2>10 DEF v
<1>6. CASE x \in Cell /\ x.kind \in {"fixed", "rdlength"}
  <2> DEFINE c == Append(b, x)
  <2>1. /\ Put(w, x) = [buffer |-> c, starts |-> st]
        /\ Grown(b, c) /\ Len(c) = Len(b) + 1
        /\ \A i \in 1..Len(b) : c[i] = b[i]
        /\ c[Len(b) + 1] = x
    BY <1>4, <1>6
  <2>2. v = Put(w, x)
    BY <1>6 DEF WritePiece
  <2>3. GoodWriter([buffer |-> c, starts |-> st])
    BY <2>1, WriterGrows
  <2> HIDE DEF c, v
  <2>4. GoodWriter(v) /\ v.buffer = c /\ v.starts = st
    <3> HIDE DEF b, st
    <3> QED  BY <2>1, <2>2, <2>3
  <2>5. Len(b) < Len(c)
    <3> HIDE DEF b
    <3> QED  BY <1>1, <2>1
  <2>6. PieceWritten(w, v, x)
    BY <1>6, <2>1, <2>4, <2>5 DEF PieceWritten
  <2> QED  BY <2>6 DEF v
<1> QED  BY <1>3, <1>5, <1>6 DEF IsPiece

\* A buffer that does not change.
LEMMA GrownSame ==
    ASSUME NEW b \in Buffer
    PROVE  Grown(b, b)
<1>1. Len(b) \in Nat
  BY BufferParts
<1> QED  BY <1>1 DEF Grown

\* A piece may still be written later.
LEMMA PieceLater ==
    ASSUME NEW w, NEW v, NEW x, IsPiece(w, x), Grown(w.buffer, v.buffer)
    PROVE  IsPiece(v, x)
<1> DEFINE b == w.buffer
           c == v.buffer
<1>1. b \in Buffer /\ c \in Buffer /\ Len(b) <= Len(c) /\ Grown(b, c)
  BY DEF Grown
<1>2. Len(b) \in Nat /\ Len(c) \in Nat
  BY <1>1, BufferParts
<1> HIDE DEF b, c
<1>3. ASSUME Readable(b, x.to) PROVE Readable(c, x.to)
  <2>1. x.to \in 1..Len(b)
    BY <1>3 DEF Readable
  <2>2. x.to \in 1..Len(c)
    BY <1>1, <1>2, <2>1
  <2>3. NameAt(c, x.to) = NameAt(b, x.to)
    BY <1>1, <2>1, NameKept
  <2> QED  BY <1>3, <2>2, <2>3 DEF Readable
<1> QED  BY <1>3 DEF IsPiece, b, c

\* f[i] is w with the first i pieces behind it.
Runs(f, w, pieces) ==
    /\ f[0] = w
    /\ \A i \in 0..Len(pieces) : GoodWriter(f[i]) /\ Grown(w.buffer, f[i].buffer)
    /\ \A i \in 1..Len(pieces) : PieceWritten(f[i - 1], f[i], pieces[i])

\* WritePieces writes the pieces, one after the other.
LEMMA PiecesWritten ==
    ASSUME NEW w, GoodWriter(w), NEW pieces, Len(pieces) \in Nat,
           \A i \in 1..Len(pieces) : IsPiece(w, pieces[i])
    PROVE  \E f : Runs(f, w, pieces) /\ WritePieces(w, pieces) = f[Len(pieces)]
<1> DEFINE N == Len(pieces)
           W == [buffer : Buffer, starts : Seq(Nat)]
           T == {v \in W : GoodWriter(v) /\ Grown(w.buffer, v.buffer)}
           g == [x \in (1..N) \X T |-> WritePiece(x[2], pieces[x[1]])]
           Def(f) == [i \in 0..N |-> IF i = 0 THEN w ELSE WritePiece(f[i - 1], pieces[i])]
           after == CHOOSE f : f = Def(f)
<1>1. N \in Nat
  OBVIOUS
<1>2. w \in T
  <2>1. w \in W /\ w.buffer \in Buffer
    BY DEF GoodWriter
  <2>2. Grown(w.buffer, w.buffer)
    BY <2>1, GrownSame
  <2> QED  BY <2>1, <2>2
<1>3. ASSUME NEW i \in 1..N, NEW v \in T
      PROVE  WritePiece(v, pieces[i]) \in T /\ PieceWritten(v, WritePiece(v, pieces[i]), pieces[i])
  <2> DEFINE x == pieces[i]
             u == WritePiece(v, x)
  <2>1. GoodWriter(v) /\ Grown(w.buffer, v.buffer) /\ IsPiece(w, x)
    OBVIOUS
  <2> HIDE DEF x
  <2>2. IsPiece(v, x)
    BY <2>1, PieceLater
  <2>3. PieceWritten(v, u, x)
    BY <2>1, <2>2, PieceIsWritten
  <2> HIDE DEF u
  <2>4. GoodWriter(u) /\ Grown(v.buffer, u.buffer)
    BY <2>3 DEF PieceWritten
  <2>5. Grown(w.buffer, u.buffer)
    BY <2>1, <2>4, GrownMore
  <2>6. u \in W
    BY <2>4 DEF GoodWriter
  <2>7. u \in T /\ PieceWritten(v, u, x)
    BY <2>3, <2>4, <2>5, <2>6
  <2> QED  BY <2>7 DEF u, x
<1>4. \E f : f = Def(f)
  <2>1. IsStep(g, N, T)
    <3> HIDE DEF T, N
    <3> QED  BY <1>3 DEF IsStep
  <2>2. PICK f : Steps(f, N, T, w, g)
    <3> HIDE DEF T, N, g
    <3> QED  BY <1>1, <1>2, <2>1, CountingUp
  <2>3. f \in [0..N -> T] /\ f[0] = w /\ \A i \in 1..N : f[i] = g[<<i, f[i - 1]>>]
    <3> HIDE DEF T, N, g
    <3> QED  BY <2>2 DEF Steps
  <2>4. ASSUME NEW i \in 1..N PROVE f[i] = WritePiece(f[i - 1], pieces[i])
    <3>1. i - 1 \in 0..N
      BY <1>1
    <3> HIDE DEF T, N
    <3>2. f[i - 1] \in T
      BY <2>3, <3>1
    <3> QED  BY <2>3, <3>2
  <2>5. \A i \in 0..N : i # 0 => i \in 1..N
    BY <1>1
  <2>6. f = Def(f)
    <3> HIDE DEF T, N
    <3>1. \A i \in 0..N : f[i] = IF i = 0 THEN w ELSE WritePiece(f[i - 1], pieces[i])
      BY <2>3, <2>4, <2>5
    <3> QED  BY <2>3, <3>1
  <2> HIDE DEF Def
  <2> QED  BY <2>6
<1>5. after = Def(after)
  <2> HIDE DEF Def
  <2> QED  BY <1>4
<1>6. WritePieces(w, pieces) = after[N]
  BY DEF WritePieces
<1> HIDE DEF after
<1>7. after[0] = w /\ \A i \in 1..N : after[i] = WritePiece(after[i - 1], pieces[i])
  <2>1. \A i \in 0..N : after[i] = IF i = 0 THEN w ELSE WritePiece(after[i - 1], pieces[i])
    <3> HIDE DEF N
    <3> QED  BY <1>5
  <2>2. 0 \in 0..N /\ \A i \in 1..N : i \in 0..N /\ i # 0
    BY <1>1
  <2> HIDE DEF N
  <2> QED  BY <2>1, <2>2
<1>8. \A i \in 0..N : after[i] \in T
  <2> DEFINE U == {i \in 0..N : after[i] \in T}
  <2>1. 0 \in U
    <3>1. 0 \in 0..N
      BY <1>1
    <3> HIDE DEF T, N
    <3> QED  BY <1>2, <1>7, <3>1
  <2>2. ASSUME NEW i \in 1..N, i - 1 \in U PROVE i \in U
    <3>1. i \in 0..N
      BY <1>1
    <3> HIDE DEF T, N
    <3> QED  BY <1>3, <1>7, <2>2, <3>1
  <2>3. 0..N \subseteq U
    <3> HIDE DEF U, N
    <3> QED  BY <1>1, <2>1, <2>2, BoundedInduction
  <2> QED  BY <2>3
<1>9. \A i \in 1..N : PieceWritten(after[i - 1], after[i], pieces[i])
  <2> TAKE i \in 1..N
  <2>1. i - 1 \in 0..N
    BY <1>1
  <2> HIDE DEF T, N
  <2> QED  BY <1>3, <1>7, <1>8, <2>1
<1>10. Runs(after, w, pieces)
  BY <1>7, <1>8, <1>9 DEF Runs
<1> QED  BY <1>6, <1>10

-----------------------------------------------------------------------------
(* From one piece to a later one.                                          *)

\* v has all that u has.
Carried(u, v) ==
    /\ GoodWriter(u) /\ GoodWriter(v) /\ Grown(u.buffer, v.buffer)
    /\ \A i \in 1..Len(u.buffer) : v.buffer[i] = u.buffer[i]
    /\ \A i \in 1..Len(u.starts) : \E j \in 1..Len(v.starts) : v.starts[j] = u.starts[i]

\* Nothing is lost on the way to a later writer, names that are known included.
LEMMA CarriedFacts ==
    /\ \A u : GoodWriter(u) => Carried(u, u)
    /\ \A u, v, x : GoodWriter(u) /\ PieceWritten(u, v, x) => Carried(u, v)
    /\ \A u, v, w : Carried(u, v) /\ Carried(v, w) => Carried(u, w)
    /\ \A u, v, n : Carried(u, v) /\ Known(u, n) => Known(v, n)
    /\ \A u, v : Carried(u, v) => \A p \in 1..Len(u.buffer) :
                                    NameAt(v.buffer, p) = NameAt(u.buffer, p)
    /\ \A u, v : Carried(u, v) => Len(u.buffer) \in Nat /\ Len(v.buffer) \in Nat
                                  /\ Len(u.buffer) <= Len(v.buffer)
<1>1. \A u : GoodWriter(u) => u.buffer \in Buffer
  BY DEF GoodWriter
<1>2. \A u : GoodWriter(u) => Carried(u, u)
  <2> TAKE u
  <2> HAVE GoodWriter(u)
  <2>1. Grown(u.buffer, u.buffer)
    BY <1>1, GrownSame
  <2> QED  BY <2>1 DEF Carried
<1>3. \A u, v, x : GoodWriter(u) /\ PieceWritten(u, v, x) => Carried(u, v)
  BY DEF Carried, PieceWritten
<1>4. \A u, v : Carried(u, v) => Len(u.buffer) \in Nat /\ Len(v.buffer) \in Nat
                                 /\ Len(u.buffer) <= Len(v.buffer)
  <2> TAKE u, v
  <2> HAVE Carried(u, v)
  <2>1. u.buffer \in Buffer /\ v.buffer \in Buffer /\ Len(u.buffer) <= Len(v.buffer)
    BY DEF Carried, Grown
  <2> QED  BY <2>1, BufferParts
<1>5. \A u, v : Carried(u, v) => \A p \in 1..Len(u.buffer) :
                                   NameAt(v.buffer, p) = NameAt(u.buffer, p)
  <2> TAKE u, v
  <2> HAVE Carried(u, v)
  <2> TAKE p \in 1..Len(u.buffer)
  <2>1. Grown(u.buffer, v.buffer)
    BY DEF Carried
  <2> QED  BY <2>1, NameKept
<1>6. \A u, v, w : Carried(u, v) /\ Carried(v, w) => Carried(u, w)
  <2> TAKE u, v, w
  <2> HAVE Carried(u, v) /\ Carried(v, w)
  <2>1. Grown(u.buffer, w.buffer)
    <3>1. Grown(u.buffer, v.buffer) /\ Grown(v.buffer, w.buffer)
      BY DEF Carried
    <3> QED  BY <3>1, GrownMore
  <2>2. ASSUME NEW i \in 1..Len(u.buffer) PROVE w.buffer[i] = u.buffer[i]
    <3>1. i \in 1..Len(v.buffer)
      BY <1>4
    <3> QED  BY <3>1 DEF Carried
  <2>3. ASSUME NEW i \in 1..Len(u.starts)
        PROVE  \E j \in 1..Len(w.starts) : w.starts[j] = u.starts[i]
    <3>1. PICK k \in 1..Len(v.starts) : v.starts[k] = u.starts[i]
      BY DEF Carried
    <3>2. PICK j \in 1..Len(w.starts) : w.starts[j] = v.starts[k]
      BY DEF Carried
    <3> QED  BY <3>1, <3>2
  <2> QED  BY <2>1, <2>2, <2>3 DEF Carried
<1>7. \A u, v, n : Carried(u, v) /\ Known(u, n) => Known(v, n)
  <2> TAKE u, v, n
  <2> HAVE Carried(u, v) /\ Known(u, n)
  <2>1. PICK i \in 1..Len(u.starts) : NameAt(u.buffer, u.starts[i]) = n
    BY DEF Known
  <2>2. u.starts[i] \in 1..Len(u.buffer)
    BY DEF Carried, GoodWriter, Readable
  <2>3. NameAt(v.buffer, u.starts[i]) = n
    BY <1>5, <2>1, <2>2
  <2>4. PICK j \in 1..Len(v.starts) : v.starts[j] = u.starts[i]
    BY DEF Carried
  <2> QED  BY <2>3, <2>4 DEF Known
<1> QED  BY <1>2, <1>3, <1>4, <1>5, <1>6, <1>7

\* A run carries everything on, and starts are added for its names only.
LEMMA RunCarries ==
    ASSUME NEW f, NEW w, NEW pieces, Runs(f, w, pieces), Len(pieces) \in Nat
    PROVE  /\ \A i \in 0..Len(pieces) : \A j \in i..Len(pieces) : Carried(f[i], f[j])
           /\ \A i \in 0..Len(pieces) : Carried(w, f[i])
<1> DEFINE N == Len(pieces)
<1>0. /\ N \in Nat /\ f[0] = w /\ \A i \in 0..N : GoodWriter(f[i])
      /\ \A i \in 1..N : PieceWritten(f[i - 1], f[i], pieces[i])
  BY DEF Runs
<1>1. \A i \in 1..N : Carried(f[i - 1], f[i])
  <2> TAKE i \in 1..N
  <2>1. i - 1 \in 0..N
    BY <1>0
  <2> HIDE DEF N
  <2> QED  BY <1>0, <2>1, CarriedFacts
<1>2. ASSUME NEW i \in 0..N PROVE \A j \in i..N : Carried(f[i], f[j])
  <2> DEFINE U == {j \in 0..N : i <= j => Carried(f[i], f[j])}
  <2>1. 0 \in U
    <3>1. 0 \in 0..N /\ (i <= 0 => i = 0)
      BY <1>0
    <3> HIDE DEF N
    <3> QED  BY <1>0, <3>1, CarriedFacts
  <2>2. ASSUME NEW j \in 1..N, j - 1 \in U PROVE j \in U
    <3>1. j \in 0..N /\ (i <= j => i = j \/ i <= j - 1)
      BY <1>0
    <3> HIDE DEF N
    <3>2. Carried(f[j], f[j]) /\ Carried(f[j - 1], f[j])
      BY <1>0, <1>1, <3>1, CarriedFacts
    <3>3. i <= j - 1 => Carried(f[i], f[j])
      BY <2>2, <3>2, CarriedFacts
    <3> QED  BY <3>1, <3>2, <3>3
  <2>3. 0..N \subseteq U
    <3> HIDE DEF U, N
    <3> QED  BY <1>0, <2>1, <2>2, BoundedInduction
  <2>4. \A j \in i..N : j \in 0..N /\ i <= j
    BY <1>0
  <2> HIDE DEF N
  <2> QED  BY <2>3, <2>4
<1>3. \A i \in 0..N : Carried(w, f[i])
  <2>1. 0 \in 0..N /\ \A i \in 0..N : i \in 0..N
    BY <1>0
  <2> HIDE DEF N
  <2> QED  BY <1>0, <1>2, <2>1
<1> QED  BY <1>2, <1>3

IsNamePiece(x) == x.kind \in {"name", "pointer"}

\* The name that is piece k of a run can be read in the end, is known afterwards, and was
\* written without a label if it was known before.
RunName(f, w, P, v, k) ==
    LET p == Len(f[k - 1].buffer) + 1
        n == PieceName(w, P[k])
    IN  /\ p \in 1..Len(v.buffer) /\ n \in Seq(Label)
        /\ NameAt(v.buffer, p) = AsRead(n)
        /\ Known(f[k], AsRead(n))
        /\ Known(f[k - 1], n) /\ n \in Seq(Proper) => v.buffer[p].kind # "label"
        /\ WroteName(f[k - 1].buffer, f[k].buffer, n)

\* A start is an old one or one of the names.
RunStart(w, P, v, s) ==
    \/ \E i \in 1..Len(w.starts) : v.starts[s] = w.starts[i]
    \/ \E k \in 1..Len(P) :
         IsNamePiece(P[k]) /\ NameAt(v.buffer, v.starts[s]) = AsRead(PieceName(w, P[k]))

\* So it is for every name of a run and every start.
LEMMA RunNames ==
    ASSUME NEW f, NEW w, NEW pieces, Runs(f, w, pieces), Len(pieces) \in Nat,
           \A i \in 1..Len(pieces) : IsPiece(w, pieces[i]),
           NEW v, v = f[Len(pieces)]
    PROVE  /\ \A k \in 1..Len(pieces) : IsNamePiece(pieces[k]) => RunName(f, w, pieces, v, k)
           /\ \A s \in 1..Len(v.starts) : RunStart(w, pieces, v, s)
<1> DEFINE N == Len(pieces)
           P == pieces
<1>0. /\ N \in Nat /\ f[0] = w /\ \A i \in 0..N : GoodWriter(f[i])
      /\ \A i \in 1..N : PieceWritten(f[i - 1], f[i], P[i])
  BY DEF Runs
<1>1. /\ \A i \in 0..N : \A j \in i..N : Carried(f[i], f[j])
      /\ \A i \in 0..N : Carried(w, f[i])
  BY RunCarries
<1>2. \A k \in 1..N : k - 1 \in 0..N /\ k \in 0..N /\ N \in k..N /\ N \in 0..N
  BY <1>0
<1>3. ASSUME NEW k \in 1..N, IsNamePiece(P[k])
      PROVE  PieceName(f[k - 1], P[k]) = PieceName(w, P[k])
  <2>1. CASE P[k].kind = "name"
    BY <2>1 DEF PieceName
  <2>2. CASE P[k].kind # "name" /\ P[k].kind = "pointer"
    <3>1. P[k].to \in 1..Len(w.buffer)
      BY <2>2 DEF IsPiece, Readable
    <3>2. Carried(w, f[k - 1])
      BY <1>1, <1>2
    <3>3. NameAt(f[k - 1].buffer, P[k].to) = NameAt(w.buffer, P[k].to)
      BY <3>1, <3>2, CarriedFacts
    <3> QED  BY <2>2, <3>3 DEF PieceName
  <2> QED  BY <1>3, <2>1, <2>2 DEF IsNamePiece
<1>4. ASSUME NEW k \in 1..N, IsNamePiece(P[k])
      PROVE  RunName(f, w, P, v, k)
  <2> DEFINE u == f[k - 1]
             t == f[k]
             n == PieceName(w, P[k])
             p == Len(u.buffer) + 1
  <2>1. /\ Known(t, AsRead(n)) /\ WroteName(u.buffer, t.buffer, n) /\ n \in Seq(Label)
        /\ Known(u, n) /\ n \in Seq(Proper) => t.buffer[Len(u.buffer) + 1].kind # "label"
    <3>1. PieceWritten(u, t, P[k]) /\ PieceName(u, P[k]) = n
      BY <1>0, <1>3, <1>4
    <3> HIDE DEF u, t, n
    <3> QED  BY <1>4, <3>1 DEF PieceWritten, IsNamePiece
  <2>2. Carried(u, t) /\ Carried(t, v)
    BY <1>1, <1>2, CarriedFacts
  <2> HIDE DEF u, t, n
  <2>3. /\ Len(u.buffer) < Len(t.buffer) /\ Len(u.buffer) \in Nat /\ Len(t.buffer) \in Nat
        /\ Len(v.buffer) \in Nat /\ Len(t.buffer) <= Len(v.buffer)
    BY <2>1, <2>2, CarriedFacts DEF WroteName
  <2>4. p \in 1..Len(t.buffer) /\ p \in 1..Len(v.buffer)
    BY <2>3
  <2>5. NameAt(t.buffer, p) = AsRead(n)
    BY <2>1 DEF WroteName
  <2>6. NameAt(v.buffer, p) = AsRead(n)
    BY <2>2, <2>4, <2>5, CarriedFacts
  <2>7. v.buffer[p] = t.buffer[p]
    BY <2>2, <2>4 DEF Carried
  <2> QED  BY <2>1, <2>4, <2>6, <2>7 DEF u, t, n, RunName
<1> DEFINE From(i, s) ==
             \/ \E h \in 1..Len(w.starts) : f[i].starts[s] = w.starts[h]
             \/ \E k \in 1..N :
                  /\ IsNamePiece(P[k])
                  /\ NameAt(f[i].buffer, f[i].starts[s]) = AsRead(PieceName(w, P[k]))
           U == {i \in 0..N : \A s \in 1..Len(f[i].starts) : From(i, s)}
<1>5. 0 \in U
  <2>1. \A s \in 1..Len(f[0].starts) : From(0, s)
    BY <1>0
  <2>2. 0 \in 0..N
    BY <1>0
  <2> HIDE DEF From, N
  <2> QED  BY <2>1, <2>2
<1>6. ASSUME NEW i \in 1..N, i - 1 \in U PROVE i \in U
  <2> DEFINE u == f[i - 1]
             t == f[i]
  <2>1. PieceWritten(u, t, P[i]) /\ Carried(u, t) /\ i \in 0..N
    BY <1>0, <1>1, <1>2, CarriedFacts
  <2>2. ASSUME NEW s \in 1..Len(t.starts) PROVE From(i, s)
    <3>1. CASE \E j \in 1..Len(u.starts) : t.starts[s] = u.starts[j]
      <4>1. PICK j \in 1..Len(u.starts) : t.starts[s] = u.starts[j]
        BY <3>1
      <4>2. From(i - 1, j)
        <5> HIDE DEF From
        <5> QED  BY <1>6
      <4>3. NameAt(t.buffer, t.starts[s]) = NameAt(u.buffer, u.starts[j])
        <5>1. u.starts[j] \in 1..Len(u.buffer)
          BY <2>1 DEF Carried, GoodWriter, Readable
        <5> HIDE DEF u, t
        <5> QED  BY <2>1, <4>1, <5>1, CarriedFacts
      <4> HIDE DEF N
      <4> QED  BY <4>1, <4>2, <4>3
    <3>2. CASE P[i].kind \in {"name", "pointer"}
               /\ NameAt(t.buffer, t.starts[s]) = AsRead(PieceName(u, P[i]))
      <4>1. IsNamePiece(P[i])
        BY <3>2 DEF IsNamePiece
      <4>2. NameAt(t.buffer, t.starts[s]) = AsRead(PieceName(w, P[i]))
        <5>1. PieceName(u, P[i]) = PieceName(w, P[i])
          BY <1>3, <4>1
        <5> QED  BY <3>2, <5>1
      <4> HIDE DEF N
      <4> QED  BY <4>1, <4>2
    <3> HIDE DEF From
    <3> QED  BY <2>1, <3>1, <3>2 DEF PieceWritten
  <2> HIDE DEF From, N
  <2> QED  BY <2>1, <2>2
<1>7. 0..N \subseteq U
  <2> HIDE DEF U, N
  <2> QED  BY <1>0, <1>5, <1>6, BoundedInduction
<1>8. \A s \in 1..Len(v.starts) : From(N, s)
  <2>1. N \in 0..N
    BY <1>0
  <2> HIDE DEF From, N
  <2>2. N \in U
    BY <1>7, <2>1
  <2> QED  BY <2>2 DEF N
<1>9. \A s \in 1..Len(v.starts) : RunStart(w, P, v, s)
  BY <1>8 DEF RunStart
<1> QED  BY <1>4, <1>9

-----------------------------------------------------------------------------
(* Finding the rdlength of a record and the end of a name.                 *)

\* RdlengthAt is the first one.
LEMMA RdlengthFound ==
    ASSUME NEW cells, Len(cells) \in Nat, NEW from \in Nat, NEW at \in from..Len(cells),
           cells[at].kind = "rdlength", \A i \in from..(at - 1) : cells[i].kind # "rdlength"
    PROVE  RdlengthAt(cells, from) = at
<1> DEFINE Is(p) == cells[p].kind = "rdlength" /\ \A i \in from..(p - 1) : cells[i].kind # "rdlength"
           x == CHOOSE p \in from..Len(cells) : Is(p)
<1>1. x \in from..Len(cells) /\ Is(x)
  <2>1. Is(at)
    OBVIOUS
  <2> HIDE DEF Is
  <2> QED  BY <2>1
<1>2. RdlengthAt(cells, from) = x
  BY DEF RdlengthAt
<1> HIDE DEF x
<1>3. ~(x < at) /\ ~(at < x)
  BY <1>1
<1> QED  BY <1>1, <1>2, <1>3

\* NameEnd is the place after the first cell that is no label.
LEMMA NameEndFound ==
    ASSUME NEW cells, Len(cells) \in Nat, NEW from \in Nat, NEW at \in from..Len(cells),
           cells[at].kind # "label", \A i \in from..(at - 1) : cells[i].kind = "label"
    PROVE  NameEnd(cells, from) = at + 1
<1> DEFINE Is(p) == cells[p].kind # "label" /\ \A i \in from..(p - 1) : cells[i].kind = "label"
           x == CHOOSE p \in from..Len(cells) : Is(p)
<1>1. x \in from..Len(cells) /\ Is(x)
  <2>1. Is(at)
    OBVIOUS
  <2> HIDE DEF Is
  <2> QED  BY <2>1
<1>2. NameEnd(cells, from) = 1 + x
  BY DEF NameEnd
<1> HIDE DEF x
<1>3. ~(x < at) /\ ~(at < x)
  BY <1>1
<1> QED  BY <1>1, <1>2, <1>3

\* c is b with the length n at the place `at'.
Filled(b, at, n, c) == c = [b EXCEPT ![at] = RdLength(n)]

\* WriteRdlength changes nothing that a reader of names looks at.
LEMMA RdlengthFilled ==
    ASSUME NEW b \in Buffer, NEW at \in 1..Len(b), b[at] = RdLength(0), NEW n \in Nat,
           NEW c, Filled(b, at, n, c)
    PROVE  /\ Grown(b, c) /\ Len(c) = Len(b) /\ c[at] = RdLength(n)
           /\ \A i \in 1..Len(b) : i # at => c[i] = b[i]
<1>1. b \in Seq(Cell) /\ Back(b) /\ Sealed(b) /\ Len(b) \in Nat /\ Len(b) > 0
  BY BufferParts
<1>2. RdLength(n) \in Cell /\ RdLength(n).kind = "rdlength" /\ RdLength(0).kind = "rdlength"
  BY CellTypes
<1>3. RdLength(n).label = RdLength(0).label /\ RdLength(n).to = RdLength(0).to
  BY DEF RdLength, Raw
<1>4. /\ c \in Seq(Cell) /\ Len(c) = Len(b)
      /\ \A i \in 1..Len(b) : c[i] = IF i = at THEN RdLength(n) ELSE b[i]
  <2>1. b \in Seq(Cell) /\ RdLength(n) \in Cell
    BY <1>1, <1>2
  <2> QED  BY <2>1, ExceptSeq DEF Filled
<1>5. \A i \in 1..Len(b) : c[i].kind = b[i].kind /\ c[i].label = b[i].label /\ c[i].to = b[i].to
  <2> TAKE i \in 1..Len(b)
  <2>1. CASE i = at
    <3>1. c[i] = RdLength(n) /\ b[i] = RdLength(0)
      BY <1>4, <2>1
    <3> QED  BY <1>2, <1>3, <3>1
  <2>2. CASE i # at
    <3>1. c[i] = b[i]
      BY <1>4, <2>2
    <3> QED  BY <3>1
  <2> QED  BY <2>1, <2>2
<1>6. Back(c)
  <2>0. \A p \in 1..Len(c) : c[p].kind = "label" => c[p].label \in Proper
    BY <1>1, <1>4, <1>5 DEF Back
  <2> SUFFICES ASSUME NEW p \in 1..Len(c), c[p].kind = "pointer"
               PROVE  c[p].to \in 1..(p - 1) /\ \E e \in c[p].to..(p - 1) : c[e].kind # "label"
    BY <2>0 DEF Back
  <2>1. p \in 1..Len(b) /\ b[p].kind = "pointer" /\ c[p].to = b[p].to
    BY <1>4, <1>5
  <2>2. b[p].to \in 1..(p - 1) /\ \E e \in b[p].to..(p - 1) : b[e].kind # "label"
    BY <1>1, <2>1 DEF Back
  <2>3. PICK e \in b[p].to..(p - 1) : b[e].kind # "label"
    BY <2>2
  <2>4. e \in 1..Len(b)
    BY <1>1, <2>1, <2>2, <2>3
  <2> QED  BY <1>5, <2>1, <2>2, <2>3, <2>4
<1>7. Sealed(c)
  <2>1. Len(b) \in 1..Len(b)
    BY <1>1
  <2> QED  BY <1>1, <1>4, <1>5, <2>1 DEF Sealed
<1>8. c \in Buffer
  BY <1>4, <1>6, <1>7 DEF Buffer
<1>9. Grown(b, c)
  BY <1>1, <1>4, <1>5, <1>8 DEF Grown
<1> QED  BY <1>4, <1>9

-----------------------------------------------------------------------------
(* The pieces of a record.                                                 *)

\* How many pieces of the data come before the names in it.
BeforeHosts(a) == IF a.type = "MX" THEN 1 ELSE 0

\* The pieces d: the names of the hosts, and cells without a name.
DataPieces(a, d) ==
    /\ \E S : d \in Seq(S)
    /\ Len(d) \in 1..3
    /\ \A i \in 1..Len(a.hosts) :
         BeforeHosts(a) + i \in 1..Len(d) /\ d[BeforeHosts(a) + i] = HostPiece(a, i)
    /\ \A k \in 1..Len(d) : \/ \E i \in 1..Len(a.hosts) : k = BeforeHosts(a) + i
                            \/ \E m \in Nat : d[k] = Fixed(m)

\* The parts of a record that may be stored.
LEMMA AnswerParts ==
    ASSUME NEW a \in Answer
    PROVE  /\ a.type \in RType /\ a.owner \in Seq(Label) /\ a.zone \in Seq(Label) /\ a.text \in Nat
           /\ a.hosts \in Seq(Host) /\ Len(a.hosts) \in 0..2
           /\ a.type \in {"CNAME", "NS", "MX"} => Len(a.hosts) = 1
           /\ a.type \in {"A", "AAAA", "TXT"} => Len(a.hosts) = 0
           /\ a.type = "SOA" => Len(a.hosts) \in {1, 2}
           /\ \A i \in 1..Len(a.hosts) : Fqdn(a.hosts[i], a.zone) \in Seq(Label)
<1>1. a \in AnswerType
  BY AnswerAssumption
<1>2. /\ a.type \in RType /\ a.owner \in Seq(Label) /\ a.zone \in Seq(Label) /\ a.text \in Nat
      /\ a.hosts \in Seq(Host)
  BY <1>1 DEF AnswerType
<1>3. Len(a.hosts) \in CASE a.type \in {"CNAME", "NS", "MX"} -> {1}
                         [] a.type = "SOA" -> {1, 2}
                         [] OTHER -> {0}
  BY AnswerAssumption
<1>4. /\ a.type \in {"CNAME", "NS", "MX"} => Len(a.hosts) = 1
      /\ a.type \in {"A", "AAAA", "TXT"} => Len(a.hosts) = 0
      /\ a.type = "SOA" => Len(a.hosts) \in {1, 2}
  BY <1>3
<1>5. Len(a.hosts) \in 0..2
  BY <1>2, <1>4 DEF RType
<1>6. ASSUME NEW i \in 1..Len(a.hosts) PROVE Fqdn(a.hosts[i], a.zone) \in Seq(Label)
  <2>1. a.hosts[i] \in Host
    BY <1>2, ElementOfSeq
  <2>2. a.hosts[i].name \in Seq(Label)
    BY <2>1 DEF Host
  <2> DEFINE n == a.hosts[i].name \o a.zone
  <2>3. n \in Seq(Label)
    BY <1>2, <2>2, ConcatProperties
  <2> HIDE DEF n
  <2>4. n # << >> => Front(n) \in Seq(Label)
    <3>1. ASSUME n # << >> PROVE Len(n) - 1 \in 0..Len(n)
      <4>1. Len(n) \in Nat /\ Len(n) # 0
        BY <2>3, <3>1, LenProperties, EmptySeq
      <4> QED  BY <4>1
    <3>2. \A k \in 0..Len(n) : SubSeq(n, 1, k) \in Seq(Label)
      <4>1. n \in Seq(Label) /\ Len(n) \in Nat
        BY <2>3, LenProperties
      <4> QED  BY <4>1
    <3> QED  BY <3>1, <3>2 DEF Front
  <2>5. ToFraments(n) \in Seq(Label)
    BY <2>3, <2>4 DEF ToFraments
  <2> QED  BY <2>2, <2>5 DEF Fqdn, n
<1> QED  BY <1>2, <1>4, <1>5, <1>6

\* One piece, or two.
LEMMA OneOrTwo ==
    ASSUME NEW x, NEW y
    PROVE  /\ <<x>> \in Seq({x}) /\ Len(<<x>>) = 1 /\ <<x>>[1] = x
           /\ <<x, y>> \in Seq({x, y}) /\ Len(<<x, y>>) = 2 /\ <<x, y>>[1] = x /\ <<x, y>>[2] = y
OBVIOUS

\* The Rdata classes write such pieces.
LEMMA RdataPieces ==
    ASSUME NEW a \in Answer
    PROVE  /\ DataPieces(a, Rdata(a))
           /\ a.type = "A" => Rdata(a) = <<Fixed(4)>>
           /\ a.type = "AAAA" => Rdata(a) = <<Fixed(16)>>
           /\ a.type = "MX" => Rdata(a) = <<Fixed(2), HostPiece(a, 1)>>
<1> DEFINE d == Rdata(a)
           H == Len(a.hosts)
<1>1. /\ a.type \in RType /\ a.text \in Nat /\ H \in 0..2
      /\ a.type \in {"CNAME", "NS", "MX"} => H = 1
      /\ a.type \in {"A", "AAAA", "TXT"} => H = 0
      /\ a.type = "SOA" => H \in {1, 2}
      /\ DOMAIN a.hosts = 1..H
  BY AnswerParts, LenProperties
<1>2. ASSUME H = 0, NEW m \in Nat, a.type # "MX" PROVE DataPieces(a, <<Fixed(m)>>)
  <2> DEFINE e == <<Fixed(m)>>
  <2>1. e \in Seq({Fixed(m)}) /\ Len(e) = 1 /\ e[1] = Fixed(m)
    BY OneOrTwo
  <2> HIDE DEF e
  <2>2. \E S : e \in Seq(S)
    BY <2>1
  <2>3. Len(e) \in 1..3 /\ \A k \in 1..Len(e) : e[k] = Fixed(m)
    BY <2>1
  <2>4. \A i : i \notin 1..H
    BY <1>2
  <2>5. DataPieces(a, e)
    BY <2>2, <2>3, <2>4 DEF DataPieces
  <2> QED  BY <2>5 DEF e
<1>3. CASE a.type = "A"
  <2>1. d = <<Fixed(4)>>
    BY <1>3 DEF Rdata, RdataA
  <2> QED  BY <1>1, <1>2, <1>3, <2>1
<1>4. CASE a.type = "AAAA"
  <2>1. d = <<Fixed(16)>>
    BY <1>4 DEF Rdata, RdataAaaa
  <2> QED  BY <1>1, <1>2, <1>4, <2>1
<1>5. CASE a.type = "TXT"
  <2>1. d = <<Fixed(1 + a.text)>> /\ 1 + a.text \in Nat
    BY <1>1, <1>5 DEF Rdata, RdataTxt
  <2> QED  BY <1>1, <1>2, <1>5, <2>1
<1>6. CASE a.type \in {"CNAME", "NS"}
  <2>1. d = <<HostPiece(a, 1)>>
    BY <1>6 DEF Rdata, RdataCname, RdataNs
  <2>2. d \in Seq({HostPiece(a, 1)}) /\ Len(d) = 1 /\ d[1] = HostPiece(a, 1)
    BY <2>1, OneOrTwo
  <2>3. BeforeHosts(a) = 0 /\ H = 1
    BY <1>1, <1>6 DEF BeforeHosts
  <2> HIDE DEF d
  <2>4. DataPieces(a, d)
    BY <2>2, <2>3 DEF DataPieces
  <2> QED  BY <1>6, <2>4 DEF d
<1>7. CASE a.type = "MX"
  <2>1. d = <<Fixed(2), HostPiece(a, 1)>>
    BY <1>7 DEF Rdata, RdataMx
  <2>2. d \in Seq({Fixed(2), HostPiece(a, 1)}) /\ Len(d) = 2
        /\ d[1] = Fixed(2) /\ d[2] = HostPiece(a, 1)
    BY <2>1, OneOrTwo
  <2>3. BeforeHosts(a) = 1 /\ H = 1
    BY <1>1, <1>7 DEF BeforeHosts
  <2> HIDE DEF d
  <2>4. DataPieces(a, d)
    <3>1. \A k \in 1..2 : k = 1 \/ k = 1 + 1
      OBVIOUS
    <3>2. \A i \in 1..1 : 1 + i \in 1..2 /\ 1 + i = 2 /\ i = 1
      OBVIOUS
    <3> QED  BY <2>2, <2>3, <3>1, <3>2 DEF DataPieces
  <2> QED  BY <1>7, <2>1, <2>4 DEF d
<1>8. CASE a.type = "SOA"
  <2> DEFINE hs == [i \in DOMAIN a.hosts |-> HostPiece(a, i)]
             S == {HostPiece(a, i) : i \in 1..H} \cup {Fixed(20)}
  <2>1. d = Append(hs, Fixed(20))
    BY <1>8 DEF Rdata, RdataSoa
  <2>2. hs \in Seq(S) /\ Len(hs) = H /\ \A i \in 1..H : hs[i] = HostPiece(a, i)
    <3>1. hs \in [1..H -> S] /\ H \in Nat /\ \A i \in 1..H : hs[i] = HostPiece(a, i)
      BY <1>1
    <3> HIDE DEF hs, S, H
    <3> QED  BY <3>1
  <2>3. d \in Seq(S) /\ Len(d) = H + 1 /\ d[H + 1] = Fixed(20)
        /\ \A i \in 1..H : d[i] = HostPiece(a, i)
    <3>1. hs \in Seq(S) /\ Fixed(20) \in S
      BY <2>2
    <3> HIDE DEF hs, S, d, H
    <3>2. Append(hs, Fixed(20)) \in Seq(S) /\ Len(Append(hs, Fixed(20))) = Len(hs) + 1
          /\ (\A i \in 1..Len(hs) : Append(hs, Fixed(20))[i] = hs[i])
          /\ Append(hs, Fixed(20))[Len(hs) + 1] = Fixed(20)
      BY <3>1, AppendProperties
    <3> QED  BY <2>1, <2>2, <3>2
  <2>4. BeforeHosts(a) = 0 /\ H \in {1, 2}
    BY <1>1, <1>8 DEF BeforeHosts
  <2> HIDE DEF d, S
  <2>5. DataPieces(a, d)
    <3> HIDE DEF H
    <3>1. Len(d) \in 1..3
      BY <2>3, <2>4
    <3>2. \A i \in 1..H : 0 + i \in 1..Len(d) /\ 0 + i = i
      BY <2>3, <2>4
    <3>3. \A k \in 1..Len(d) : k = H + 1 \/ k \in 1..H
      BY <2>3, <2>4
    <3>4. \E Q : d \in Seq(Q)
      BY <2>3
    <3>5. \A k \in 1..Len(d) : (\E i \in 1..H : k = 0 + i) \/ \E m \in Nat : d[k] = Fixed(m)
      BY <2>3, <2>4, <3>3
    <3>6. \A i \in 1..H : 0 + i \in 1..Len(d) /\ d[0 + i] = HostPiece(a, i)
      BY <2>3, <3>2
    <3> QED  BY <2>4, <3>1, <3>4, <3>5, <3>6 DEF DataPieces, H
  <2> QED  BY <1>8, <2>5 DEF d
<1> QED  BY <1>1, <1>3, <1>4, <1>5, <1>6, <1>7, <1>8 DEF RType

\* The name of the owner, and may the record a be written now?
OwnerName(w, a, q) == IF a.owner # << >> THEN a.owner ELSE NameAt(w.buffer, q)

MayStore(w, a, q) ==
    a \in Answer /\ GoodWriter(w) /\ (a.owner = << >> => q \in Nat /\ Readable(w.buffer, q))

\* The pieces P are the ones of the record a.
RecordPieces(w, a, q, P) ==
    /\ Len(P) \in 4..6 /\ \A k \in 1..Len(P) : IsPiece(w, P[k])
    /\ IsNamePiece(P[1]) /\ PieceName(w, P[1]) = OwnerName(w, a, q)
    /\ P[2] = Fixed(8) /\ P[3] = RdLength(0)
    /\ \A i \in 1..Len(a.hosts) :
         /\ 3 + BeforeHosts(a) + i \in 4..Len(P)
         /\ P[3 + BeforeHosts(a) + i] = HostPiece(a, i)
    /\ \A k \in 4..Len(P) : \/ \E i \in 1..Len(a.hosts) : k = 3 + BeforeHosts(a) + i
                            \/ \E m \in Nat : P[k] = Fixed(m)
    /\ a.type = "A" => Len(P) = 4 /\ P[4] = Fixed(4)
    /\ a.type = "AAAA" => Len(P) = 4 /\ P[4] = Fixed(16)
    /\ a.type = "MX" => Len(P) = 5 /\ P[4] = Fixed(2)

\* Write writes them.
LEMMA RecordIsPieces ==
    ASSUME NEW w, NEW a, NEW q, MayStore(w, a, q)
    PROVE  RecordPieces(w, a, q, WriteHeader(a, q) \o Rdata(a))
<1> DEFINE d == Rdata(a)
           x == IF a.owner # << >> THEN NamePiece(a.owner) ELSE Pointer(q)
           h == WriteHeader(a, q)
           P == h \o d
           H == Len(a.hosts)
           B == BeforeHosts(a)
<1>1. /\ a \in Answer /\ GoodWriter(w) /\ a.owner \in Seq(Label) /\ H \in 0..2
      /\ \A i \in 1..H : Fqdn(a.hosts[i], a.zone) \in Seq(Label)
  BY AnswerParts DEF MayStore
<1>2. DataPieces(a, d)
  BY <1>1, RdataPieces
<1>3. PICK S : d \in Seq(S)
  BY <1>2 DEF DataPieces
<1>4. /\ Len(d) \in 1..3
      /\ \A i \in 1..H : B + i \in 1..Len(d) /\ d[B + i] = HostPiece(a, i)
      /\ \A k \in 1..Len(d) : (\E i \in 1..H : k = B + i) \/ \E m \in Nat : d[k] = Fixed(m)
  BY <1>2 DEF DataPieces
<1>5. B \in 0..1
  BY DEF BeforeHosts
<1> DEFINE U == S \cup {x, Fixed(8), RdLength(0)}
<1>6. h = <<x, Fixed(8), RdLength(0)>>
  BY DEF WriteHeader
<1>7. h \in Seq(U) /\ Len(h) = 3 /\ h[1] = x /\ h[2] = Fixed(8) /\ h[3] = RdLength(0)
  <2> HIDE DEF h, x
  <2> QED  BY <1>6
<1>8. d \in Seq(U)
  <2>1. d \in [1..Len(d) -> S] /\ Len(d) \in Nat
    BY <1>3, LenProperties
  <2>2. d \in [1..Len(d) -> U]
    BY <2>1
  <2> HIDE DEF d, U
  <2> QED  BY <2>1, <2>2
<1> HIDE DEF d, h, x, U
<1>9. /\ Len(P) = 3 + Len(d)
      /\ P[1] = x /\ P[2] = Fixed(8) /\ P[3] = RdLength(0)
      /\ \A k \in 1..Len(d) : P[3 + k] = d[k]
  <2>1. /\ Len(P) = Len(h) + Len(d)
        /\ \A i \in 1..Len(h) : P[i] = h[i]
        /\ \A i \in 1..Len(d) : P[Len(h) + i] = d[i]
    <3>1. h \in Seq(U) /\ d \in Seq(U)
      BY <1>7, <1>8
    <3> QED  BY <3>1, JoinParts
  <2> HIDE DEF P
  <2> QED  BY <1>7, <2>1
<1> HIDE DEF P, H, B
<1>10. IsPiece(w, x) /\ IsNamePiece(x) /\ PieceName(w, x) = OwnerName(w, a, q)
  <2>1. CASE a.owner # << >>
    <3>1. x.kind = "name" /\ x.labels = a.owner
      BY <2>1 DEF x, NamePiece
    <3> QED  BY <1>1, <2>1, <3>1 DEF IsPiece, IsNamePiece, PieceName, OwnerName
  <2>2. CASE a.owner = << >>
    <3>1. x = Pointer(q) /\ q \in Nat /\ Readable(w.buffer, q)
      BY <2>2 DEF x, MayStore
    <3>2. x \in Cell /\ x.kind = "pointer" /\ x.to = q
      BY <3>1, CellTypes
    <3> QED  BY <2>2, <3>1, <3>2 DEF IsPiece, IsNamePiece, PieceName, OwnerName
  <2> QED  BY <2>1, <2>2
<1>11. \A m \in Nat : IsPiece(w, Fixed(m))
  BY CellTypes DEF IsPiece
<1>12. IsPiece(w, RdLength(0))
  BY CellTypes DEF IsPiece
<1>13. \A i \in 1..H : IsPiece(w, HostPiece(a, i))
  <2> TAKE i \in 1..H
  <2>1. HostPiece(a, i).kind = "name" /\ HostPiece(a, i).labels = Fqdn(a.hosts[i], a.zone)
    BY DEF HostPiece, NamePiece
  <2> QED  BY <1>1, <2>1 DEF IsPiece
<1>14. \A k \in 4..Len(P) : k - 3 \in 1..Len(d) /\ k = 3 + (k - 3)
  BY <1>4, <1>9
<1>15. \A k \in 4..Len(P) : P[k] = d[k - 3]
  BY <1>9, <1>14
<1>16. \A k \in 4..Len(P) : (\E i \in 1..H : k = 3 + B + i) \/ \E m \in Nat : P[k] = Fixed(m)
  <2> TAKE k \in 4..Len(P)
  <2>1. CASE \E i \in 1..H : k - 3 = B + i
    <3>1. PICK i \in 1..H : k - 3 = B + i
      BY <2>1
    <3>2. k = 3 + B + i
      BY <1>1, <1>5, <3>1
    <3> QED  BY <3>2
  <2>2. CASE \E m \in Nat : d[k - 3] = Fixed(m)
    BY <1>15, <2>2
  <2> QED  BY <1>4, <1>14, <2>1, <2>2
<1>17. \A i \in 1..H : 3 + B + i \in 4..Len(P) /\ P[3 + B + i] = HostPiece(a, i)
  <2> TAKE i \in 1..H
  <2>1. B + i \in 1..Len(d) /\ d[B + i] = HostPiece(a, i)
    BY <1>4
  <2>2. 3 + (B + i) = 3 + B + i /\ 3 + B + i \in 4..Len(P)
    BY <1>1, <1>4, <1>5, <1>9, <2>1
  <2> QED  BY <1>9, <2>1, <2>2
<1>18. \A k \in 1..Len(P) : IsPiece(w, P[k])
  <2> TAKE k \in 1..Len(P)
  <2>1. k = 1 \/ k = 2 \/ k = 3 \/ k \in 4..Len(P)
    BY <1>4, <1>9
  <2>2. k \in {1, 2, 3} => IsPiece(w, P[k])
    BY <1>9, <1>10, <1>11, <1>12
  <2>3. k \in 4..Len(P) => IsPiece(w, P[k])
    BY <1>11, <1>13, <1>16, <1>17
  <2> QED  BY <2>1, <2>2, <2>3
<1>19. Len(P) \in 4..6
  <2>1. Len(P) = 3 + Len(d) /\ Len(d) \in 1..3
    BY <1>4, <1>9
  <2>2. \A i \in 1..3 : 3 + i \in 4..6
    OBVIOUS
  <2> QED  BY <2>1, <2>2
<1>20. /\ a.type = "A" => Len(P) = 4 /\ P[4] = Fixed(4)
       /\ a.type = "AAAA" => Len(P) = 4 /\ P[4] = Fixed(16)
       /\ a.type = "MX" => Len(P) = 5 /\ P[4] = Fixed(2)
  <2>1. /\ a.type = "A" => d = <<Fixed(4)>>
        /\ a.type = "AAAA" => d = <<Fixed(16)>>
        /\ a.type = "MX" => d = <<Fixed(2), HostPiece(a, 1)>>
    BY <1>1, RdataPieces DEF d
  <2>2. 1 \in 1..Len(d) /\ P[3 + 1] = d[1]
    BY <1>4, <1>9
  <2>3. ASSUME NEW y, d = <<y>> PROVE Len(d) = 1 /\ d[1] = y
    BY <2>3
  <2>4. ASSUME NEW y, NEW z, d = <<y, z>> PROVE Len(d) = 2 /\ d[1] = y
    BY <2>4
  <2> QED  BY <1>9, <2>1, <2>2, <2>3, <2>4
<1> QED  BY <1>9, <1>10, <1>16, <1>17, <1>18, <1>19, <1>20 DEF RecordPieces, P, H, B, h, d

-----------------------------------------------------------------------------
(* The cells of a run.                                                     *)

\* Where the pieces of the run f are in the end, in b.
RunsThrough(f, N, pieces, b) ==
    /\ \A k \in 0..N : Len(f[k].buffer) \in 1..Len(b)
    /\ \A i, j \in 0..N : i < j => Len(f[i].buffer) < Len(f[j].buffer)
    /\ \A k \in 1..N : pieces[k].kind # "name" =>
         Len(f[k].buffer) = Len(f[k - 1].buffer) + 1 /\ b[Len(f[k].buffer)] = pieces[k]
    /\ \A k \in 1..N : IsNamePiece(pieces[k]) =>
         /\ \A i \in (Len(f[k - 1].buffer) + 1)..Len(f[k].buffer) :
              b[i].kind \in {"label", "pointer", "end", "bad"}
         /\ b[Len(f[k].buffer)].kind \in {"end", "pointer"}
    /\ \A k \in 1..N : pieces[k].kind = "name" /\ pieces[k].labels \in Seq(Proper) =>
         \A i \in (Len(f[k - 1].buffer) + 1)..(Len(f[k].buffer) - 1) : b[i].kind = "label"

LEMMA RunCells ==
    ASSUME NEW f, NEW w, NEW pieces, Runs(f, w, pieces), Len(pieces) \in Nat,
           \A i \in 1..Len(pieces) : IsPiece(w, pieces[i]),
           NEW v, v = f[Len(pieces)]
    PROVE  RunsThrough(f, Len(pieces), pieces, v.buffer)
<1> DEFINE N == Len(pieces)
           b == v.buffer
           L(k) == Len(f[k].buffer)
<1>1. /\ N \in Nat /\ \A k \in 1..N : PieceWritten(f[k - 1], f[k], pieces[k])
  BY DEF Runs
<1>2. \A i \in 0..N : \A j \in i..N : Carried(f[i], f[j])
  BY RunCarries
<1>3. \A k \in 0..N : Carried(f[k], v)
  <2> TAKE k \in 0..N
  <2>1. N \in k..N
    BY <1>1
  <2> HIDE DEF N
  <2> QED  BY <1>2, <2>1 DEF N
<1>4. \A k \in 0..N : L(k) \in Nat /\ Len(b) \in Nat /\ L(k) <= Len(b)
  BY <1>3, CarriedFacts
<1>5. \A k \in 0..N : L(k) > 0
  <2> TAKE k \in 0..N
  <2>1. f[k].buffer \in Buffer
    BY <1>3 DEF Carried, GoodWriter
  <2> QED  BY <2>1, BufferParts
<1>6. \A k \in 0..N : L(k) \in 1..Len(b)
  <2> HIDE DEF N, b, L
  <2> QED  BY <1>4, <1>5
<1>7. \A k \in 1..N : L(k - 1) < L(k)
  BY <1>1 DEF PieceWritten
<1>8. ASSUME NEW i \in 0..N, NEW j \in 0..N, i < j PROVE L(i) < L(j)
  <2>1. i + 1 \in 1..N /\ (i + 1) - 1 = i /\ j \in (i + 1)..N /\ i + 1 \in 0..N
    BY <1>1, <1>8
  <2>2. L(i) < L(i + 1)
    <3>1. L((i + 1) - 1) < L(i + 1)
      <4> HIDE DEF N, L
      <4> QED  BY <1>7, <2>1
    <3> QED  BY <2>1, <3>1
  <2>3. Carried(f[i + 1], f[j])
    <3> HIDE DEF N
    <3> QED  BY <1>2, <2>1
  <2>4. L(i + 1) <= L(j)
    BY <2>3, CarriedFacts
  <2>5. L(i) \in Nat /\ L(j) \in Nat /\ L(i + 1) \in Nat
    <3> HIDE DEF N, L
    <3> QED  BY <1>4, <2>1
  <2> HIDE DEF L
  <2> QED  BY <2>2, <2>4, <2>5
<1>9. ASSUME NEW k \in 1..N
      PROVE  k \in 0..N /\ k - 1 \in 0..N /\ \A i \in 1..L(k) : b[i] = f[k].buffer[i]
  <2>1. k \in 0..N /\ k - 1 \in 0..N
    BY <1>1
  <2> HIDE DEF N
  <2> QED  BY <1>3, <2>1 DEF Carried
<1>10. ASSUME NEW k \in 1..N, pieces[k].kind # "name"
       PROVE  L(k) = L(k - 1) + 1 /\ b[L(k)] = pieces[k]
  <2>1. L(k) = L(k - 1) + 1 /\ f[k].buffer[L(k)] = pieces[k]
    BY <1>1, <1>10 DEF PieceWritten
  <2>2. L(k) \in 1..L(k)
    <3>1. L(k) \in 1..Len(b)
      BY <1>6, <1>9
    <3> HIDE DEF L
    <3> QED  BY <3>1
  <2> QED  BY <1>9, <2>1, <2>2
<1>11. ASSUME NEW k \in 1..N, IsNamePiece(pieces[k])
       PROVE  /\ \A i \in (L(k - 1) + 1)..L(k) : b[i].kind \in {"label", "pointer", "end", "bad"}
              /\ b[L(k)].kind \in {"end", "pointer"}
              /\ PieceName(f[k - 1], pieces[k]) \in Seq(Proper) =>
                   \A i \in (L(k - 1) + 1)..(L(k) - 1) : b[i].kind = "label"
  <2> DEFINE n == PieceName(f[k - 1], pieces[k])
  <2>1. WroteName(f[k - 1].buffer, f[k].buffer, n)
    BY <1>1, <1>11 DEF PieceWritten, IsNamePiece
  <2>2. /\ \A i \in (L(k - 1) + 1)..L(k) :
             f[k].buffer[i].kind \in {"label", "pointer", "end", "bad"}
        /\ n \in Seq(Proper) =>
             \A i \in (L(k - 1) + 1)..(L(k) - 1) : f[k].buffer[i].kind = "label"
        /\ f[k].buffer[L(k)].kind \in {"end", "pointer"}
    BY <2>1 DEF WroteName
  <2>3. L(k) \in Nat /\ L(k - 1) \in Nat /\ L(k) > 0 /\ L(k - 1) > 0
    BY <1>4, <1>5, <1>9
  <2>4. /\ L(k) \in 1..L(k) /\ \A i \in (L(k - 1) + 1)..L(k) : i \in 1..L(k)
        /\ \A i \in (L(k - 1) + 1)..(L(k) - 1) : i \in 1..L(k)
    <3> HIDE DEF L
    <3> QED  BY <2>3
  <2>5. \A i \in (L(k - 1) + 1)..L(k) : b[i].kind \in {"label", "pointer", "end", "bad"}
    BY <1>9, <2>2, <2>4
  <2>6. b[L(k)].kind \in {"end", "pointer"}
    BY <1>9, <2>2, <2>4
  <2>7. n \in Seq(Proper) => \A i \in (L(k - 1) + 1)..(L(k) - 1) : b[i].kind = "label"
    BY <1>9, <2>2, <2>4
  <2> QED  BY <2>5, <2>6, <2>7
<1>12. ASSUME NEW k \in 1..N, pieces[k].kind = "name", pieces[k].labels \in Seq(Proper)
       PROVE  \A i \in (L(k - 1) + 1)..(L(k) - 1) : b[i].kind = "label"
  <2>1. IsNamePiece(pieces[k]) /\ PieceName(f[k - 1], pieces[k]) = pieces[k].labels
    BY <1>12 DEF IsNamePiece, PieceName
  <2> QED  BY <1>11, <1>12, <2>1
<1> QED  BY <1>6, <1>8, <1>10, <1>11, <1>12 DEF RunsThrough

-----------------------------------------------------------------------------
(* One record, before its length is filled in.                             *)

\* The run f writes the pieces P of the record a behind w, and u is the result.
Writes(w, a, q, P, f, u) ==
    /\ MayStore(w, a, q) /\ RecordPieces(w, a, q, P) /\ Runs(f, w, P)
    /\ u = f[Len(P)] /\ f[0] = w /\ RunsThrough(f, Len(P), P, u.buffer)
    /\ \A k \in 0..Len(P) : Carried(w, f[k]) /\ Carried(f[k], u)

\* There is such a run.
LEMMA WritesRecord ==
    ASSUME NEW w, NEW a, NEW q, MayStore(w, a, q)
    PROVE  \E P, f : /\ P = WriteHeader(a, q) \o Rdata(a)
                     /\ Writes(w, a, q, P, f, WritePieces(w, P))
<1> DEFINE P == WriteHeader(a, q) \o Rdata(a)
           N == Len(P)
<1>1. RecordPieces(w, a, q, P)
  BY RecordIsPieces
<1> HIDE DEF P
<1>2. N \in 4..6 /\ \A k \in 1..N : IsPiece(w, P[k])
  BY <1>1 DEF RecordPieces
<1>3. GoodWriter(w) /\ N \in Nat
  BY <1>2 DEF MayStore
<1>4. PICK f : Runs(f, w, P) /\ WritePieces(w, P) = f[N]
  BY <1>2, <1>3, PiecesWritten
<1> DEFINE u == WritePieces(w, P)
<1>5. u = f[N]
  BY <1>4
<1> HIDE DEF u
<1>6. RunsThrough(f, N, P, u.buffer)
  BY <1>2, <1>3, <1>4, <1>5, RunCells
<1>7. \A i \in 0..N : \A j \in i..N : Carried(f[i], f[j])
  BY <1>3, <1>4, RunCarries
<1>8. \A i \in 0..N : Carried(w, f[i])
  BY <1>3, <1>4, RunCarries
<1>9. \A k \in 0..N : Carried(w, f[k]) /\ Carried(f[k], u)
  <2>1. \A k \in 0..N : N \in k..N
    BY <1>3
  <2> HIDE DEF N
  <2> QED  BY <1>5, <1>7, <1>8, <2>1
<1>10. f[0] = w
  BY <1>4 DEF Runs
<1>11. Writes(w, a, q, P, f, u)
  BY <1>1, <1>4, <1>5, <1>6, <1>9, <1>10 DEF Writes
<1> QED  BY <1>11 DEF u, P

\* Where its length is: after the owner and eight bytes.
LEMMA RdlengthPlace ==
    ASSUME NEW w, NEW a, NEW q, NEW P, NEW f, NEW u, Writes(w, a, q, P, f, u)
    PROVE  /\ Len(f[3].buffer) \in (Len(w.buffer) + 1)..(Len(u.buffer) - 1)
           /\ u.buffer[Len(f[3].buffer)] = RdLength(0)
           /\ RdlengthAt(u.buffer, Len(w.buffer) + 1) = Len(f[3].buffer)
           /\ \A i \in (Len(w.buffer) + 1)..(Len(f[3].buffer) - 1) : u.buffer[i].kind # "rdlength"
           /\ Len(w.buffer) \in Nat /\ Len(u.buffer) \in Nat
<1> DEFINE L(k) == Len(f[k].buffer)
           b == u.buffer
           N == Len(P)
<1>1. /\ N \in 4..6 /\ IsNamePiece(P[1]) /\ P[2] = Fixed(8) /\ P[3] = RdLength(0)
      /\ RunsThrough(f, N, P, b) /\ f[0] = w /\ u = f[N]
  BY DEF Writes, RecordPieces
<1>2. /\ 0 \in 0..N /\ 1 \in 0..N /\ 2 \in 0..N /\ 3 \in 0..N /\ 4 \in 0..N /\ N \in 0..N
      /\ 1 \in 1..N /\ 2 \in 1..N /\ 3 \in 1..N /\ 4 \in 1..N
  <2>1. N \in 4..6
    BY <1>1
  <2> HIDE DEF N
  <2> QED  BY <2>1
<1>3. /\ P[2].kind = "fixed" /\ P[3].kind = "rdlength"
  BY <1>1, CellTypes
<1>4. L(0) \in 1..Len(b) /\ L(1) \in 1..Len(b) /\ L(2) \in 1..Len(b) /\ L(3) \in 1..Len(b)
      /\ L(4) \in 1..Len(b)
  BY <1>1, <1>2 DEF RunsThrough
<1>5. L(0) < L(1) /\ L(1) < L(2) /\ L(2) < L(3) /\ L(3) < L(4)
  BY <1>1, <1>2 DEF RunsThrough
<1>6. L(2) = L(2 - 1) + 1 /\ b[L(2)] = P[2]
  BY <1>1, <1>2, <1>3 DEF RunsThrough
<1>7. L(3) = L(3 - 1) + 1 /\ b[L(3)] = P[3]
  BY <1>1, <1>2, <1>3 DEF RunsThrough
<1>8. \A i \in (L(1 - 1) + 1)..L(1) : b[i].kind \in {"label", "pointer", "end", "bad"}
  BY <1>1, <1>2 DEF RunsThrough
<1>9. 1 - 1 = 0 /\ 2 - 1 = 1 /\ 3 - 1 = 2
  OBVIOUS
<1>10. L(0) = Len(w.buffer)
  BY <1>1
<1>11. Len(b) \in Nat
  <2>1. Carried(w, u)
    BY <1>1, <1>2 DEF Writes
  <2> QED  BY <2>1, CarriedFacts
<1> HIDE DEF L, b, N
<1>12. L(3) \in (L(0) + 1)..(Len(b) - 1)
  BY <1>4, <1>5, <1>11
<1>13. ASSUME NEW i \in (L(0) + 1)..(L(3) - 1) PROVE b[i].kind # "rdlength"
  <2>1. L(2) = L(1) + 1 /\ L(3) = L(2) + 1
    BY <1>6, <1>7, <1>9
  <2>2. i \in (L(0) + 1)..L(1) \/ i = L(2)
    BY <1>4, <1>11, <2>1
  <2>3. i \in (L(0) + 1)..L(1) => b[i].kind # "rdlength"
    BY <1>8, <1>9
  <2> QED  BY <1>3, <1>6, <2>2, <2>3
<1>14. L(0) + 1 \in Nat /\ L(3) \in (L(0) + 1)..Len(b) /\ b[L(3)].kind = "rdlength"
  BY <1>3, <1>4, <1>7, <1>11, <1>12
<1>15. RdlengthAt(b, L(0) + 1) = L(3)
  BY <1>11, <1>13, <1>14, RdlengthFound
<1>16. L(0) \in Nat
  BY <1>4
<1> QED  BY <1>1, <1>7, <1>10, <1>11, <1>12, <1>13, <1>15, <1>16 DEF L, b

\* A part of a list, in the middle or at the end.
LEMMA CutParts ==
    ASSUME NEW S, NEW s \in Seq(S), NEW m \in 1..Len(s), NEW n \in m..Len(s)
    PROVE  /\ SubSeq(s, m, n) \in Seq(S) /\ Len(SubSeq(s, m, n)) = (n - m) + 1
           /\ \A i \in 1..((n - m) + 1) : SubSeq(s, m, n)[i] = s[(m + i) - 1]
<1>1. Len(s) \in Nat /\ \A i \in 1..Len(s) : s[i] \in S
  BY LenProperties, ElementOfSeq
<1>2. m \in Int /\ n \in Int /\ m <= n /\ \A i \in m..n : i \in 1..Len(s)
  BY <1>1
<1>3. \A i \in m..n : s[i] \in S
  BY <1>1, <1>2
<1>4. /\ SubSeq(s, m, n) \in Seq(S)
      /\ Len(SubSeq(s, m, n)) = IF m <= n THEN n - m + 1 ELSE 0
      /\ \A i \in 1..(n - m + 1) : SubSeq(s, m, n)[i] = s[m + i - 1]
  BY <1>2, <1>3, SubSeqProperties
<1> QED  BY <1>2, <1>4

\* A list that has something in it: its first element, and the rest.
LEMMA FirstAndRest ==
    ASSUME NEW S, NEW s \in Seq(S), Len(s) >= 1
    PROVE  /\ s # << >> /\ s[1] \in S /\ Tail(s) \in Seq(S) /\ s = <<s[1]>> \o Tail(s)
           /\ Len(s) = 1 => s = <<s[1]>>
<1>1. Len(s) \in Nat /\ Len(<< >>) = 0
  BY LenProperties
<1>2. s # << >>
  BY <1>1
<1>3. s[1] \in S /\ Tail(s) \in Seq(S) /\ Len(Tail(s)) = Len(s) - 1
      /\ \A i \in 1..Len(Tail(s)) : Tail(s)[i] = s[i + 1]
  <2>1. 1 \in 1..Len(s)
    BY <1>1
  <2>2. Tail(s) \in Seq(S) /\ Len(Tail(s)) = Len(s) - 1
        /\ \A i \in 1..Len(Tail(s)) : Tail(s)[i] = s[i + 1]
    BY <1>2, HeadTailProperties
  <2>3. s[1] \in S
    BY <2>1, ElementOfSeq
  <2> QED  BY <2>2, <2>3
<1> DEFINE x == s[1]
           r == Tail(s)
<1> HIDE DEF x, r
<1>4. /\ <<x>> \o r \in Seq(S) /\ Len(<<x>> \o r) = Len(r) + 1 /\ (<<x>> \o r)[1] = x
      /\ \A i \in 2..(Len(r) + 1) : (<<x>> \o r)[i] = r[i - 1]
  BY <1>3, PutInFront DEF x, r
<1> DEFINE t == <<x>> \o r
<1> HIDE DEF t
<1>5. Len(r) + 1 = Len(s)
  BY <1>1, <1>3 DEF r
<1>6. ASSUME NEW i \in 1..Len(s) PROVE t[i] = s[i]
  <2>1. CASE i = 1
    BY <1>4, <2>1 DEF t, x
  <2>2. CASE i # 1
    <3>1. i \in 2..(Len(r) + 1) /\ i - 1 \in 1..Len(r) /\ (i - 1) + 1 = i
      BY <1>1, <1>5, <2>2
    <3>2. t[i] = r[i - 1] /\ r[i - 1] = s[(i - 1) + 1]
      BY <1>3, <1>4, <3>1 DEF t, r
    <3> QED  BY <3>1, <3>2
  <2> QED  BY <2>1, <2>2
<1>7. t \in Seq(S) /\ Len(t) = Len(s)
  BY <1>4, <1>5 DEF t
<1>8. s = t
  BY <1>6, <1>7, SeqEqual
<1>9. ASSUME Len(s) = 1 PROVE s = <<s[1]>>
  <2>1. <<x>> \in Seq(S) /\ Len(<<x>>) = 1 /\ <<x>>[1] = x
    BY <1>3 DEF x
  <2>2. \A i \in 1..Len(s) : i = 1
    BY <1>9
  <2>3. \A i \in 1..Len(s) : <<x>>[i] = s[i]
    BY <2>1, <2>2 DEF x
  <2> DEFINE y == <<x>>
  <2> HIDE DEF y
  <2>4. y \in Seq(S) /\ Len(y) = Len(s) /\ \A i \in 1..Len(s) : y[i] = s[i]
    BY <1>9, <2>1, <2>3 DEF y
  <2>5. s = y
    BY <2>4, SeqEqual
  <2> QED  BY <2>5 DEF y, x
<1> QED  BY <1>2, <1>3, <1>8, <1>9 DEF t, x, r

\* The data of the record, and its length.
LEMMA RdlengthRight ==
    ASSUME NEW w, NEW a, NEW q, NEW P, NEW f, NEW u, Writes(w, a, q, P, f, u),
           NEW data, data = SubSeq(u.buffer, Len(f[3].buffer) + 1, Len(u.buffer))
    PROVE  data \in Seq(Cell) /\ Rdlength(a, data) = Bytes(data) /\ Bytes(data) \in Nat
<1> DEFINE L(k) == Len(f[k].buffer)
           b == u.buffer
           N == Len(P)
<1>1. /\ N \in 4..6 /\ RunsThrough(f, N, P, b) /\ u = f[N] /\ a \in Answer
      /\ a.type = "A" => N = 4 /\ P[4] = Fixed(4)
      /\ a.type = "AAAA" => N = 4 /\ P[4] = Fixed(16)
      /\ a.type = "MX" => N = 5 /\ P[4] = Fixed(2)
  BY DEF Writes, RecordPieces, MayStore
<1>2. 3 \in 0..N /\ 4 \in 1..N /\ N \in 0..N /\ 4 - 1 = 3
  BY <1>1
<1>3. L(3) \in 1..(Len(b) - 1) /\ Len(b) \in Nat /\ b \in Seq(Cell) /\ L(N) = Len(b)
  <2>1. Len(f[3].buffer) \in (Len(w.buffer) + 1)..(Len(u.buffer) - 1)
        /\ Len(w.buffer) \in Nat /\ Len(u.buffer) \in Nat
    BY RdlengthPlace
  <2>2. Carried(w, u)
    BY <1>1, <1>2 DEF Writes
  <2>3. b \in Seq(Cell)
    BY <2>2, BufferParts DEF Carried, GoodWriter
  <2>4. L(3) \in 1..(Len(b) - 1)
    BY <2>1
  <2> QED  BY <1>1, <2>1, <2>3, <2>4
<1>4. ASSUME NEW m \in Nat, P[4] = Fixed(m) PROVE L(4) = L(3) + 1 /\ b[L(4)] = Fixed(m)
  <2>1. P[4].kind = "fixed"
    BY <1>4, CellTypes
  <2>2. L(4) = L(4 - 1) + 1 /\ b[L(4)] = P[4]
    BY <1>1, <1>2, <2>1 DEF RunsThrough
  <2> QED  BY <1>2, <1>4, <2>2
<1> HIDE DEF L, b, N
<1>5. /\ data \in Seq(Cell) /\ Len(data) = Len(b) - L(3)
      /\ \A i \in 1..(Len(b) - L(3)) : data[i] = b[L(3) + i]
  <2>1. L(3) + 1 \in 1..Len(b) /\ Len(b) \in (L(3) + 1)..Len(b) /\ b \in Seq(Cell)
    BY <1>3
  <2> DEFINE m == L(3) + 1
             n == Len(b)
  <2>2. data = SubSeq(b, m, n)
    BY DEF L, b
  <2>3. (n - m) + 1 = n - L(3) /\ \A i \in 1..(n - L(3)) : (m + i) - 1 = L(3) + i
    BY <1>3
  <2>4. m \in 1..Len(b) /\ n \in m..Len(b)
    BY <2>1
  <2> HIDE DEF m, n
  <2>5. /\ data \in Seq(Cell) /\ Len(data) = (n - m) + 1
        /\ \A i \in 1..((n - m) + 1) : data[i] = b[(m + i) - 1]
    <3>1. b \in Seq(Cell) /\ m \in 1..Len(b) /\ n \in m..Len(b)
      BY <2>1, <2>4
    <3>2. /\ SubSeq(b, m, n) \in Seq(Cell) /\ Len(SubSeq(b, m, n)) = (n - m) + 1
          /\ \A i \in 1..((n - m) + 1) : SubSeq(b, m, n)[i] = b[(m + i) - 1]
      BY <3>1, CutParts
    <3> QED  BY <2>2, <3>2
  <2> QED  BY <2>3, <2>5 DEF n
<1>6. Bytes(data) \in Nat
  BY <1>5, BytesFacts
<1>7. ASSUME NEW m \in Nat, N = 4, P[4] = Fixed(m) PROVE Bytes(data) = m
  <2>1. Len(b) = L(3) + 1 /\ b[Len(b)] = Fixed(m)
    BY <1>3, <1>4, <1>7
  <2>2. Len(data) = 1 /\ data[1] = Fixed(m)
    <3>1. Len(b) - L(3) = 1 /\ L(3) + 1 = Len(b)
      BY <1>3, <2>1
    <3>2. 1 \in 1..(Len(b) - L(3))
      BY <3>1
    <3> QED  BY <1>5, <2>1, <3>1, <3>2
  <2>3. data = <<Fixed(m)>>
    <3>1. data \in Seq(Cell) /\ Len(data) >= 1
      BY <1>5, <2>2
    <3>2. Len(data) = 1 => data = <<data[1]>>
      BY <3>1, FirstAndRest
    <3> QED  BY <2>2, <3>2
  <2>4. Fixed(m) \in Cell /\ Fixed(m).bytes = m
    BY CellTypes
  <2>5. Bytes(<<Fixed(m)>>) = Fixed(m).bytes
    BY <2>4, BytesFacts
  <2> QED  BY <2>3, <2>4, <2>5
<1>8. ASSUME a.type = "MX" PROVE 2 + Bytes(Tail(data)) = Bytes(data)
  <2>1. N = 5 /\ L(4) = L(3) + 1 /\ b[L(4)] = Fixed(2)
    BY <1>1, <1>4, <1>8
  <2>2. Len(data) >= 1 /\ data[1] = Fixed(2)
    <3>1. Len(b) - L(3) >= 1 /\ 1 \in 1..(Len(b) - L(3)) /\ L(3) + 1 = L(4)
      BY <1>3, <2>1
    <3>2. data[1] = b[L(3) + 1]
      BY <1>5, <3>1
    <3>3. Len(data) = Len(b) - L(3)
      BY <1>5
    <3> QED  BY <2>1, <3>1, <3>2, <3>3
  <2>4. Tail(data) \in Seq(Cell) /\ data = <<data[1]>> \o Tail(data)
    <3>1. data \in Seq(Cell) /\ Len(data) >= 1
      BY <1>5, <2>2
    <3> QED  BY <3>1, FirstAndRest
  <2>5. Fixed(2) \in Cell /\ Fixed(2).bytes = 2 /\ <<Fixed(2)>> \in Seq(Cell)
    BY CellTypes
  <2>6. Bytes(<<Fixed(2)>>) = 2
    BY <2>5, BytesFacts
  <2>7. Bytes(<<Fixed(2)>> \o Tail(data)) = Bytes(<<Fixed(2)>>) + Bytes(Tail(data))
    BY <2>4, <2>5, BytesConcat
  <2> QED  BY <2>2, <2>4, <2>6, <2>7
<1>9. Rdlength(a, data) = Bytes(data)
  <2>1. CASE a.type = "A"
    BY <1>1, <1>7, <2>1 DEF Rdlength
  <2>2. CASE a.type = "AAAA"
    BY <1>1, <1>7, <2>2 DEF Rdlength
  <2>3. CASE a.type = "MX"
    BY <1>8, <2>3 DEF Rdlength
  <2>4. CASE a.type \notin {"A", "AAAA", "MX"}
    BY <2>4 DEF Rdlength
  <2> QED  BY <2>1, <2>2, <2>3, <2>4
<1> QED  BY <1>5, <1>6, <1>9

-----------------------------------------------------------------------------
(* The names of a record.                                                  *)

\* The names, the owner being number 0.
TheName(w, a, q, j) == IF j = 0 THEN OwnerName(w, a, q) ELSE Fqdn(a.hosts[j], a.zone)

\* The names are at the places pl, the rdlength being at `at'.
Placed(w, u, a, q, at, pl) ==
    /\ pl[0] = Len(w.buffer) + 1
    /\ Len(a.hosts) >= 1 => pl[1] = at + 1 + BeforeHosts(a)
    /\ Len(a.hosts) >= 2 /\ TheName(w, a, q, 1) \in Seq(Proper) =>
         /\ pl[2] - 1 \in pl[1]..Len(u.buffer) /\ u.buffer[pl[2] - 1].kind # "label"
         /\ \A i \in pl[1]..(pl[2] - 2) : u.buffer[i].kind = "label"
    /\ \A j \in 0..Len(a.hosts) :
         /\ pl[j] \in (Len(w.buffer) + 1)..Len(u.buffer)
         /\ TheName(w, a, q, j) \in Seq(Label)
         /\ NameAt(u.buffer, pl[j]) = AsRead(TheName(w, a, q, j))
         /\ Known(u, AsRead(TheName(w, a, q, j)))
         /\ Known(w, TheName(w, a, q, j)) /\ TheName(w, a, q, j) \in Seq(Proper) =>
              u.buffer[pl[j]].kind # "label"
    /\ \A i, j \in 0..Len(a.hosts) :
         /\ TheName(w, a, q, i) = TheName(w, a, q, j) /\ TheName(w, a, q, j) \in Seq(Proper)
         /\ pl[i] < pl[j]
         => u.buffer[pl[j]].kind # "label"
    /\ \A s \in 1..Len(u.starts) :
         \/ \E i \in 1..Len(w.starts) : u.starts[s] = w.starts[i]
         \/ \E j \in 0..Len(a.hosts) :
              NameAt(u.buffer, u.starts[s]) = AsRead(TheName(w, a, q, j))

\* The run writes them there.
LEMMA NamesPlaced ==
    ASSUME NEW w, NEW a, NEW q, NEW P, NEW f, NEW u, Writes(w, a, q, P, f, u)
    PROVE  \E pl : Placed(w, u, a, q, Len(f[3].buffer), pl)
<1> DEFINE L(k) == Len(f[k].buffer)
           b == u.buffer
           N == Len(P)
           H == Len(a.hosts)
           B == BeforeHosts(a)
           K(j) == IF j = 0 THEN 1 ELSE 3 + B + j
           T(j) == TheName(w, a, q, j)
           pl == [j \in 0..H |-> L(K(j) - 1) + 1]
<1>1. /\ a \in Answer /\ N \in 4..6 /\ Runs(f, w, P) /\ RunsThrough(f, N, P, b)
      /\ u = f[N] /\ f[0] = w
      /\ \A k \in 0..N : Carried(w, f[k]) /\ Carried(f[k], u)
  BY DEF Writes, MayStore, RecordPieces
<1>2. /\ \A k \in 1..N : IsPiece(w, P[k])
      /\ IsNamePiece(P[1]) /\ PieceName(w, P[1]) = OwnerName(w, a, q)
      /\ P[2] = Fixed(8) /\ P[3] = RdLength(0)
      /\ \A i \in 1..H : 3 + B + i \in 4..N /\ P[3 + B + i] = HostPiece(a, i)
      /\ \A k \in 4..N : (\E i \in 1..H : k = 3 + B + i) \/ \E m \in Nat : P[k] = Fixed(m)
      /\ a.type = "MX" => P[4] = Fixed(2)
  BY DEF Writes, RecordPieces
<1>3. H \in 0..2 /\ (B = 1 => a.type = "MX") /\ B \in 0..1 /\ (a.type = "MX" => H = 1)
  BY <1>1, AnswerParts DEF BeforeHosts
<1>4. N \in Nat /\ 1 \in 1..N /\ 0 \in 0..N /\ 3 \in 0..N /\ 4 \in 1..N
  <2>1. N \in 4..6
    BY <1>1
  <2> HIDE DEF N
  <2> QED  BY <2>1
<1>0. /\ Runs(f, w, P) /\ Len(P) \in Nat /\ (\A i \in 1..Len(P) : IsPiece(w, P[i]))
      /\ u = f[Len(P)]
  BY <1>1, <1>2, <1>4
<1>5. ASSUME NEW j \in 0..H
      PROVE  /\ K(j) \in 1..N /\ K(j) \in 0..N /\ K(j) - 1 \in 0..N
             /\ IsNamePiece(P[K(j)]) /\ PieceName(w, P[K(j)]) = T(j)
  <2>1. CASE j = 0
    <3>1. K(j) = 1 /\ T(j) = OwnerName(w, a, q)
      BY <2>1 DEF TheName
    <3>2. K(j) \in 1..N /\ K(j) \in 0..N /\ K(j) - 1 \in 0..N
      <4> HIDE DEF K, N
      <4> QED  BY <1>4, <3>1
    <3> QED  BY <1>2, <3>1, <3>2
  <2>2. CASE j # 0
    <3>1. j \in 1..H
      BY <2>2
    <3>2. K(j) = 3 + B + j /\ T(j) = Fqdn(a.hosts[j], a.zone)
      BY <2>2 DEF TheName
    <3>3. K(j) \in 4..N /\ P[K(j)] = HostPiece(a, j)
      <4> HIDE DEF B, H, N
      <4> QED  BY <1>2, <3>1, <3>2
    <3>4. P[K(j)].kind = "name" /\ P[K(j)].labels = T(j)
      BY <3>2, <3>3 DEF HostPiece, NamePiece
    <3>5. K(j) \in 1..N /\ K(j) \in 0..N /\ K(j) - 1 \in 0..N
      <4> HIDE DEF K, N
      <4> QED  BY <1>4, <3>3
    <3> QED  BY <3>4, <3>5 DEF IsNamePiece, PieceName
  <2> QED  BY <2>1, <2>2
<1>6. \A k \in 1..N : IsNamePiece(P[k]) => \E j \in 0..H : k = K(j)
  <2> TAKE k \in 1..N
  <2> HAVE IsNamePiece(P[k])
  <2>1. k = 1 \/ k = 2 \/ k = 3 \/ k \in 4..N
    <3> HIDE DEF N
    <3> QED  BY <1>4
  <2>2. k # 2 /\ k # 3
    <3>1. P[2].kind = "fixed" /\ P[3].kind = "rdlength"
      BY <1>2, CellTypes
    <3> QED  BY <3>1 DEF IsNamePiece
  <2>3. CASE k = 1
    <3>1. 0 \in 0..H /\ K(0) = 1
      BY <1>3
    <3> HIDE DEF K, H
    <3> QED  BY <2>3, <3>1
  <2>4. CASE k \in 4..N
    <3>1. ~ \E m \in Nat : P[k] = Fixed(m)
      BY CellTypes DEF IsNamePiece
    <3>2. PICK i \in 1..H : k = 3 + B + i
      <4> HIDE DEF B, H, N
      <4> QED  BY <1>2, <2>4, <3>1
    <3>3. i \in 0..H /\ K(i) = k
      BY <1>3, <3>2
    <3> HIDE DEF K, H
    <3> QED  BY <3>3
  <2> QED  BY <2>1, <2>2, <2>3, <2>4
<1>7. \A j \in 0..H :
        /\ L(K(j) - 1) + 1 \in 1..Len(b) /\ NameAt(b, L(K(j) - 1) + 1) = AsRead(T(j))
        /\ Known(f[K(j)], AsRead(T(j))) /\ T(j) \in Seq(Label)
        /\ Known(f[K(j) - 1], T(j)) /\ T(j) \in Seq(Proper) =>
             b[L(K(j) - 1) + 1].kind # "label"
  <2>1. \A k \in 1..N : IsNamePiece(P[k]) => RunName(f, w, P, u, k)
    BY <1>0, RunNames
  <2> TAKE j \in 0..H
  <2>2. RunName(f, w, P, u, K(j)) /\ PieceName(w, P[K(j)]) = T(j)
    <3> HIDE DEF K, N, H, T
    <3> QED  BY <1>5, <2>1
  <2> HIDE DEF K, T
  <2> QED  BY <2>2 DEF RunName
<1>8. \A s \in 1..Len(u.starts) :
         \/ \E i \in 1..Len(w.starts) : u.starts[s] = w.starts[i]
         \/ \E j \in 0..H : NameAt(b, u.starts[s]) = AsRead(T(j))
  <2>1. \A s \in 1..Len(u.starts) : RunStart(w, P, u, s)
    BY <1>0, RunNames
  <2>2. ASSUME NEW s, NEW k \in 1..N, IsNamePiece(P[k]),
               NameAt(b, u.starts[s]) = AsRead(PieceName(w, P[k]))
        PROVE  \E j \in 0..H : NameAt(b, u.starts[s]) = AsRead(T(j))
    <3> HIDE DEF N, H, K, T, b
    <3>1. PICK j \in 0..H : k = K(j)
      BY <1>6, <2>2
    <3>2. PieceName(w, P[k]) = T(j)
      BY <1>5, <3>1
    <3> QED  BY <2>2, <3>2
  <2> HIDE DEF H, T
  <2> QED  BY <2>1, <2>2 DEF RunStart
<1>9. \A i \in 0..N : \A j \in i..N : Carried(f[i], f[j])
  BY <1>1, <1>4, RunCarries
<1>10. /\ \A k \in 0..N : L(k) \in 1..Len(b)
       /\ \A i, j \in 0..N : i < j => L(i) < L(j)
       /\ \A k \in 1..N : P[k].kind # "name" => L(k) = L(k - 1) + 1
       /\ \A k \in 1..N : IsNamePiece(P[k]) => b[L(k)].kind \in {"end", "pointer"}
       /\ \A k \in 1..N : P[k].kind = "name" /\ P[k].labels \in Seq(Proper) =>
            \A i \in (L(k - 1) + 1)..(L(k) - 1) : b[i].kind = "label"
  BY <1>1 DEF RunsThrough
<1>11. L(0) = Len(w.buffer)
  BY <1>1
<1>12. \A j \in 0..H : pl[j] = L(K(j) - 1) + 1
  OBVIOUS
<1>13. 0 \in 0..H
  BY <1>3
<1>14. pl[0] = L(0) + 1
  <2>1. K(0) - 1 = 0
    OBVIOUS
  <2> HIDE DEF pl, K, H, L
  <2> QED  BY <1>12, <1>13, <2>1
<1>15. H >= 1 => pl[1] = L(3) + 1 + B
  <2> SUFFICES ASSUME H >= 1 PROVE pl[1] = L(3) + 1 + B
    OBVIOUS
  <2>1. 1 \in 0..H /\ K(1) = 4 + B
    BY <1>3
  <2>2. pl[1] = L(3 + B) + 1
    <3>1. K(1) - 1 = 3 + B
      BY <1>3, <2>1
    <3> HIDE DEF pl, K, H, L, B
    <3> QED  BY <1>12, <2>1, <3>1
  <2>3. L(3) \in Nat
    <3> HIDE DEF L, N, b
    <3> QED  BY <1>4, <1>10
  <2>4. CASE B = 0
    <3>1. 3 + B = 3
      BY <2>4
    <3> HIDE DEF pl, L, B
    <3> QED  BY <2>2, <2>3, <2>4, <3>1
  <2>5. CASE B = 1
    <3>1. P[4] = Fixed(2) /\ 3 + B = 4 /\ 4 - 1 = 3
      BY <1>2, <1>3, <2>5
    <3>2. P[4].kind # "name"
      BY <3>1, CellTypes
    <3> HIDE DEF pl, L, B, N, b
    <3>3. L(4) = L(4 - 1) + 1
      BY <1>4, <1>10, <3>2
    <3> QED  BY <2>2, <2>3, <2>5, <3>1, <3>3
  <2> QED  BY <1>3, <2>4, <2>5
<1>16. ASSUME H >= 2, T(1) \in Seq(Proper)
       PROVE  /\ pl[2] - 1 \in pl[1]..Len(b) /\ b[pl[2] - 1].kind # "label"
              /\ \A i \in pl[1]..(pl[2] - 2) : b[i].kind = "label"
  <2>1. H = 2 /\ B = 0 /\ 1 \in 0..H /\ 2 \in 0..H
    <3> HIDE DEF H, B
    <3> QED  BY <1>3, <1>16
  <2>2. K(1) = 4 /\ K(2) = 5
    BY <2>1
  <2>3. pl[1] = L(3) + 1 /\ pl[2] = L(4) + 1
    <3>1. K(1) - 1 = 3 /\ K(2) - 1 = 4
      BY <2>2
    <3> HIDE DEF pl, K, H, L, B
    <3> QED  BY <1>12, <2>1, <3>1
  <2>4. IsNamePiece(P[4]) /\ P[4].kind = "name" /\ P[4].labels = T(1) /\ 4 - 1 = 3
    <3>1. IsNamePiece(P[4])
      <4> HIDE DEF K, H, N
      <4> QED  BY <1>5, <2>1, <2>2
    <3>2. P[4] = HostPiece(a, 1)
      <4>1. 1 \in 1..H /\ 3 + B + 1 = 4
        BY <2>1
      <4> HIDE DEF B, H, N
      <4> QED  BY <1>2, <4>1
    <3>3. T(1) = Fqdn(a.hosts[1], a.zone)
      BY DEF TheName
    <3> HIDE DEF T
    <3>4. P[4].kind = "name" /\ P[4].labels = T(1)
      BY <3>2, <3>3 DEF HostPiece, NamePiece
    <3> QED  BY <3>1, <3>4
  <2> HIDE DEF pl, K, H, L, B, N, b, T
  <2>5. /\ \A i \in (L(3) + 1)..(L(4) - 1) : b[i].kind = "label"
        /\ b[L(4)].kind \in {"end", "pointer"}
    BY <1>4, <1>10, <1>16, <2>4
  <2>6. 4 \in 0..N /\ 3 \in 0..N
    BY <1>4
  <2>7. L(3) < L(4) /\ L(3) \in 1..Len(b) /\ L(4) \in 1..Len(b)
    BY <1>10, <2>6
  <2>8. pl[2] - 1 = L(4) /\ pl[2] - 2 = L(4) - 1 /\ L(4) \in pl[1]..Len(b)
    BY <2>3, <2>7
  <2> QED  BY <2>3, <2>5, <2>8
<1>17. ASSUME NEW j \in 0..H
       PROVE  /\ pl[j] \in (L(0) + 1)..Len(b) /\ T(j) \in Seq(Label)
              /\ NameAt(b, pl[j]) = AsRead(T(j)) /\ Known(u, AsRead(T(j)))
              /\ Known(w, T(j)) /\ T(j) \in Seq(Proper) => b[pl[j]].kind # "label"
  <2> DEFINE k == K(j)
  <2>1. k \in 0..N /\ k - 1 \in 0..N /\ k - 1 >= 0
    BY <1>4, <1>5
  <2>2. pl[j] = L(k - 1) + 1
    BY <1>12
  <2>3. /\ L(k - 1) + 1 \in 1..Len(b) /\ NameAt(b, L(k - 1) + 1) = AsRead(T(j))
        /\ Known(f[k], AsRead(T(j))) /\ T(j) \in Seq(Label)
        /\ Known(f[k - 1], T(j)) /\ T(j) \in Seq(Proper) => b[L(k - 1) + 1].kind # "label"
    <3> HIDE DEF T, L, b
    <3> QED  BY <1>7
  <2> HIDE DEF k, pl, T, H, K, N, b, L
  <2>4. Carried(f[k], u) /\ Carried(w, f[k - 1])
    BY <1>1, <2>1
  <2>5. Known(u, AsRead(T(j))) /\ (Known(w, T(j)) => Known(f[k - 1], T(j)))
    BY <2>3, <2>4, CarriedFacts
  <2>6. L(0) <= L(k - 1) /\ L(0) \in 1..Len(b) /\ L(k - 1) \in 1..Len(b)
    <3>1. k - 1 = 0 \/ 0 < k - 1
      BY <2>1
    <3>2. L(0) \in 1..Len(b) /\ L(k - 1) \in 1..Len(b)
      BY <1>4, <1>10, <2>1
    <3>3. 0 < k - 1 => L(0) < L(k - 1)
      BY <1>4, <1>10, <2>1
    <3>4. k - 1 = 0 => L(0) = L(k - 1)
      OBVIOUS
    <3> QED  BY <3>1, <3>2, <3>3, <3>4
  <2>7. pl[j] \in (L(0) + 1)..Len(b)
    BY <2>2, <2>3, <2>6
  <2> QED  BY <2>2, <2>3, <2>5, <2>7
<1>18. ASSUME NEW i \in 0..H, NEW j \in 0..H, T(i) = T(j), T(j) \in Seq(Proper), pl[i] < pl[j]
       PROVE  b[pl[j]].kind # "label"
  <2> DEFINE x == K(i)
             y == K(j)
  <2>1. x \in 0..N /\ x - 1 \in 0..N /\ y \in 0..N /\ y - 1 \in 0..N /\ x \in 1..N /\ y \in 1..N
    BY <1>5
  <2>2. pl[i] = L(x - 1) + 1 /\ pl[j] = L(y - 1) + 1
    BY <1>12
  <2>3. Known(f[x], T(j)) /\ (Known(f[y - 1], T(j)) => b[L(y - 1) + 1].kind # "label")
    <3> HIDE DEF T, L, b
    <3>1. AsRead(T(i)) = T(j)
      BY <1>18 DEF AsRead
    <3> QED  BY <1>7, <1>18, <3>1
  <2> HIDE DEF x, y, pl, T, H, K, N, b, L
  <2>4. L(x - 1) \in 1..Len(b) /\ L(y - 1) \in 1..Len(b)
    BY <1>10, <2>1
  <2>5. L(x - 1) < L(y - 1)
    BY <1>18, <2>2, <2>4
  <2>6. ~(y - 1 < x - 1) /\ x - 1 # y - 1
    <3>1. y - 1 < x - 1 => L(y - 1) < L(x - 1)
      BY <1>10, <2>1
    <3> QED  BY <2>4, <2>5, <3>1
  <2>7. y - 1 \in x..N
    BY <1>4, <2>1, <2>6
  <2>8. Carried(f[x], f[y - 1])
    BY <1>9, <2>1, <2>7
  <2>9. Known(f[y - 1], T(j))
    BY <2>3, <2>8, CarriedFacts
  <2> QED  BY <2>2, <2>3, <2>9
<1> HIDE DEF pl
<1>19. Placed(w, u, a, q, L(3), pl)
  BY <1>8, <1>11, <1>14, <1>15, <1>16, <1>17, <1>18 DEF Placed
<1> QED  BY <1>19

-----------------------------------------------------------------------------
(* A record in a buffer.                                                   *)

\* The names of a record and where they are, the owner being number 0.
NameOf(r, j) == IF j = 0 THEN r.owner ELSE Fqdn(r.answer.hosts[j], r.answer.zone)

FirstHost(r) == r.rdlength + 1 + BeforeHosts(r.answer)

PlaceOf(b, r, j) ==
    IF j = 0 THEN r.at ELSE IF j = 1 THEN FirstHost(r) ELSE NameEnd(b, FirstHost(r))

\* The numbers of the names that a reader can find: not the second host's, if the first
\* name is cut short.
Numbers(r) ==
    {j \in 0..Len(r.answer.hosts) : j \in {0, 1} \/ NameOf(r, 1) \in Seq(Proper)}

\* r is in the buffer b: its length is right, and its names can be read.
RecordIn(b, r) ==
    /\ r \in RecordType /\ r.answer \in Answer
    /\ r.at > 0 /\ r.last <= Len(b) /\ r.rdlength \in r.at..(r.last - 1)
    /\ b[r.rdlength].value = Bytes(SubSeq(b, r.rdlength + 1, r.last))
    /\ \A j \in Numbers(r) :
         PlaceOf(b, r, j) \in r.at..r.last /\ NameAt(b, PlaceOf(b, r, j)) = AsRead(NameOf(r, j))

\* v is w and the record r, whose names are compressed.
RecordAdded(w, v, r) ==
    /\ Carried(w, v) /\ RecordIn(v.buffer, r)
    /\ r.at = Len(w.buffer) + 1 /\ r.last = Len(v.buffer)
    /\ \A j \in Numbers(r) :
         /\ Known(v, AsRead(NameOf(r, j)))
         /\ Known(w, NameOf(r, j)) /\ NameOf(r, j) \in Seq(Proper) =>
              v.buffer[PlaceOf(v.buffer, r, j)].kind # "label"
    /\ \A i, j \in Numbers(r) :
         /\ NameOf(r, i) = NameOf(r, j) /\ NameOf(r, j) \in Seq(Proper)
         /\ PlaceOf(v.buffer, r, i) < PlaceOf(v.buffer, r, j)
         => v.buffer[PlaceOf(v.buffer, r, j)].kind # "label"
    /\ \A s \in 1..Len(v.starts) :
         \/ \E i \in 1..Len(w.starts) : v.starts[s] = w.starts[i]
         \/ \E j \in 0..Len(r.answer.hosts) :
              NameAt(v.buffer, v.starts[s]) = AsRead(NameOf(r, j))

\* The same part of two lists.
LEMMA SameCut ==
    ASSUME NEW S, NEW s \in Seq(S), NEW t \in Seq(S), NEW m \in 1..Len(s), NEW n \in m..Len(s),
           n <= Len(t), \A i \in m..n : s[i] = t[i]
    PROVE  SubSeq(s, m, n) = SubSeq(t, m, n)
<1>1. Len(s) \in Nat /\ Len(t) \in Nat
  BY LenProperties
<1>2. m \in 1..Len(t) /\ n \in m..Len(t) /\ n - m \in Nat
  BY <1>1
<1> DEFINE x == SubSeq(s, m, n)
           y == SubSeq(t, m, n)
           k == (n - m) + 1
<1>3. x \in Seq(S) /\ Len(x) = k /\ \A i \in 1..k : x[i] = s[(m + i) - 1]
  BY CutParts
<1>4. y \in Seq(S) /\ Len(y) = k /\ \A i \in 1..k : y[i] = t[(m + i) - 1]
  BY <1>2, CutParts
<1>5. \A i \in 1..k : (m + i) - 1 \in m..n
  BY <1>1, <1>2
<1> HIDE DEF x, y, k
<1>6. Len(x) = Len(y) /\ \A i \in 1..Len(x) : x[i] = y[i]
  BY <1>3, <1>4, <1>5
<1>7. x = y
  BY <1>3, <1>4, <1>6, SeqEqual
<1> QED  BY <1>7 DEF x, y

\* v is u with the length of the data of the record a at the place `at'.
LengthWritten(u, v, a, at) ==
    v = [buffer |-> [u.buffer EXCEPT ![at] =
                       RdLength(Rdlength(a, SubSeq(u.buffer, at + 1, Len(u.buffer))))],
         starts |-> u.starts]

\* It is the right length, and nothing else is changed.
LengthRight(w, u, v, at) ==
    /\ Carried(w, v) /\ Len(v.buffer) = Len(u.buffer) /\ v.starts = u.starts
    /\ Len(w.buffer) \in Nat /\ at \in (Len(w.buffer) + 1)..(Len(v.buffer) - 1)
    /\ RdlengthAt(v.buffer, Len(w.buffer) + 1) = at
    /\ v.buffer[at].value = Bytes(SubSeq(v.buffer, at + 1, Len(v.buffer)))
    /\ \A i \in 1..Len(u.buffer) : v.buffer[i].kind = u.buffer[i].kind
    /\ \A p \in 1..Len(u.buffer) : NameAt(v.buffer, p) = NameAt(u.buffer, p)
    /\ \A n : Known(u, n) => Known(v, n)

\* The record in the buffer with its length filled in.
LEMMA RecordFilled ==
    ASSUME NEW w, NEW a, NEW q, NEW P, NEW f, NEW u, Writes(w, a, q, P, f, u),
           NEW v, LengthWritten(u, v, a, Len(f[3].buffer))
    PROVE  LengthRight(w, u, v, Len(f[3].buffer))
<1> DEFINE at == Len(f[3].buffer)
<1> DEFINE b == u.buffer
           data == SubSeq(b, at + 1, Len(b))
           m == Rdlength(a, data)
           c == [b EXCEPT ![at] = RdLength(m)]
<1>1. /\ at \in (Len(w.buffer) + 1)..(Len(b) - 1) /\ b[at] = RdLength(0)
      /\ \A i \in (Len(w.buffer) + 1)..(at - 1) : b[i].kind # "rdlength"
      /\ Len(w.buffer) \in Nat /\ Len(b) \in Nat
  BY RdlengthPlace, SMTT(30)
<1>2. data \in Seq(Cell) /\ m = Bytes(data) /\ m \in Nat
  <2>1. data = SubSeq(u.buffer, Len(f[3].buffer) + 1, Len(u.buffer))
    OBVIOUS
  <2> HIDE DEF data
  <2>2. data \in Seq(Cell) /\ Rdlength(a, data) = Bytes(data) /\ Bytes(data) \in Nat
    BY <2>1, RdlengthRight
  <2> QED  BY <2>2
<1>3. Carried(w, u) /\ GoodWriter(u) /\ b \in Buffer /\ b \in Seq(Cell)
  <2>1. Len(P) \in 4..6 /\ u = f[Len(P)]
    BY DEF Writes, RecordPieces
  <2>2. Len(P) \in 0..Len(P)
    BY <2>1
  <2>3. Carried(w, u)
    BY <2>1, <2>2 DEF Writes
  <2>4. GoodWriter(u)
    BY <2>3 DEF Carried
  <2>5. u.buffer \in Buffer
    BY <2>4 DEF GoodWriter
  <2>6. u.buffer \in Seq(Cell)
    BY <2>5, BufferParts
  <2> QED  BY <2>3, <2>4, <2>5, <2>6
<1>4. v = [buffer |-> c, starts |-> u.starts]
  BY DEF LengthWritten
<1> HIDE DEF b, data, m, c, at
<1>5. at \in 1..Len(b) /\ at + 1 \in 1..Len(b) /\ Len(b) \in (at + 1)..Len(b)
  BY <1>1
<1>6. /\ Grown(b, c) /\ Len(c) = Len(b) /\ c[at] = RdLength(m)
      /\ \A i \in 1..Len(b) : i # at => c[i] = b[i]
  <2>1. b \in Buffer /\ at \in 1..Len(b) /\ b[at] = RdLength(0) /\ m \in Nat
        /\ Filled(b, at, m, c)
    BY <1>1, <1>2, <1>3, <1>5 DEF c, Filled
  <2> QED  BY <2>1, RdlengthFilled
<1>7. /\ c \in Buffer /\ \A i \in 1..Len(b) : c[i].kind = b[i].kind
      /\ \A p \in 1..Len(b) : NameAt(c, p) = NameAt(b, p)
  <2>1. \A p \in 1..Len(b) : NameAt(c, p) = NameAt(b, p)
    BY <1>6, NameKept
  <2> QED  BY <1>6, <2>1 DEF Grown
<1>8. v.buffer = c /\ v.starts = u.starts /\ v \in [buffer : Buffer, starts : Seq(Nat)]
  <2>1. u.starts \in Seq(Nat)
    BY <1>3 DEF GoodWriter
  <2>2. c \in Buffer
    BY <1>7
  <2>3. [buffer |-> c, starts |-> u.starts] \in [buffer : Buffer, starts : Seq(Nat)]
    BY <2>1, <2>2
  <2> QED  BY <1>4, <2>3
<1>9. GoodWriter(v)
  <2>1. ASSUME NEW i \in 1..Len(u.starts) PROVE u.starts[i] \in 1..Len(c)
    <3>1. u.starts[i] \in 1..Len(b)
      BY <1>3 DEF GoodWriter, b
    <3> QED  BY <1>6, <3>1
  <2> QED  BY <1>8, <2>1 DEF GoodWriter
<1>10. Carried(w, v)
  <2>1. Grown(w.buffer, b)
    BY <1>3 DEF Carried, b
  <2>2. Grown(w.buffer, c)
    BY <1>6, <2>1, GrownMore
  <2>3. ASSUME NEW i \in 1..Len(w.buffer) PROVE c[i] = w.buffer[i]
    <3>1. i \in 1..Len(b) /\ i # at
      BY <1>1
    <3>2. b[i] = w.buffer[i]
      BY <1>3 DEF Carried, b
    <3> QED  BY <1>6, <3>1, <3>2
  <2>4. \A i \in 1..Len(w.starts) : \E j \in 1..Len(u.starts) : u.starts[j] = w.starts[i]
    BY <1>3 DEF Carried
  <2>5. GoodWriter(w)
    BY <1>3 DEF Carried
  <2> QED  BY <1>8, <1>9, <2>2, <2>3, <2>4, <2>5 DEF Carried
<1>11. RdlengthAt(c, Len(w.buffer) + 1) = at
  <2> DEFINE from == Len(w.buffer) + 1
  <2>1. from \in Nat /\ at \in from..Len(c) /\ Len(c) \in Nat
    BY <1>1, <1>6
  <2>2. c[at].kind = "rdlength"
    BY <1>2, <1>6, CellTypes
  <2>3. ASSUME NEW i \in from..(at - 1) PROVE c[i].kind # "rdlength"
    <3>1. i \in 1..Len(b)
      BY <1>1
    <3> QED  BY <1>1, <1>7, <3>1
  <2> HIDE DEF from
  <2>4. RdlengthAt(c, from) = at
    BY <2>1, <2>2, <2>3, RdlengthFound
  <2> QED  BY <2>4 DEF from
<1>12. c[at].value = Bytes(SubSeq(c, at + 1, Len(c)))
  <2>1. c \in Seq(Cell)
    BY <1>7, BufferParts
  <2>2. \A i \in (at + 1)..Len(b) : b[i] = c[i]
    <3>1. \A i \in (at + 1)..Len(b) : i \in 1..Len(b) /\ i # at
      BY <1>1
    <3> QED  BY <1>6, <3>1
  <2> DEFINE x == at + 1
             y == Len(b)
  <2>3. b \in Seq(Cell) /\ c \in Seq(Cell) /\ x \in 1..Len(b) /\ y \in x..Len(b)
        /\ y <= Len(c) /\ \A i \in x..y : b[i] = c[i]
    BY <1>1, <1>3, <1>5, <1>6, <2>1, <2>2
  <2> HIDE DEF x, y
  <2>4. SubSeq(b, x, y) = SubSeq(c, x, y)
    BY <2>3, SameCut
  <2>5. SubSeq(c, at + 1, Len(c)) = data
    BY <1>6, <2>4 DEF x, y, data
  <2>6. RdLength(m).value = m
    BY <1>2, CellTypes
  <2> QED  BY <1>2, <1>6, <2>5, <2>6
<1>13. ASSUME NEW n, Known(u, n) PROVE Known(v, n)
  <2>1. PICK i \in 1..Len(u.starts) : NameAt(b, u.starts[i]) = n
    BY <1>13 DEF Known, b
  <2>2. u.starts[i] \in 1..Len(b)
    BY <1>3 DEF GoodWriter, Readable, b
  <2>3. NameAt(c, u.starts[i]) = n
    BY <1>7, <2>1, <2>2
  <2> QED  BY <1>8, <2>3 DEF Known
<1>14. at \in (Len(w.buffer) + 1)..(Len(c) - 1) /\ Len(w.buffer) \in Nat
  BY <1>1, <1>6
<1>15. \A n : Known(u, n) => Known(v, n)
  BY <1>13
<1> QED  BY <1>6, <1>7, <1>8, <1>10, <1>11, <1>12, <1>14, <1>15 DEF LengthRight, b, at

\* What Write does: it adds the record.
LEMMA WriteAdds ==
    ASSUME NEW w, NEW a, NEW q, MayStore(w, a, q), NEW v, v = Write(w, a, q), NEW r,
           r = [answer |-> a, owner |-> OwnerName(w, a, q), at |-> Len(w.buffer) + 1,
                rdlength |-> RdlengthAt(v.buffer, Len(w.buffer) + 1), last |-> Len(v.buffer)]
    PROVE  RecordAdded(w, v, r)
<1> DEFINE H == Len(a.hosts)
           B == BeforeHosts(a)
           T(j) == TheName(w, a, q, j)
<1>1. PICK P, f : /\ P = WriteHeader(a, q) \o Rdata(a)
                  /\ Writes(w, a, q, P, f, WritePieces(w, P))
  BY WritesRecord
<1> DEFINE u == WritePieces(w, P)
           at == Len(f[3].buffer)
           b == u.buffer
           c == v.buffer
<1>2. Writes(w, a, q, P, f, u)
  BY <1>1
<1>3. /\ RdlengthAt(b, Len(w.buffer) + 1) = at
      /\ Len(w.buffer) \in Nat /\ Len(b) \in Nat
  <2> HIDE DEF u
  <2> QED  BY <1>2, RdlengthPlace
<1>4. u = [buffer |-> b, starts |-> u.starts]
  <2> HIDE DEF u
  <2>1. Len(P) \in 4..6 /\ u = f[Len(P)]
    BY <1>2 DEF Writes, RecordPieces
  <2>2. Len(P) \in 0..Len(P)
    BY <2>1
  <2>3. Carried(w, u)
    BY <1>2, <2>1, <2>2 DEF Writes
  <2>4. u \in [buffer : Buffer, starts : Seq(Nat)]
    BY <2>3 DEF Carried, GoodWriter
  <2> QED  BY <2>4
<1>5. v = [u EXCEPT !.buffer[RdlengthAt(b, Len(w.buffer) + 1)] =
             RdLength(Rdlength(a, SubSeq(b, RdlengthAt(b, Len(w.buffer) + 1) + 1, Len(b))))]
  BY <1>1 DEF Write
<1> HIDE DEF u
<1>6. v = [u EXCEPT !.buffer[at] = RdLength(Rdlength(a, SubSeq(b, at + 1, Len(b))))]
  BY <1>3, <1>5
<1>7. v = [buffer |-> [b EXCEPT ![at] = RdLength(Rdlength(a, SubSeq(b, at + 1, Len(b))))],
           starts |-> u.starts]
  <2> DEFINE x == RdLength(Rdlength(a, SubSeq(b, at + 1, Len(b))))
             st == u.starts
  <2>1. v = [u EXCEPT !.buffer[at] = x] /\ u = [buffer |-> b, starts |-> st]
    BY <1>4, <1>6
  <2> HIDE DEF x, at, b, st
  <2>2. v = [buffer |-> [b EXCEPT ![at] = x], starts |-> st]
    BY <2>1
  <2> QED  BY <2>2 DEF x, st
<1>8. /\ Carried(w, v) /\ Len(c) = Len(b) /\ v.starts = u.starts
      /\ Len(w.buffer) \in Nat /\ at \in (Len(w.buffer) + 1)..(Len(c) - 1)
      /\ RdlengthAt(c, Len(w.buffer) + 1) = at
      /\ c[at].value = Bytes(SubSeq(c, at + 1, Len(c)))
      /\ \A i \in 1..Len(b) : c[i].kind = b[i].kind
      /\ \A p \in 1..Len(b) : NameAt(c, p) = NameAt(b, p)
      /\ \A n : Known(u, n) => Known(v, n)
  <2>1. LengthWritten(u, v, a, at)
    BY <1>7 DEF LengthWritten
  <2>2. LengthRight(w, u, v, at)
    BY <1>2, <2>1, RecordFilled
  <2> HIDE DEF at
  <2> QED  BY <2>2 DEF LengthRight
<1>9. PICK pl : Placed(w, u, a, q, at, pl)
  BY <1>2, NamesPlaced
<1>10. /\ pl[0] = Len(w.buffer) + 1
       /\ H >= 1 => pl[1] = at + 1 + B
       /\ H >= 2 /\ T(1) \in Seq(Proper) =>
            /\ pl[2] - 1 \in pl[1]..Len(b) /\ b[pl[2] - 1].kind # "label"
            /\ \A i \in pl[1]..(pl[2] - 2) : b[i].kind = "label"
       /\ \A j \in 0..H :
            /\ pl[j] \in (Len(w.buffer) + 1)..Len(b) /\ NameAt(b, pl[j]) = AsRead(T(j))
            /\ Known(u, AsRead(T(j))) /\ T(j) \in Seq(Label)
            /\ Known(w, T(j)) /\ T(j) \in Seq(Proper) => b[pl[j]].kind # "label"
       /\ \A i, j \in 0..H :
            T(i) = T(j) /\ T(j) \in Seq(Proper) /\ pl[i] < pl[j] => b[pl[j]].kind # "label"
       /\ \A s \in 1..Len(u.starts) :
            \/ \E i \in 1..Len(w.starts) : u.starts[s] = w.starts[i]
            \/ \E j \in 0..H : NameAt(b, u.starts[s]) = AsRead(T(j))
  BY <1>9 DEF Placed
<1>11. a \in Answer /\ H \in 0..2 /\ a.owner \in Seq(Label) /\ a \in AnswerType
  BY AnswerParts, AnswerAssumption DEF MayStore
<1>12. /\ r.answer = a /\ r.owner = OwnerName(w, a, q) /\ r.at = Len(w.buffer) + 1
       /\ r.rdlength = at /\ r.last = Len(c)
  BY <1>8
<1>13. r \in RecordType
  <2>1. OwnerName(w, a, q) \in Seq(Label)
    BY <1>11, ProperIsLabel DEF OwnerName, MayStore, Readable
  <2>2. Len(w.buffer) + 1 \in Nat /\ at \in Nat /\ Len(c) \in Nat
    <3> HIDE DEF at, c, b
    <3> QED  BY <1>3, <1>8
  <2> HIDE DEF at, c
  <2> QED  BY <1>8, <1>11, <2>1, <2>2 DEF RecordType, c
<1> HIDE DEF H, B, T, b, c, at
<1>14. \A j \in 0..H : NameOf(r, j) = T(j)
  BY <1>12 DEF NameOf, T, TheName
<1>0. H = Len(r.answer.hosts)
  BY <1>12 DEF H
<1> DEFINE M == Numbers(r)
<1>25. \A j \in M : j \in 0..H /\ (j \in {0, 1} \/ T(1) \in Seq(Proper))
  <2> SUFFICES ASSUME NEW j \in M PROVE j \in 0..H /\ (j \in {0, 1} \/ T(1) \in Seq(Proper))
    OBVIOUS
  <2>1. j \in 0..H /\ (j \in {0, 1} \/ NameOf(r, 1) \in Seq(Proper))
    BY <1>0 DEF Numbers
  <2>2. j \notin {0, 1} => 1 \in 0..H
    BY <1>11, <2>1
  <2> QED  BY <1>14, <2>1, <2>2
<1> HIDE DEF M
<1>15. ASSUME NEW j \in M PROVE PlaceOf(c, r, j) = pl[j]
  <2>0. j \in 0..H /\ (j \in {0, 1} \/ T(1) \in Seq(Proper))
    BY <1>25
  <2>1. j = 0 \/ (j = 1 /\ H >= 1) \/ (j = 2 /\ H >= 2)
    BY <1>11, <2>0
  <2>2. FirstHost(r) = at + 1 + B
    BY <1>12 DEF FirstHost, B
  <2>3. CASE j = 0
    BY <1>10, <1>12, <2>3 DEF PlaceOf
  <2>4. CASE j = 1 /\ H >= 1
    BY <1>10, <2>2, <2>4 DEF PlaceOf
  <2>5. CASE j = 2 /\ H >= 2
    <3>0. H >= 2 /\ T(1) \in Seq(Proper)
      BY <2>0, <2>5
    <3> DEFINE x == pl[1]
               y == pl[2] - 1
    <3>1. 1 \in 0..H /\ 2 \in 0..H /\ H >= 1
      BY <1>11, <2>5
    <3>2. pl[1] \in (Len(w.buffer) + 1)..Len(b) /\ pl[2] \in (Len(w.buffer) + 1)..Len(b)
      BY <1>10, <3>1
    <3>3. x \in Nat /\ y \in x..Len(c) /\ Len(c) \in Nat /\ y \in 1..Len(b) /\ pl[2] = y + 1
          /\ pl[2] - 2 = y - 1
      BY <1>3, <1>8, <1>10, <3>0, <3>2, SMTT(30)
    <3>4. c[y].kind # "label"
      BY <1>8, <1>10, <3>0, <3>3
    <3>5. ASSUME NEW i \in x..(y - 1) PROVE c[i].kind = "label"
      <4>1. i \in 1..Len(b) /\ i \in pl[1]..(pl[2] - 2)
        BY <1>3, <3>2, <3>3
      <4> QED  BY <1>8, <1>10, <3>0, <4>1
    <3>6. NameEnd(c, x) = y + 1
      <4> HIDE DEF x, y
      <4> QED  BY <3>3, <3>4, <3>5, NameEndFound
    <3>7. PlaceOf(c, r, j) = NameEnd(c, FirstHost(r))
      BY <2>5 DEF PlaceOf
    <3> QED  BY <1>10, <2>2, <2>5, <3>1, <3>3, <3>6, <3>7
  <2> QED  BY <2>1, <2>3, <2>4, <2>5
<1>16. ASSUME NEW j \in M
       PROVE  /\ PlaceOf(c, r, j) \in r.at..r.last
              /\ NameAt(c, PlaceOf(c, r, j)) = AsRead(NameOf(r, j))
              /\ Known(v, AsRead(NameOf(r, j)))
              /\ Known(w, NameOf(r, j)) /\ NameOf(r, j) \in Seq(Proper) =>
                   c[PlaceOf(c, r, j)].kind # "label"
  <2>0. j \in 0..H /\ NameOf(r, j) = T(j)
    BY <1>14, <1>25
  <2>1. /\ pl[j] \in (Len(w.buffer) + 1)..Len(b) /\ NameAt(b, pl[j]) = AsRead(T(j))
        /\ Known(u, AsRead(T(j)))
        /\ Known(w, T(j)) /\ T(j) \in Seq(Proper) => b[pl[j]].kind # "label"
    BY <1>10, <2>0
  <2>2. pl[j] \in 1..Len(b)
    BY <1>3, <2>1
  <2>3. NameAt(c, pl[j]) = AsRead(T(j)) /\ c[pl[j]].kind = b[pl[j]].kind /\ Known(v, AsRead(T(j)))
    BY <1>8, <2>1, <2>2
  <2>4. pl[j] \in r.at..r.last
    BY <1>8, <1>12, <2>1
  <2> QED  BY <1>15, <2>0, <2>1, <2>3, <2>4
<1>17. RecordIn(c, r)
  <2>1. r.at > 0 /\ r.last <= Len(c) /\ r.rdlength \in r.at..(r.last - 1)
    BY <1>3, <1>8, <1>12
  <2>2. c[r.rdlength].value = Bytes(SubSeq(c, r.rdlength + 1, r.last))
    BY <1>8, <1>12
  <2>3. H = Len(r.answer.hosts) /\ r.answer \in Answer
    BY <1>11, <1>12 DEF H
  <2> QED  BY <1>13, <1>16, <2>1, <2>2, <2>3 DEF RecordIn, M
<1>18. ASSUME NEW i \in M, NEW j \in M, NameOf(r, i) = NameOf(r, j),
              NameOf(r, j) \in Seq(Proper), PlaceOf(c, r, i) < PlaceOf(c, r, j)
       PROVE  c[PlaceOf(c, r, j)].kind # "label"
  <2>0. i \in 0..H /\ j \in 0..H
    BY <1>25
  <2>1. T(i) = T(j) /\ T(j) \in Seq(Proper) /\ pl[i] < pl[j]
    BY <1>14, <1>15, <1>18, <2>0
  <2>2. b[pl[j]].kind # "label" /\ pl[j] \in (Len(w.buffer) + 1)..Len(b)
    BY <1>10, <2>0, <2>1
  <2>3. pl[j] \in 1..Len(b)
    BY <1>3, <2>2
  <2> QED  BY <1>8, <1>15, <2>2, <2>3
<1>19. ASSUME NEW s \in 1..Len(v.starts)
       PROVE  \/ \E i \in 1..Len(w.starts) : v.starts[s] = w.starts[i]
              \/ \E j \in 0..H : NameAt(c, v.starts[s]) = AsRead(NameOf(r, j))
  <2>1. s \in 1..Len(u.starts) /\ v.starts[s] = u.starts[s]
    BY <1>8
  <2>2. v.starts[s] \in 1..Len(b)
    <3>1. v.starts[s] \in 1..Len(c)
      BY <1>8 DEF Carried, GoodWriter, c
    <3> QED  BY <1>8, <3>1
  <2>3. NameAt(c, v.starts[s]) = NameAt(b, u.starts[s])
    BY <1>8, <2>1, <2>2
  <2> QED  BY <1>10, <1>14, <2>1, <2>3
<1>21. Carried(w, v) /\ RecordIn(v.buffer, r) /\ r.at = Len(w.buffer) + 1 /\ r.last = Len(v.buffer)
  BY <1>8, <1>12, <1>17 DEF c
<1>22. \A j \in Numbers(r) :
         /\ Known(v, AsRead(NameOf(r, j)))
         /\ Known(w, NameOf(r, j)) /\ NameOf(r, j) \in Seq(Proper) =>
              v.buffer[PlaceOf(v.buffer, r, j)].kind # "label"
  BY <1>16 DEF c, M
<1>23. \A i, j \in Numbers(r) :
         /\ NameOf(r, i) = NameOf(r, j) /\ NameOf(r, j) \in Seq(Proper)
         /\ PlaceOf(v.buffer, r, i) < PlaceOf(v.buffer, r, j)
         => v.buffer[PlaceOf(v.buffer, r, j)].kind # "label"
  BY <1>18 DEF c, M
<1>24. \A s \in 1..Len(v.starts) :
         \/ \E i \in 1..Len(w.starts) : v.starts[s] = w.starts[i]
         \/ \E j \in 0..Len(r.answer.hosts) :
              NameAt(v.buffer, v.starts[s]) = AsRead(NameOf(r, j))
  BY <1>0, <1>19 DEF c
<1> QED  BY <1>21, <1>22, <1>23, <1>24 DEF RecordAdded

\* The end of a name stays where it is while the buffer grows.
LEMMA NameEndKept ==
    ASSUME NEW b \in Buffer, NEW c \in Buffer, Len(b) <= Len(c),
           \A i \in 1..Len(b) : c[i] = b[i], NEW p \in 1..Len(b)
    PROVE  NameEnd(c, p) = NameEnd(b, p)
<1>1. /\ b \in Seq(Cell) /\ Len(b) \in Nat /\ Len(c) \in Nat /\ b[Len(b)].kind # "label"
      /\ \A i \in 1..Len(b) : CellAt(b, i) = b[i]
  BY BufferParts DEF Sealed
<1>2. p \in 0..(Len(b) + 1)
  BY <1>1
<1>3. PICK e \in p..(Len(b) + 1) :
        CellAt(b, e).kind # "label" /\ \A i \in p..(e - 1) : CellAt(b, i).kind = "label"
  BY <1>1, <1>2, RunEnds
<1>4. e # Len(b) + 1
  <2> SUFFICES ASSUME e = Len(b) + 1 PROVE FALSE
    OBVIOUS
  <2>1. Len(b) \in p..(e - 1) /\ Len(b) \in 1..Len(b)
    BY <1>1
  <2> QED  BY <1>1, <1>3, <2>1
<1>5. e \in p..Len(b) /\ e \in p..Len(c) /\ p \in Nat
  BY <1>1, <1>3, <1>4
<1>6. \A i \in p..e : i \in 1..Len(b) /\ CellAt(b, i) = b[i] /\ c[i] = b[i]
  <2>1. \A i \in p..e : i \in 1..Len(b)
    BY <1>1, <1>5
  <2> QED  BY <1>1, <2>1
<1>7. e \in p..e /\ \A i \in p..(e - 1) : i \in p..e
  BY <1>5
<1>8. b[e].kind # "label" /\ c[e].kind # "label"
  BY <1>3, <1>6, <1>7
<1>9. \A i \in p..(e - 1) : b[i].kind = "label" /\ c[i].kind = "label"
  BY <1>3, <1>6, <1>7
<1>10. NameEnd(b, p) = e + 1
  BY <1>1, <1>5, <1>8, <1>9, NameEndFound
<1>11. NameEnd(c, p) = e + 1
  BY <1>1, <1>5, <1>8, <1>9, NameEndFound
<1> QED  BY <1>10, <1>11

\* The names of r are in c where they are in b, and begin with the same cell.
PlacesKept(b, c, r) ==
    \A j \in Numbers(r) : /\ PlaceOf(c, r, j) = PlaceOf(b, r, j)
                          /\ PlaceOf(b, r, j) \in 1..Len(b)
                          /\ c[PlaceOf(c, r, j)] = b[PlaceOf(b, r, j)]

\* A record stays what it is while the buffer grows.
LEMMA RecordKept ==
    ASSUME NEW w, NEW v, Carried(w, v), NEW r, RecordIn(w.buffer, r)
    PROVE  RecordIn(v.buffer, r) /\ PlacesKept(w.buffer, v.buffer, r)
<1> DEFINE b == w.buffer
           c == v.buffer
           M == Numbers(r)
<1>1. b \in Buffer /\ c \in Buffer /\ \A i \in 1..Len(b) : c[i] = b[i]
  BY DEF Carried, GoodWriter
<1>2. Len(b) \in Nat /\ Len(c) \in Nat /\ Len(b) <= Len(c)
  BY CarriedFacts
<1>3. \A p \in 1..Len(b) : NameAt(c, p) = NameAt(b, p)
  BY CarriedFacts
<1>4. /\ r \in RecordType /\ r.answer \in Answer
      /\ r.at > 0 /\ r.last <= Len(b) /\ r.rdlength \in r.at..(r.last - 1)
      /\ b[r.rdlength].value = Bytes(SubSeq(b, r.rdlength + 1, r.last))
      /\ \A j \in M :
           PlaceOf(b, r, j) \in r.at..r.last /\ NameAt(b, PlaceOf(b, r, j)) = AsRead(NameOf(r, j))
  BY DEF RecordIn
<1>5. r.at \in Nat /\ r.last \in Nat /\ r.rdlength \in Nat
  BY <1>4 DEF RecordType
<1>6. \A j \in M : j \notin {0, 1} => 1 \in M
  <2> DEFINE H == Len(r.answer.hosts)
  <2>1. H \in 0..2
    BY <1>4, AnswerParts
  <2>2. M = {j \in 0..H : j \in {0, 1} \/ NameOf(r, 1) \in Seq(Proper)}
    BY DEF Numbers
  <2> HIDE DEF H, M
  <2> QED  BY <2>1, <2>2
<1>7. b \in Seq(Cell) /\ c \in Seq(Cell)
  BY <1>1, BufferParts
<1> HIDE DEF b, c, M
<1>8. \A j \in M : PlaceOf(b, r, j) \in 1..Len(b)
  BY <1>2, <1>4, <1>5
<1>9. ASSUME NEW j \in M PROVE PlaceOf(c, r, j) = PlaceOf(b, r, j)
  <2>1. CASE j \in {0, 1}
    BY <2>1 DEF PlaceOf
  <2>2. CASE j \notin {0, 1}
    <3>1. 1 \in M /\ j # 0 /\ j # 1
      BY <1>6, <2>2
    <3>2. FirstHost(r) \in 1..Len(b)
      <4>1. PlaceOf(b, r, 1) = FirstHost(r)
        BY DEF PlaceOf
      <4> QED  BY <1>8, <3>1, <4>1
    <3>3. NameEnd(c, FirstHost(r)) = NameEnd(b, FirstHost(r))
      <4> DEFINE p == FirstHost(r)
      <4> HIDE DEF p
      <4>1. p \in 1..Len(b)
        BY <3>2 DEF p
      <4>2. NameEnd(c, p) = NameEnd(b, p)
        BY <1>1, <1>2, <4>1, NameEndKept
      <4> QED  BY <4>2 DEF p
    <3> QED  BY <3>1, <3>3 DEF PlaceOf
  <2> QED  BY <2>1, <2>2
<1>10. SubSeq(c, r.rdlength + 1, r.last) = SubSeq(b, r.rdlength + 1, r.last)
  <2> DEFINE x == r.rdlength + 1
             y == r.last
  <2>1. x \in 1..Len(b) /\ y \in x..Len(b) /\ y <= Len(c)
    BY <1>2, <1>4, <1>5
  <2>2. \A i \in x..y : i \in 1..Len(b)
    BY <1>2, <2>1
  <2>3. \A i \in x..y : b[i] = c[i]
    BY <1>1, <2>2
  <2> HIDE DEF x, y
  <2>4. SubSeq(b, x, y) = SubSeq(c, x, y)
    BY <1>7, <2>1, <2>3, SameCut
  <2> QED  BY <2>4 DEF x, y
<1>11. r.rdlength \in 1..Len(b) /\ r.last <= Len(c)
  BY <1>2, <1>4, <1>5
<1>12. \A j \in M : /\ PlaceOf(c, r, j) \in r.at..r.last
                       /\ NameAt(c, PlaceOf(c, r, j)) = AsRead(NameOf(r, j))
  BY <1>3, <1>4, <1>8, <1>9
<1>13. c[r.rdlength].value = Bytes(SubSeq(c, r.rdlength + 1, r.last))
  BY <1>1, <1>4, <1>10, <1>11
<1>14. RecordIn(c, r)
  BY <1>4, <1>11, <1>12, <1>13 DEF RecordIn, M
<1>15. \A j \in M : c[PlaceOf(c, r, j)] = b[PlaceOf(b, r, j)]
  BY <1>1, <1>8, <1>9
<1> QED  BY <1>8, <1>9, <1>14, <1>15 DEF b, c, M, PlacesKept

-----------------------------------------------------------------------------
(* The records of a reply.                                                 *)

\* All records are in the buffer, one after the other up to its end.
RecordsIn(b, recs) ==
    /\ recs \in Seq(RecordType)
    /\ \A i \in 1..Len(recs) : RecordIn(b, recs[i])
    /\ \A i \in 1..Len(recs) : recs[i].last = IF i < Len(recs) THEN recs[i + 1].at - 1 ELSE Len(b)

\* Of two names that are the same and can be read the second has no label.
Shared(b, recs) ==
    \A i, k \in 1..Len(recs) :
        \A x \in Numbers(recs[i]), y \in Numbers(recs[k]) :
            /\ NameOf(recs[i], x) = NameOf(recs[k], y) /\ NameOf(recs[k], y) \in Seq(Proper)
            /\ PlaceOf(b, recs[i], x) < PlaceOf(b, recs[k], y)
            => b[PlaceOf(b, recs[k], y)].kind # "label"

\* The known starts are the names of the records.
Remembered(w, recs) ==
    /\ \A i \in 1..Len(recs) : \A j \in Numbers(recs[i]) : Known(w, AsRead(NameOf(recs[i], j)))
    /\ \A s \in 1..Len(w.starts) :
         \E i \in 1..Len(recs) : \E j \in 0..Len(recs[i].answer.hosts) :
            NameAt(w.buffer, w.starts[s]) = AsRead(NameOf(recs[i], j))

Reply(w, recs) ==
    GoodWriter(w) /\ RecordsIn(w.buffer, recs) /\ Shared(w.buffer, recs) /\ Remembered(w, recs)

\* A reply with one more record is a reply.
LEMMA ReplyGrows ==
    ASSUME NEW w, NEW recs, Reply(w, recs), NEW v, NEW r, RecordAdded(w, v, r)
    PROVE  Reply(v, Append(recs, r))
<1> DEFINE b == w.buffer
           c == v.buffer
           N == Len(recs)
           more == Append(recs, r)
<1>1. GoodWriter(w) /\ RecordsIn(b, recs) /\ Shared(b, recs) /\ Remembered(w, recs)
  BY DEF Reply
<1>2. Carried(w, v) /\ RecordIn(c, r) /\ r.at = Len(b) + 1 /\ r.last = Len(c)
  BY DEF RecordAdded
<1>3. recs \in Seq(RecordType) /\ r \in RecordType /\ N \in Nat
  BY <1>1, <1>2, LenProperties DEF RecordsIn, RecordIn
<1>4. /\ more \in Seq(RecordType) /\ Len(more) = N + 1
      /\ \A i \in 1..N : more[i] = recs[i]
      /\ more[N + 1] = r
  BY <1>3, AppendProperties
<1>5. GoodWriter(v) /\ Len(b) \in Nat /\ Len(c) \in Nat
  BY <1>2, CarriedFacts DEF Carried
<1>6. \A i \in 1..Len(more) : i \in 1..N \/ i = N + 1
  BY <1>3, <1>4
<1>7. \A i \in 1..N :
        /\ RecordIn(b, recs[i]) /\ RecordIn(c, recs[i])
        /\ \A j \in Numbers(recs[i]) :
             /\ PlaceOf(c, recs[i], j) = PlaceOf(b, recs[i], j)
             /\ PlaceOf(b, recs[i], j) \in 1..Len(b)
             /\ c[PlaceOf(c, recs[i], j)] = b[PlaceOf(b, recs[i], j)]
  <2>1. ASSUME NEW x, RecordIn(b, x) PROVE RecordIn(c, x) /\ PlacesKept(b, c, x)
    <3>1. Carried(w, v) /\ RecordIn(w.buffer, x)
      BY <1>2, <2>1
    <3>2. RecordIn(v.buffer, x) /\ PlacesKept(w.buffer, v.buffer, x)
      BY <3>1, RecordKept
    <3> QED  BY <3>2
  <2>2. \A i \in 1..N : RecordIn(b, recs[i])
    BY <1>1 DEF RecordsIn
  <2>3. \A i \in 1..N : RecordIn(b, recs[i]) /\ RecordIn(c, recs[i]) /\ PlacesKept(b, c, recs[i])
    <3> HIDE DEF b, c, N
    <3> QED  BY <2>1, <2>2
  <2> QED  BY <2>3 DEF PlacesKept
<1>8. \A j \in Numbers(r) : PlaceOf(c, r, j) \in Nat /\ PlaceOf(c, r, j) > Len(b)
  <2>1. r.last \in Nat /\ r.at \in Nat
    BY <1>3 DEF RecordType
  <2>2. \A j \in Numbers(r) : PlaceOf(c, r, j) \in r.at..r.last
    BY <1>2 DEF RecordIn
  <2> HIDE DEF b, c
  <2> QED  BY <1>2, <1>5, <2>1, <2>2
<1> HIDE DEF more, b, c, N
<1>9. RecordsIn(c, more)
  <2>1. \A i \in 1..Len(more) : RecordIn(c, more[i])
    BY <1>2, <1>4, <1>6, <1>7
  <2>2. ASSUME NEW i \in 1..Len(more)
        PROVE  more[i].last = IF i < Len(more) THEN more[i + 1].at - 1 ELSE Len(c)
    <3>1. CASE i = N + 1
      BY <1>2, <1>3, <1>4, <3>1
    <3>2. CASE i \in 1..N /\ i # N
      <4>1. i < Len(more) /\ i < N /\ i + 1 \in 1..N
        BY <1>3, <1>4, <3>2
      <4>2. recs[i].last = recs[i + 1].at - 1
        BY <1>1, <3>2, <4>1 DEF RecordsIn, N
      <4> QED  BY <1>4, <3>2, <4>1, <4>2
    <3>3. CASE i \in 1..N /\ i = N
      <4>1. i < Len(more) /\ ~(i < N)
        BY <1>3, <1>4, <3>3
      <4>2. recs[i].last = Len(b)
        BY <1>1, <3>3, <4>1 DEF RecordsIn, N
      <4>3. more[i] = recs[i] /\ more[i + 1] = r
        BY <1>4, <3>3
      <4>4. (Len(b) + 1) - 1 = Len(b)
        BY <1>5
      <4> QED  BY <1>2, <4>1, <4>2, <4>3, <4>4
    <3> QED  BY <1>6, <3>1, <3>2, <3>3
  <2> QED  BY <1>4, <2>1, <2>2 DEF RecordsIn
<1>10. Remembered(v, more)
  <2>1. ASSUME NEW i \in 1..Len(more), NEW j \in Numbers(more[i])
        PROVE  Known(v, AsRead(NameOf(more[i], j)))
    <3>1. CASE i \in 1..N
      <4>1. Known(w, AsRead(NameOf(recs[i], j)))
        BY <1>1, <1>4, <3>1 DEF Remembered, N
      <4> QED  BY <1>2, <1>4, <3>1, <4>1, CarriedFacts
    <3>2. CASE i = N + 1
      BY <1>4, <3>2 DEF RecordAdded
    <3> QED  BY <1>6, <3>1, <3>2
  <2>2. ASSUME NEW s \in 1..Len(v.starts)
        PROVE  \E i \in 1..Len(more) : \E j \in 0..Len(more[i].answer.hosts) :
                  NameAt(c, v.starts[s]) = AsRead(NameOf(more[i], j))
    <3>1. CASE \E h \in 1..Len(w.starts) : v.starts[s] = w.starts[h]
      <4>1. PICK h \in 1..Len(w.starts) : v.starts[s] = w.starts[h]
        BY <3>1
      <4>2. PICK i \in 1..N : \E j \in 0..Len(recs[i].answer.hosts) :
              NameAt(b, w.starts[h]) = AsRead(NameOf(recs[i], j))
        BY <1>1 DEF Remembered, N, b
      <4>3. w.starts[h] \in 1..Len(b)
        BY <1>1 DEF GoodWriter, Readable, b
      <4>4. NameAt(c, v.starts[s]) = NameAt(b, w.starts[h])
        BY <1>2, <4>1, <4>3, CarriedFacts DEF b, c
      <4>5. i \in 1..Len(more) /\ more[i] = recs[i]
        BY <1>3, <1>4
      <4> QED  BY <4>2, <4>4, <4>5
    <3>2. CASE \E j \in 0..Len(r.answer.hosts) : NameAt(c, v.starts[s]) = AsRead(NameOf(r, j))
      <4>1. N + 1 \in 1..Len(more)
        BY <1>3, <1>4
      <4> QED  BY <1>4, <3>2, <4>1
    <3> QED  BY <3>1, <3>2 DEF RecordAdded, c
  <2> QED  BY <2>1, <2>2 DEF Remembered, c
<1>11. Shared(c, more)
  <2> SUFFICES ASSUME NEW i \in 1..Len(more), NEW k \in 1..Len(more),
                      NEW x \in Numbers(more[i]), NEW y \in Numbers(more[k]),
                      NameOf(more[i], x) = NameOf(more[k], y), NameOf(more[k], y) \in Seq(Proper),
                      PlaceOf(c, more[i], x) < PlaceOf(c, more[k], y)
               PROVE  c[PlaceOf(c, more[k], y)].kind # "label"
    BY DEF Shared
  <2>1. CASE i \in 1..N /\ k \in 1..N
    <3>1. more[i] = recs[i] /\ more[k] = recs[k]
      BY <1>4, <2>1
    <3>2. /\ PlaceOf(c, recs[i], x) = PlaceOf(b, recs[i], x)
          /\ PlaceOf(c, recs[k], y) = PlaceOf(b, recs[k], y)
          /\ c[PlaceOf(c, recs[k], y)] = b[PlaceOf(b, recs[k], y)]
      BY <1>7, <2>1, <3>1
    <3>3. b[PlaceOf(b, recs[k], y)].kind # "label"
      BY <1>1, <2>1, <3>1, <3>2 DEF Shared, N
    <3> QED  BY <3>1, <3>2, <3>3
  <2>2. CASE i \in 1..N /\ k = N + 1
    <3>1. more[i] = recs[i] /\ more[k] = r
      BY <1>4, <2>2
    <3>2. Known(w, NameOf(r, y))
      <4>1. Known(w, AsRead(NameOf(recs[i], x)))
        BY <1>1, <2>2, <3>1 DEF Remembered, N
      <4>2. AsRead(NameOf(recs[i], x)) = NameOf(r, y)
        BY <3>1 DEF AsRead
      <4> QED  BY <4>1, <4>2
    <3>3. Known(w, NameOf(r, y)) => c[PlaceOf(c, r, y)].kind # "label"
      BY <3>1 DEF RecordAdded, c
    <3> QED  BY <3>1, <3>2, <3>3
  <2>3. CASE i = N + 1 /\ k \in 1..N
    <3>1. more[i] = r /\ more[k] = recs[k]
      BY <1>4, <2>3
    <3>2. PlaceOf(c, r, x) \in Nat /\ PlaceOf(c, r, x) > Len(b)
      BY <1>8, <3>1
    <3>3. PlaceOf(c, recs[k], y) \in 1..Len(b)
      BY <1>7, <2>3, <3>1
    <3>4. PlaceOf(c, r, x) < PlaceOf(c, recs[k], y)
      BY <3>1
    <3> QED  BY <1>5, <3>2, <3>3, <3>4
  <2>4. CASE i = N + 1 /\ k = N + 1
    <3>1. more[i] = r /\ more[k] = r
      BY <1>4, <2>4
    <3> QED  BY <3>1 DEF RecordAdded, c
  <2> QED  BY <1>6, <2>1, <2>2, <2>3, <2>4
<1> QED  BY <1>5, <1>9, <1>10, <1>11 DEF Reply, c, more

-----------------------------------------------------------------------------
(* What this says of the properties.                                       *)

\* NamesOf has the names by their numbers.
LEMMA NamesByNumber ==
    ASSUME NEW r, RecordIn(buffer, r)
    PROVE  NamesOf(r) = {[at |-> PlaceOf(buffer, r, j), name |-> NameOf(r, j)] : j \in Numbers(r)}
<1> DEFINE a == r.answer
           H == Len(a.hosts)
           F == FirstHost(r)
           N(i) == [at |-> IF i = 1 THEN F ELSE NameEnd(buffer, F),
                    name |-> Fqdn(a.hosts[i], a.zone)]
           O == [at |-> r.at, name |-> r.owner]
           P(j) == [at |-> PlaceOf(buffer, r, j), name |-> NameOf(r, j)]
           M == Numbers(r)
           Js == {j \in 1..H : j = 1 \/ Fqdn(a.hosts[1], a.zone) \in Seq(Proper)}
<1>1. r \in RecordType /\ a \in Answer
  BY DEF RecordIn
<1>2. r.rdlength \in Nat
  BY <1>1 DEF RecordType
<1>3. a.hosts \in Seq(Host) /\ H \in 0..2
  BY <1>1, AnswerParts
<1>4. DOMAIN a.hosts = 1..H
  BY <1>3, LenProperties
<1>5. r.rdlength + (IF a.type = "MX" THEN 2 ELSE 1) = F
  BY <1>2 DEF FirstHost, BeforeHosts
<1>6. NamesOf(r) = {O} \cup {N(i) : i \in Js}
  BY <1>4, <1>5 DEF NamesOf
<1>7. P(0) = O
  BY DEF PlaceOf, NameOf
<1>8. \A i \in 1..H : P(i) = N(i)
  <2> TAKE i \in 1..H
  <2>1. i # 0
    BY <1>3
  <2> QED  BY <2>1 DEF PlaceOf, NameOf
<1>9. NameOf(r, 1) = Fqdn(a.hosts[1], a.zone)
  BY DEF NameOf
<1>10. M = {j \in 0..H : j \in {0, 1} \/ Fqdn(a.hosts[1], a.zone) \in Seq(Proper)}
  BY <1>9 DEF Numbers
<1> HIDE DEF P, N, O, H, M
<1>11. 0 \in M /\ (\A i \in Js : i \in M /\ i \in 1..H) /\ \A j \in M : j = 0 \/ j \in Js
  BY <1>3, <1>10
<1> HIDE DEF Js
<1>12. {P(j) : j \in M} = {O} \cup {N(i) : i \in Js}
  BY <1>7, <1>8, <1>11
<1> QED  BY <1>6, <1>12 DEF P, M

\* AllNames has the names of all the records.
LEMMA AllNamesByNumber ==
    ASSUME RecordsIn(buffer, records)
    PROVE  \A n \in AllNames : \E i \in 1..Len(records) : \E j \in Numbers(records[i]) :
                n = [at |-> PlaceOf(buffer, records[i], j), name |-> NameOf(records[i], j)]
<1>1. records \in Seq(RecordType) /\ \A i \in 1..Len(records) : RecordIn(buffer, records[i])
  BY DEF RecordsIn
<1>2. DOMAIN records = 1..Len(records)
  BY <1>1, LenProperties
<1>3. \A i \in 1..Len(records) :
        NamesOf(records[i]) = {[at |-> PlaceOf(buffer, records[i], j), name |-> NameOf(records[i], j)] :
                                  j \in Numbers(records[i])}
  BY <1>1, NamesByNumber
<1> TAKE n \in AllNames
<1>4. PICK i \in 1..Len(records) : n \in NamesOf(records[i])
  BY <1>2 DEF AllNames
<1> QED  BY <1>3, <1>4

\* The names that are meant, by their numbers.
LEMMA MeantByNumber ==
    ASSUME RecordsIn(buffer, records)
    PROVE  \A i \in 1..Len(records) : \A j \in 0..Len(records[i].answer.hosts) :
                NameOf(records[i], j) \in MeantNames
<1>1. records \in Seq(RecordType) /\ \A i \in 1..Len(records) : RecordIn(buffer, records[i])
  BY DEF RecordsIn
<1>2. DOMAIN records = 1..Len(records)
  BY <1>1, LenProperties
<1> TAKE i \in 1..Len(records)
<1> DEFINE r == records[i]
           H == Len(r.answer.hosts)
<1>3. r.answer \in Answer
  BY <1>1 DEF RecordIn
<1>4. H \in 0..2 /\ DOMAIN r.answer.hosts = 1..H
  BY <1>3, AnswerParts, LenProperties
<1> TAKE j \in 0..H
<1>5. CASE j = 0
  <2>1. NameOf(r, j) = r.owner
    BY <1>5 DEF NameOf
  <2> QED  BY <1>2, <2>1 DEF MeantNames
<1>6. CASE j # 0
  <2>1. NameOf(r, j) = Fqdn(r.answer.hosts[j], r.answer.zone) /\ j \in DOMAIN r.answer.hosts
    BY <1>4, <1>6 DEF NameOf
  <2> QED  BY <1>2, <2>1 DEF MeantNames
<1> QED  BY <1>5, <1>6

\* The records are in the buffer: their names read back, and their lengths lead on.
LEMMA RecordsReadBack ==
    ASSUME RecordsIn(buffer, records)
    PROVE  NamesReadBack /\ RecordsFramed
<1>1. /\ records \in Seq(RecordType) /\ \A i \in 1..Len(records) : RecordIn(buffer, records[i])
      /\ \A i \in 1..Len(records) :
           records[i].last = IF i < Len(records) THEN records[i + 1].at - 1 ELSE Len(buffer)
  BY DEF RecordsIn
<1>2. NamesReadBack
  <2> SUFFICES ASSUME NEW n \in AllNames PROVE NameAt(buffer, n.at) = AsRead(n.name)
    BY DEF NamesReadBack
  <2>1. PICK i \in 1..Len(records) : \E j \in Numbers(records[i]) :
          n = [at |-> PlaceOf(buffer, records[i], j), name |-> NameOf(records[i], j)]
    BY AllNamesByNumber
  <2>2. PICK j \in Numbers(records[i]) :
          n = [at |-> PlaceOf(buffer, records[i], j), name |-> NameOf(records[i], j)]
    BY <2>1
  <2>3. NameAt(buffer, PlaceOf(buffer, records[i], j)) = AsRead(NameOf(records[i], j))
    BY <1>1 DEF RecordIn
  <2> QED  BY <2>2, <2>3
<1>3. DOMAIN records = 1..Len(records)
  BY <1>1, LenProperties
<1>4. \A i \in 1..Len(records) : buffer[records[i].rdlength].value =
            Bytes(SubSeq(buffer, records[i].rdlength + 1, records[i].last))
  BY <1>1 DEF RecordIn
<1> QED  BY <1>1, <1>2, <1>3, <1>4 DEF RecordsFramed

\* Names are shared by a pointer.
LEMMA SharedByPointer ==
    ASSUME buffer \in Buffer, RecordsIn(buffer, records), Shared(buffer, records)
    PROVE  KnownNamesShared
<1> SUFFICES ASSUME NEW m \in AllNames, NEW n \in AllNames,
                    m.name = n.name, n.name \in Seq(Proper) \ {<< >>}, m.at < n.at
             PROVE  buffer[n.at].kind = "pointer"
  BY DEF KnownNamesShared
<1>1. PICK i \in 1..Len(records) : \E x \in Numbers(records[i]) :
        m = [at |-> PlaceOf(buffer, records[i], x), name |-> NameOf(records[i], x)]
  BY AllNamesByNumber
<1>2. PICK x \in Numbers(records[i]) :
        m = [at |-> PlaceOf(buffer, records[i], x), name |-> NameOf(records[i], x)]
  BY <1>1
<1>3. PICK k \in 1..Len(records) : \E y \in Numbers(records[k]) :
        n = [at |-> PlaceOf(buffer, records[k], y), name |-> NameOf(records[k], y)]
  BY AllNamesByNumber
<1>4. PICK y \in Numbers(records[k]) :
        n = [at |-> PlaceOf(buffer, records[k], y), name |-> NameOf(records[k], y)]
  BY <1>3
<1>5. RecordIn(buffer, records[k])
  BY DEF RecordsIn
<1> DEFINE r == records[k]
           p == PlaceOf(buffer, r, y)
<1>6. /\ m.name = NameOf(records[i], x) /\ m.at = PlaceOf(buffer, records[i], x)
      /\ n.name = NameOf(r, y) /\ n.at = p
  BY <1>2, <1>4
<1>7. buffer[p].kind # "label"
  BY <1>6 DEF Shared
<1>8. p \in r.at..r.last /\ NameAt(buffer, p) = NameOf(r, y)
  <2>1. p \in r.at..r.last /\ NameAt(buffer, p) = AsRead(NameOf(r, y))
    BY <1>5 DEF RecordIn
  <2> QED  BY <1>6, <2>1 DEF AsRead
<1>9. r \in RecordType /\ r.answer \in Answer /\ r.at > 0 /\ r.last <= Len(buffer)
  BY <1>5 DEF RecordIn
<1>10. r.at \in Nat /\ r.last \in Nat /\ r.owner \in Seq(Label)
  BY <1>9 DEF RecordType
<1>11. Len(buffer) \in Nat
  BY BufferParts
<1> HIDE DEF r, p
<1>12. p \in 1..Len(buffer)
  BY <1>8, <1>9, <1>10, <1>11
<1>13. <<NoLabel>> \notin Seq(Proper)
  <2> SUFFICES ASSUME <<NoLabel>> \in Seq(Proper) PROVE FALSE
    OBVIOUS
  <2>1. <<NoLabel>>[1] = NoLabel /\ 1 \in 1..Len(<<NoLabel>>)
    OBVIOUS
  <2>2. <<NoLabel>>[1] \in Label
    BY <2>1, ProperIsLabel, ElementOfSeq
  <2> QED  BY <2>1, <2>2, LabelAssumption
<1>14. NameOf(r, y) \in Seq(Proper) /\ NameOf(r, y) # << >>
  BY <1>6
<1>15. /\ buffer[p].kind = "end" => NameAt(buffer, p) = << >>
       /\ buffer[p].kind \notin {"label", "pointer", "end"} => NameAt(buffer, p) = <<NoLabel>>
  BY <1>12, ReadName
<1> QED  BY <1>6, <1>7, <1>8, <1>13, <1>14, <1>15

\* Every start is a name of a record.
LEMMA StartsRead ==
    ASSUME Reply([buffer |-> buffer, starts |-> starts], records)
    PROVE  \A p \in Range(starts) : NameAt(buffer, p) \in {AsRead(n) : n \in MeantNames}
<1> DEFINE w == [buffer |-> buffer, starts |-> starts]
<1>1. w.buffer = buffer /\ w.starts = starts
  OBVIOUS
<1>2. GoodWriter(w) /\ RecordsIn(buffer, records) /\ Remembered(w, records)
  BY <1>1 DEF Reply
<1> HIDE DEF w
<1>3. starts \in Seq(Nat)
  BY <1>1, <1>2 DEF GoodWriter
<1>4. DOMAIN starts = 1..Len(starts)
  BY <1>3, LenProperties
<1> SUFFICES ASSUME NEW p \in Range(starts) PROVE NameAt(buffer, p) \in {AsRead(n) : n \in MeantNames}
  OBVIOUS
<1>5. PICK s \in 1..Len(starts) : p = starts[s]
  BY <1>4 DEF Range
<1>6. PICK i \in 1..Len(records) : \E j \in 0..Len(records[i].answer.hosts) :
        NameAt(buffer, starts[s]) = AsRead(NameOf(records[i], j))
  BY <1>1, <1>2 DEF Remembered
<1>7. PICK j \in 0..Len(records[i].answer.hosts) :
        NameAt(buffer, starts[s]) = AsRead(NameOf(records[i], j))
  BY <1>6
<1>8. NameOf(records[i], j) \in MeantNames
  BY <1>2, MeantByNumber
<1> QED  BY <1>5, <1>7, <1>8

-----------------------------------------------------------------------------
(* The questions in a reply.                                               *)

\* The name n is at o, label by label.
HasName(b, n, o) ==
    /\ n \in Seq(Proper) /\ o \in 1..Len(b) /\ o + Len(n) \in 1..Len(b)
    /\ \A k \in 1..Len(n) : b[o + k - 1] = LabelCell(n[k])
    /\ b[o + Len(n)] = End
    /\ NameAt(b, o) = n

\* The cells q are a question for the name n.
IsQuestion(q, n) ==
    /\ n \in Seq(Proper) /\ q \in Seq(Cell) /\ Len(q) = Len(n) + 2
    /\ \A k \in 1..Len(n) : q[k] = LabelCell(n[k])
    /\ q[Len(n) + 1] = End /\ q[Len(n) + 2] = Fixed(4)

\* c is b and more.
MoreThan(b, c) == Grown(b, c) /\ \A i \in 1..Len(b) : c[i] = b[i]

\* It stays there.
LEMMA HasNameKept ==
    ASSUME NEW b, NEW c, MoreThan(b, c), NEW n, NEW o, HasName(b, n, o)
    PROVE  HasName(c, n, o)
<1>1. Grown(b, c) /\ b \in Buffer /\ c \in Buffer /\ Len(b) <= Len(c)
  BY DEF MoreThan, Grown
<1>2. Len(b) \in Nat /\ Len(c) \in Nat
  BY <1>1, BufferParts
<1>3. /\ n \in Seq(Proper) /\ o \in 1..Len(b) /\ o + Len(n) \in 1..Len(b)
      /\ \A k \in 1..Len(n) : b[o + k - 1] = LabelCell(n[k])
      /\ b[o + Len(n)] = End /\ NameAt(b, o) = n
  BY DEF HasName
<1>4. \A i \in 1..Len(b) : i \in 1..Len(c) /\ c[i] = b[i]
  BY <1>1, <1>2 DEF MoreThan
<1>5. \A k \in 1..Len(n) : o + k - 1 \in 1..Len(b)
  <2>1. Len(n) \in Nat
    BY <1>3, LenProperties
  <2> QED  BY <1>2, <1>3, <2>1
<1>6. NameAt(c, o) = NameAt(b, o)
  BY <1>1, <1>3, NameKept
<1> QED  BY <1>3, <1>4, <1>5, <1>6 DEF HasName

\* A question behind a buffer.
LEMMA QuestionPut ==
    ASSUME NEW b \in Buffer, NEW q, NEW n, IsQuestion(q, n)
    PROVE  /\ MoreThan(b, b \o q) /\ Len(b \o q) = Len(b) + Len(q)
           /\ HasName(b \o q, n, Len(b) + 1)
<1> DEFINE M == Len(n)
           ms == [k \in 1..M |-> LabelCell(n[k])]
           c == Append(b \o ms, End)
           d == Append(c, Fixed(4))
           B == Len(b)
<1>1. /\ n \in Seq(Proper) /\ q \in Seq(Cell) /\ Len(q) = M + 2
      /\ \A k \in 1..M : q[k] = LabelCell(n[k])
      /\ q[M + 1] = End /\ q[M + 2] = Fixed(4)
  BY DEF IsQuestion
<1>2. M \in Nat /\ \A k \in 1..M : n[k] \in Proper
  BY <1>1, LenProperties, ElementOfSeq
<1>3. b \in Seq(Cell) /\ B \in Nat
  BY BufferParts
<1>4. End \in Cell /\ End.kind = "end" /\ Fixed(4) \in Cell /\ Fixed(4).kind = "fixed"
  BY CellTypes
<1>5. ms \in Seq(Cell) /\ Len(ms) = M /\ \A k \in 1..M : ms[k] = LabelCell(n[k])
  <2>1. \A k \in 1..M : LabelCell(n[k]) \in Cell
    BY <1>2, CellTypes
  <2>2. ms \in [1..M -> Cell]
    BY <2>1
  <2>3. ms \in Seq(Cell)
    <3> HIDE DEF ms
    <3> QED  BY <1>2, <2>2
  <2>4. DOMAIN ms = 1..M
    OBVIOUS
  <2>5. Len(ms) = M
    <3> HIDE DEF ms
    <3> QED  BY <1>2, <2>3, <2>4, LenProperties
  <2> QED  BY <2>3, <2>5
<1> HIDE DEF ms
<1>6. Extended(b, ms, End, c)
  <2>1. \A k \in 1..M : ms[k].kind = "label" /\ ms[k].label = n[k]
    BY <1>2, <1>5, CellTypes
  <2>2. MayFollow(b, ms, End)
    BY <1>2, <1>4, <1>5, <2>1 DEF MayFollow
  <2> QED  BY <2>2, BufferExtended
<1>7. Extended(b, ms, End, c) /\ NameAt(c, B + 1) = n
  <2>1. /\ c \in Buffer /\ Len(c) = B + M + 1 /\ c[Len(c)] = End
        /\ \A k \in 1..Len(n) : c[B + k] = LabelCell(n[k])
    BY <1>5, <1>6 DEF Extended, Grown
  <2> HIDE DEF c, B
  <2>2. Len(c) \in 1..Len(c)
    BY <1>2, <1>3, <2>1
  <2>3. NameAt(c, B + Len(n) + 1) = << >>
    <3>1. c[Len(c)].kind = "end" => NameAt(c, Len(c)) = << >>
      BY <2>1, <2>2, ReadName
    <3> QED  BY <1>4, <2>1, <3>1
  <2> DEFINE e == << >>
  <2>4. NameAt(c, B + Len(n) + 1) = e /\ B + Len(n) + 1 <= Len(c)
    BY <1>2, <1>3, <2>1, <2>3
  <2> HIDE DEF e
  <2>5. NameAt(c, B + 1) = n \o NameAt(c, B + Len(n) + 1)
    BY <1>1, <1>3, <2>1, <2>4, NameWritten
  <2>6. n \o << >> = n
    BY <1>1, ConcatEmptySeq
  <2> QED  BY <1>6, <2>4, <2>5, <2>6 DEF e
<1>8. c \in Buffer /\ MoreThan(b, c) /\ Len(c) = B + M + 1
  BY <1>5, <1>7 DEF Extended, MoreThan, Grown
<1>9. MayFollow(c, << >>, Fixed(4))
  <2> HIDE DEF c
  <2> QED  BY <1>4, <1>8, EmptySeq DEF MayFollow
<1>10. c \in Seq(Cell) /\ c \o << >> = c /\ Len(c) \in Nat
  <2> HIDE DEF c
  <2> QED  BY <1>8, BufferParts, ConcatEmptySeq
<1>11. Extended(c, << >>, Fixed(4), d)
  <2> HIDE DEF c
  <2>1. Extended(c, << >>, Fixed(4), Append(c \o << >>, Fixed(4)))
    BY <1>9, BufferExtended
  <2> QED  BY <1>10, <2>1
<1>12. MoreThan(c, d) /\ Len(d) = B + M + 2 /\ d[Len(d)] = Fixed(4)
  <2> HIDE DEF c, d
  <2>1. Len(d) = Len(c) + Len(<< >>) + 1 /\ Len(<< >>) = 0
    BY <1>11, EmptySeq DEF Extended
  <2> QED  BY <1>2, <1>3, <1>8, <1>10, <1>11, <2>1 DEF Extended, MoreThan
<1>13. HasName(c, n, B + 1)
  <2>1. /\ \A i \in 1..M : c[B + i] = ms[i]
        /\ c[Len(c)] = End
    BY <1>5, <1>7 DEF Extended
  <2> HIDE DEF c
  <2>2. \A k \in 1..M : (B + 1) + k - 1 = B + k
    BY <1>2, <1>3
  <2>3. B + 1 \in 1..Len(c) /\ (B + 1) + M \in 1..Len(c) /\ (B + 1) + M = Len(c)
    BY <1>2, <1>3, <1>8
  <2> QED  BY <1>1, <1>5, <1>7, <2>1, <2>2, <2>3 DEF HasName, c
<1>14. HasName(d, n, B + 1)
  <2> HIDE DEF c, d
  <2> QED  BY <1>12, <1>13, HasNameKept
<1>15. MoreThan(b, d)
  <2> HIDE DEF c, d
  <2>1. Grown(b, c) /\ Grown(c, d)
    BY <1>8, <1>12 DEF MoreThan
  <2>2. Grown(b, d)
    BY <2>1, GrownMore
  <2>3. \A i \in 1..Len(b) : i \in 1..Len(c)
    BY <1>2, <1>3, <1>8
  <2> QED  BY <1>8, <1>12, <2>2, <2>3 DEF MoreThan
<1>16. b \o q = d
  <2>1. d \in Seq(Cell)
    <3> HIDE DEF d
    <3>1. d \in Buffer
      BY <1>15 DEF MoreThan, Grown
    <3> QED  BY <3>1, BufferParts
  <2>2. /\ b \o q \in Seq(Cell) /\ Len(b \o q) = B + (M + 2)
        /\ \A i \in 1..(B + (M + 2)) : (b \o q)[i] = IF i <= B THEN b[i] ELSE q[i - B]
    <3>1. b \in Seq(Cell) /\ q \in Seq(Cell)
      BY <1>1, <1>3
    <3>2. /\ b \o q \in Seq(Cell) /\ Len(b \o q) = Len(b) + Len(q)
          /\ \A i \in 1..(Len(b) + Len(q)) : (b \o q)[i] = IF i <= Len(b) THEN b[i] ELSE q[i - Len(b)]
      BY <3>1, ConcatProperties
    <3> QED  BY <1>1, <3>2
  <2>3. /\ \A i \in 1..B : d[i] = b[i]
        /\ \A i \in 1..M : d[B + i] = LabelCell(n[i])
        /\ d[B + M + 1] = End /\ d[B + M + 2] = Fixed(4)
    <3>1. \A i \in 1..Len(c) : d[i] = c[i]
      BY <1>12 DEF MoreThan
    <3>2. /\ \A i \in 1..M : c[B + i] = LabelCell(n[i])
          /\ c[B + M + 1] = End
      <4>1. \A i \in 1..M : c[B + i] = ms[i]
        BY <1>5, <1>7 DEF Extended
      <4>2. c[Len(c)] = End
        BY <1>7 DEF Extended
      <4> HIDE DEF c
      <4> QED  BY <1>5, <1>8, <4>1, <4>2
    <3> HIDE DEF c, d
    <3>3. \A i \in 1..M : B + i \in 1..Len(c)
      BY <1>2, <1>3, <1>8
    <3>4. B + M + 1 \in 1..Len(c)
      BY <1>2, <1>3, <1>8
    <3> QED  BY <1>12, <1>15, <3>1, <3>2, <3>3, <3>4 DEF MoreThan
  <2> DEFINE s == b \o q
  <2>4. \A i \in 1..B : s[i] = b[i]
    <3> HIDE DEF d
    <3> QED  BY <1>2, <1>3, <2>2
  <2>5. \A k \in 1..(M + 2) : s[B + k] = q[k]
    <3>1. \A k \in 1..(M + 2) : B + k \in 1..(B + (M + 2)) /\ ~(B + k <= B) /\ (B + k) - B = k
      BY <1>2, <1>3
    <3> HIDE DEF d
    <3> QED  BY <2>2, <3>1
  <2> HIDE DEF s, d
  <2>6. \A i \in 1..(B + (M + 2)) : i \in 1..B \/ (\E k \in 1..M : i = B + k)
                                    \/ i = B + M + 1 \/ i = B + M + 2
    <3> TAKE i \in 1..(B + (M + 2))
    <3>1. i \in 1..B \/ i - B \in 1..M \/ i = B + M + 1 \/ i = B + M + 2
      BY <1>2, <1>3
    <3>2. i = B + (i - B)
      BY <1>3
    <3> QED  BY <3>1, <3>2
  <2>7. \A k \in 1..M : s[B + k] = LabelCell(n[k])
    <3>1. \A k \in 1..M : k \in 1..(M + 2)
      BY <1>2
    <3> QED  BY <1>1, <2>5, <3>1
  <2>8. s[B + M + 1] = End /\ s[B + M + 2] = Fixed(4)
    <3>1. M + 1 \in 1..(M + 2) /\ M + 2 \in 1..(M + 2)
      BY <1>2
    <3>2. B + (M + 1) = B + M + 1 /\ B + (M + 2) = B + M + 2
      BY <1>2, <1>3
    <3>3. s[B + (M + 1)] = q[M + 1] /\ s[B + (M + 2)] = q[M + 2]
      BY <2>5, <3>1
    <3> QED  BY <1>1, <3>2, <3>3
  <2>9. \A i \in 1..(B + (M + 2)) : s[i] = d[i]
    BY <2>3, <2>4, <2>6, <2>7, <2>8
  <2>10. s \in Seq(Cell) /\ Len(s) = B + (M + 2) /\ Len(d) = Len(s)
    <3>1. B + (M + 2) = B + M + 2
      BY <1>2, <1>3
    <3> QED  BY <1>12, <2>2, <3>1 DEF s
  <2>11. s = d
    BY <2>1, <2>9, <2>10, SeqEqual
  <2> QED  BY <2>11 DEF s
<1> HIDE DEF d
<1>17. Len(d) = B + Len(q)
  BY <1>1, <1>2, <1>3, <1>12
<1> QED  BY <1>14, <1>15, <1>16, <1>17

\* b is a header and the question q for the name n, i times.
QuestionsIn(b, q, n, i) ==
    /\ b \in Buffer /\ Len(b) = 1 + i * Len(q) /\ Bytes(b) = HeaderBytes + i * Bytes(q)
    /\ \A k \in 1..i : HasName(b, n, 2 + (k - 1) * Len(q))

\* A header alone is a buffer.
LEMMA HeaderIsBuffer ==
    /\ <<Fixed(HeaderBytes)>> \in Buffer
    /\ Len(<<Fixed(HeaderBytes)>>) = 1 /\ Bytes(<<Fixed(HeaderBytes)>>) = HeaderBytes
<1> DEFINE c == Fixed(HeaderBytes)
           h == <<c>>
<1>1. HeaderBytes \in Nat
  BY DEF HeaderBytes
<1>2. c \in Cell /\ c.kind = "fixed" /\ c.bytes = HeaderBytes
  BY <1>1, CellTypes
<1> HIDE DEF c
<1>3. h \in Seq(Cell) /\ Len(h) = 1 /\ h[1] = c
  BY <1>2
<1>4. Bytes(h) = HeaderBytes
  BY <1>2, BytesFacts
<1> HIDE DEF h
<1>5. \A p \in 1..Len(h) : h[p].kind = "fixed"
  BY <1>2, <1>3
<1>6. Back(h)
  BY <1>5 DEF Back
<1>7. Sealed(h)
  BY <1>2, <1>3 DEF Sealed
<1>8. h \in Buffer
  BY <1>3, <1>6, <1>7 DEF Buffer
<1> QED  BY <1>3, <1>4, <1>8 DEF h, c

\* One more question.
LEMMA QuestionAdded ==
    ASSUME NEW q, NEW n, IsQuestion(q, n), NEW b, NEW i \in Nat, QuestionsIn(b, q, n, i)
    PROVE  QuestionsIn(b \o q, q, n, i + 1)
<1> DEFINE c == b \o q
           L == Len(q)
<1>1. /\ b \in Buffer /\ Len(b) = 1 + i * L /\ Bytes(b) = HeaderBytes + i * Bytes(q)
      /\ \A k \in 1..i : HasName(b, n, 2 + (k - 1) * L)
  BY DEF QuestionsIn
<1>2. b \in Seq(Cell) /\ q \in Seq(Cell)
  BY <1>1, BufferParts DEF IsQuestion
<1>3. L \in Nat /\ Bytes(b) \in Nat /\ Bytes(q) \in Nat /\ HeaderBytes \in Nat
  BY <1>2, BytesFacts, LenProperties DEF HeaderBytes
<1>4. MoreThan(b, c) /\ Len(c) = Len(b) + L /\ HasName(c, n, Len(b) + 1)
  BY <1>1, QuestionPut
<1>5. Bytes(c) = Bytes(b) + Bytes(q)
  BY <1>2, BytesConcat
<1> HIDE DEF c, L
<1>6. c \in Buffer
  BY <1>4 DEF MoreThan, Grown
<1>7. \A x \in Nat : (i + 1) * x = i * x + x
  OBVIOUS
<1>8. \A x \in Nat : i * x \in Nat
  OBVIOUS
<1>9. Len(c) = 1 + (i + 1) * L /\ Bytes(c) = HeaderBytes + (i + 1) * Bytes(q)
  <2> DEFINE x == i * L
             y == i * Bytes(q)
  <2>1. (i + 1) * L = x + L /\ (i + 1) * Bytes(q) = y + Bytes(q) /\ x \in Nat /\ y \in Nat
    BY <1>3, <1>7, <1>8
  <2>2. Len(b) = 1 + x /\ Bytes(b) = HeaderBytes + y
    BY <1>1
  <2> HIDE DEF x, y
  <2> QED  BY <1>3, <1>4, <1>5, <2>1, <2>2
<1>10. ASSUME NEW k \in 1..(i + 1) PROVE HasName(c, n, 2 + (k - 1) * L)
  <2>1. CASE k = i + 1
    <3>1. k - 1 = i
      BY <2>1
    <3>2. 2 + (k - 1) * L = Len(b) + 1
      <4> DEFINE x == i * L
      <4>1. Len(b) = 1 + x /\ (k - 1) * L = x /\ x \in Nat
        BY <1>1, <1>3, <1>8, <3>1
      <4> HIDE DEF x
      <4> QED  BY <4>1
    <3> QED  BY <1>4, <3>2
  <2>2. CASE k # i + 1
    <3>1. k \in 1..i
      BY <2>2
    <3>2. HasName(b, n, 2 + (k - 1) * L)
      BY <1>1, <3>1
    <3> QED  BY <1>4, <3>2, HasNameKept
  <2> QED  BY <2>1, <2>2
<1> QED  BY <1>6, <1>9, <1>10 DEF QuestionsIn, c, L

\* What ProcessQuestions puts in the reply.
LEMMA QuestionsPut ==
    ASSUME NEW q, NEW n, IsQuestion(q, n), NEW N \in Nat \ {0}
    PROVE  QuestionsIn(<<Fixed(HeaderBytes)>> \o FlattenSeq([i \in 1..N |-> q]), q, n, N)
<1> DEFINE h == <<Fixed(HeaderBytes)>>
           seqs == [i \in 1..N |-> q]
<1>1. q \in Seq(Cell)
  BY DEF IsQuestion
<1>2. h \in Buffer /\ Len(h) = 1 /\ Bytes(h) = HeaderBytes
  BY HeaderIsBuffer
<1> HIDE DEF h
<1>3. h \in Seq(Cell)
  BY <1>2, BufferParts
<1>4. seqs \in Seq(Seq(Cell)) /\ Len(seqs) = N /\ \A i \in 1..N : seqs[i] = q
  <2>1. seqs \in [1..N -> Seq(Cell)] /\ DOMAIN seqs = 1..N
    BY <1>1
  <2>2. \A i \in 1..N : seqs[i] = q
    OBVIOUS
  <2> HIDE DEF seqs
  <2>3. seqs \in Seq(Seq(Cell))
    BY <2>1
  <2>4. Len(seqs) = N
    BY <2>1, <2>3, LenProperties
  <2> QED  BY <2>2, <2>3, <2>4
<1> HIDE DEF seqs
<1>5. PICK f : Flattens(f, seqs, Cell)
  <2>1. Len(seqs) # 0
    BY <1>4
  <2> QED  BY <1>4, <2>1, FlattenSteps
<1>6. /\ \A i \in 1..N : f[i] \in Seq(Cell)
      /\ \A i \in 1..N : f[i] = IF i = 1 THEN q ELSE f[i - 1] \o q
      /\ FlattenSeq(seqs) = f[N]
  BY <1>4, <1>5 DEF Flattens
<1> DEFINE g(i) == IF i = 0 THEN h ELSE h \o f[i]
           T == {i \in 0..N : QuestionsIn(g(i), q, n, i)}
<1>7. 0 \in T
  <2>1. 1 + 0 * Len(q) = 1 /\ HeaderBytes + 0 * Bytes(q) = HeaderBytes
    <3>1. Len(q) \in Nat /\ Bytes(q) \in Nat
      BY <1>1, BytesFacts, LenProperties
    <3> QED  BY <3>1 DEF HeaderBytes
  <2>2. QuestionsIn(h, q, n, 0)
    BY <1>2, <2>1 DEF QuestionsIn
  <2>3. 0 \in 0..N /\ g(0) = h
    OBVIOUS
  <2> HIDE DEF g
  <2> QED  BY <2>2, <2>3
<1>8. ASSUME NEW i \in 1..N, i - 1 \in T PROVE i \in T
  <2>1. g(i) = g(i - 1) \o q
    <3>1. CASE i = 1
      <4>1. i # 0 /\ i - 1 = 0 /\ f[i] = q
        BY <1>6, <3>1
      <4>2. g(i) = h \o f[i] /\ g(i - 1) = h
        BY <4>1
      <4> QED  BY <4>1, <4>2
    <3>2. CASE i # 1
      <4>1. i - 1 \in 1..N /\ i - 1 # 0 /\ i # 0
        BY <3>2
      <4>2. g(i) = h \o (f[i - 1] \o q) /\ g(i - 1) = h \o f[i - 1]
        BY <1>6, <3>2, <4>1
      <4>3. f[i - 1] \in Seq(Cell)
        BY <1>6, <4>1
      <4>4. (h \o f[i - 1]) \o q = h \o (f[i - 1] \o q)
        <5> HIDE DEF g
        <5>1. h \in Seq(Cell) /\ f[i - 1] \in Seq(Cell) /\ q \in Seq(Cell)
          BY <1>1, <1>3, <4>3
        <5> DEFINE x == f[i - 1]
        <5> HIDE DEF x
        <5>2. x \in Seq(Cell)
          BY <5>1 DEF x
        <5>3. (h \o x) \o q = h \o (x \o q)
          BY <1>1, <1>3, <5>2, ConcatAssociative
        <5> QED  BY <5>3 DEF x
      <4> HIDE DEF g
      <4> QED  BY <4>2, <4>4
    <3> QED  BY <3>1, <3>2
  <2> HIDE DEF g
  <2>2. QuestionsIn(g(i - 1), q, n, i - 1) /\ i - 1 \in Nat /\ (i - 1) + 1 = i
    BY <1>8
  <2>3. QuestionsIn(g(i - 1) \o q, q, n, (i - 1) + 1)
    BY <2>2, QuestionAdded
  <2>4. i \in 0..N
    OBVIOUS
  <2> QED  BY <2>1, <2>2, <2>3, <2>4
<1>9. 0..N \subseteq T
  <2> HIDE DEF T
  <2> QED  BY <1>7, <1>8, BoundedInduction
<1>10. N \in T /\ N # 0
  BY <1>9
<1>11. g(N) = h \o FlattenSeq(seqs)
  BY <1>6, <1>10
<1> HIDE DEF g
<1> QED  BY <1>10, <1>11 DEF h, seqs

-----------------------------------------------------------------------------
(* LabelHeader.                                                            *)

ParseEnd == {"ok", "InvalidQuery", "LabelHeader", "IllegalLabel", "NoLabels", "IllegalPointer",
             "QuestionHeader"}

Parsed == [labels : Seq(Proper), end : ParseEnd, next : Nat]

Points(d) == (1..(Len(d) + 1)) \X (0..MaxLabels)

\* f is what LabelHeader computes at every place of d and for every size before it.
Parses(f, d, s) ==
    /\ f \in [Points(d) -> Parsed]
    /\ \A x \in Points(d) :
         /\ GoesOn(d, x[1], x[2]) =>
              f[x] = Prepend(d[LabelFor(d, x[1])].label,
                             f[<<LabelFor(d, x[1]) + 1, x[2] + SizeOf(d[x[1]])>>])
         /\ ~GoesOn(d, x[1], x[2]) => f[x] = LabelsEnd(d, s, x[1], x[2])

\* Where LabelHeader goes on: after a label, with a greater size.
LEMMA GoesOnTo ==
    ASSUME NEW d \in Datagram, NEW p \in 1..(Len(d) + 1), NEW z \in 0..MaxLabels, GoesOn(d, p, z)
    PROVE  /\ p \in 1..Len(d) /\ d[p].kind \in {"label", "pointer"}
           /\ LabelFor(d, p) \in 1..Len(d) /\ d[LabelFor(d, p)].label \in Proper
           /\ d[p].kind = "label" => LabelFor(d, p) = p
           /\ d[p].kind = "pointer" => \A i \in 1..LabelFor(d, p) : d[i].kind = "label"
           /\ z + SizeOf(d[p]) \in 0..MaxLabels /\ z < z + SizeOf(d[p])
           /\ <<LabelFor(d, p) + 1, z + SizeOf(d[p])>> \in Points(d)
<1> DEFINE N == Len(d)
           c == d[p]
           l == LabelFor(d, p)
<1>1. /\ d \in Seq(Cell)
      /\ \A i \in DOMAIN d : d[i].kind = "label" => d[i].label \in Proper /\ d[i] = LabelCell(d[i].label)
  BY DatagramAssumption
<1>2. DOMAIN d = 1..N /\ N \in Nat /\ MaxLabels \in Nat /\ \A x \in Proper : LabelBytes[x] \in 1..63
  BY <1>1, LenProperties, LabelAssumption DEF Proper
<1>3. /\ p \in 1..N /\ c.kind \in {"label", "pointer"} /\ z + SizeOf(c) <= MaxLabels
      /\ c.kind = "pointer" => c.to \in KnownLabels(d)
  BY <1>2 DEF GoesOn
<1>4. SizeOf(c) \in Nat /\ SizeOf(c) > 0
  <2>1. CASE c.kind = "label"
    <3>1. c = LabelCell(c.label) /\ c.label \in Proper
      BY <1>1, <1>2, <1>3, <2>1
    <3>2. c.bytes = 1 + LabelBytes[c.label]
      <4> DEFINE l0 == c.label
      <4>1. l0 \in Proper /\ c = LabelCell(l0)
        BY <3>1
      <4> HIDE DEF l0, c
      <4> QED  BY <4>1, ProperCell DEF l0
    <3>3. LabelBytes[c.label] \in 1..63
      BY <1>2, <3>1
    <3>4. SizeOf(c) = c.bytes - 1
      BY <2>1 DEF SizeOf
    <3>5. \A n \in 1..63 : (1 + n) - 1 \in Nat /\ (1 + n) - 1 > 0
      OBVIOUS
    <3>6. SizeOf(c) = (1 + LabelBytes[c.label]) - 1
      BY <3>2, <3>4
    <3> HIDE DEF c
    <3> QED  BY <3>3, <3>5, <3>6
  <2>2. CASE c.kind = "pointer"
    <3>1. SizeOf(c) = 2
      BY <2>2 DEF SizeOf
    <3> QED  BY <3>1
  <2> QED  BY <1>3, <2>1, <2>2
<1>5. c.kind = "label" => l = p
  BY DEF LabelFor
<1>6. c.kind = "pointer" => l \in 1..N /\ \A i \in 1..l : d[i].kind = "label"
  BY <1>2, <1>3 DEF LabelFor, KnownLabels
<1>7. l \in 1..N /\ d[l].kind = "label"
  <2>1. CASE c.kind = "label"
    BY <1>3, <1>5, <2>1
  <2>2. CASE c.kind = "pointer"
    <3>1. l \in 1..l
      BY <1>2, <1>6, <2>2
    <3> QED  BY <1>6, <2>2, <3>1
  <2> QED  BY <1>3, <2>1, <2>2
<1>8. d[l].label \in Proper
  BY <1>1, <1>2, <1>7
<1> HIDE DEF l, c
<1>9. z + SizeOf(c) \in 0..MaxLabels /\ z < z + SizeOf(c)
  BY <1>2, <1>3, <1>4
<1>10. l + 1 \in 1..(N + 1)
  BY <1>2, <1>7
<1>11. <<l + 1, z + SizeOf(c)>> \in Points(d)
  BY <1>9, <1>10 DEF Points
<1> QED  BY <1>3, <1>5, <1>6, <1>7, <1>8, <1>9, <1>11 DEF l, c

\* Every result is a list of labels or one of the exceptions.
LEMMA ParsedTypes ==
    /\ \A x \in ParseEnd : Thrown(x) \in Parsed
    /\ \A d, s, z : \A p \in Nat : LabelsEnd(d, s, p, z) \in Parsed
    /\ \A l \in Proper, r \in Parsed :
         /\ Prepend(l, r) \in Parsed
         /\ Prepend(l, r).end = r.end /\ Prepend(l, r).next = r.next
         /\ r.end = "ok" => Prepend(l, r).labels = <<l>> \o r.labels
         /\ r.end # "ok" => Prepend(l, r) = r
<1>1. \A x \in ParseEnd : Thrown(x) \in Parsed
  BY EmptySeq DEF Thrown, Parsed
<1>2. ASSUME NEW d, NEW s, NEW z, NEW p \in Nat PROVE LabelsEnd(d, s, p, z) \in Parsed
  <2>1. [labels |-> << >>, end |-> "ok", next |-> p + 1] \in Parsed
    BY EmptySeq DEF Parsed, ParseEnd
  <2>2. {"LabelHeader", "IllegalLabel", "NoLabels", "IllegalPointer"} \subseteq ParseEnd
    BY DEF ParseEnd
  <2>3. /\ Thrown("LabelHeader") \in Parsed /\ Thrown("IllegalLabel") \in Parsed
        /\ Thrown("NoLabels") \in Parsed /\ Thrown("IllegalPointer") \in Parsed
    BY <1>1, <2>2
  <2> QED  BY <2>1, <2>3 DEF LabelsEnd
<1>3. ASSUME NEW l \in Proper, NEW r \in Parsed
      PROVE  /\ Prepend(l, r) \in Parsed
             /\ Prepend(l, r).end = r.end /\ Prepend(l, r).next = r.next
             /\ r.end = "ok" => Prepend(l, r).labels = <<l>> \o r.labels
             /\ r.end # "ok" => Prepend(l, r) = r
  <2>1. CASE r.end = "ok"
    <3> DEFINE ls == <<l>> \o r.labels
    <3>1. ls \in Seq(Proper)
      <4>1. <<l>> \in Seq(Proper) /\ r.labels \in Seq(Proper)
        BY DEF Parsed
      <4> QED  BY <4>1, ConcatProperties
    <3>2. Prepend(l, r) = [r EXCEPT !.labels = ls]
      BY <2>1 DEF Prepend
    <3> HIDE DEF ls
    <3>3. Prepend(l, r) = [labels |-> ls, end |-> r.end, next |-> r.next]
      BY <3>2 DEF Parsed
    <3>4. r.end \in ParseEnd /\ r.next \in Nat
      BY DEF Parsed
    <3>5. Prepend(l, r) \in Parsed
      BY <3>1, <3>3, <3>4 DEF Parsed
    <3> QED  BY <2>1, <3>3, <3>5 DEF ls
  <2>2. CASE r.end # "ok"
    BY <2>2 DEF Prepend
  <2> QED  BY <2>1, <2>2
<1> QED  BY <1>1, <1>2, <1>3

\* ParseLabels is such a function.
LEMMA ParserExists ==
    ASSUME NEW d \in Datagram, d # << >>, NEW s
    PROVE  \E f : Parses(f, d, s) /\ ParseLabels(d, s) = f[<<1, 0>>]
<1> DEFINE D == Points(d)
           S == {x \in D : ~GoesOn(d, x[1], x[2])}
           to(x) == <<LabelFor(d, x[1]) + 1, x[2] + SizeOf(d[x[1]])>>
           add(x, v) == Prepend(d[LabelFor(d, x[1])].label, v)
           prev == [x \in D |-> to(x)]
           rank == [x \in D |-> MaxLabels - x[2]]
           first == [x \in S |-> LabelsEnd(d, s, x[1], x[2])]
           next == [y \in (D \ S) \X Parsed |-> add(y[1], y[2])]
           r == [dom |-> D, start |-> S, type |-> Parsed, rank |-> rank, prev |-> prev,
                 first |-> first, next |-> next]
           Def(f) == [x \in (1..(Len(d) + 1)) \X (0..MaxLabels) |->
                        IF GoesOn(d, x[1], x[2])
                        THEN Prepend(d[LabelFor(d, x[1])].label,
                                     f[<<LabelFor(d, x[1]) + 1, x[2] + SizeOf(d[x[1]])>>])
                        ELSE LabelsEnd(d, s, x[1], x[2])]
           parse == CHOOSE f : f = Def(f)
<1>1. \A x \in D : x[1] \in 1..(Len(d) + 1) /\ x[2] \in 0..MaxLabels
  BY DEF Points
<1>2. Len(d) \in Nat /\ MaxLabels \in Nat
  BY DatagramAssumption, LabelAssumption, LenProperties
<1>3. \A x \in D \ S : /\ to(x) \in D /\ d[LabelFor(d, x[1])].label \in Proper
                       /\ to(x)[2] = x[2] + SizeOf(d[x[1]]) /\ x[2] < x[2] + SizeOf(d[x[1]])
                       /\ x[2] + SizeOf(d[x[1]]) \in 0..MaxLabels
  <2> TAKE x \in D \ S
  <2>1. x[1] \in 1..(Len(d) + 1) /\ x[2] \in 0..MaxLabels /\ GoesOn(d, x[1], x[2])
    BY <1>1
  <2>2. to(x)[2] = x[2] + SizeOf(d[x[1]])
    OBVIOUS
  <2>3. /\ d[LabelFor(d, x[1])].label \in Proper
        /\ x[2] + SizeOf(d[x[1]]) \in 0..MaxLabels /\ x[2] < x[2] + SizeOf(d[x[1]])
        /\ to(x) \in D
    BY <2>1, GoesOnTo
  <2> QED  BY <2>2, <2>3
<1>4. IsRecursion(r)
  <2>1. rank \in [D -> Nat]
    <3>1. \A x \in D : MaxLabels - x[2] \in Nat
      BY <1>1, <1>2
    <3> HIDE DEF D
    <3> QED  BY <3>1
  <2>2. \A x \in D \ S : prev[x] \in D /\ rank[prev[x]] < rank[x]
    <3> TAKE x \in D \ S
    <3>1. to(x) \in D /\ to(x)[2] = x[2] + SizeOf(d[x[1]]) /\ x[2] < x[2] + SizeOf(d[x[1]])
          /\ x[2] + SizeOf(d[x[1]]) \in 0..MaxLabels
      BY <1>3
    <3>2. x \in D /\ x[2] \in 0..MaxLabels
      BY <1>1
    <3> HIDE DEF D, to
    <3>3. prev[x] = to(x) /\ rank[x] = MaxLabels - x[2] /\ rank[to(x)] = MaxLabels - to(x)[2]
      BY <3>1, <3>2
    <3> QED  BY <1>2, <3>1, <3>2, <3>3
  <2>3. first \in [S -> Parsed]
    <3>1. \A x \in S : x[1] \in Nat
      BY <1>1, <1>2
    <3>2. \A x \in S : LabelsEnd(d, s, x[1], x[2]) \in Parsed
      BY <3>1, ParsedTypes
    <3> HIDE DEF S
    <3> QED  BY <3>2
  <2>4. next \in [(D \ S) \X Parsed -> Parsed]
    <3>1. \A x \in D \ S : \A v \in Parsed : add(x, v) \in Parsed
      BY <1>3, ParsedTypes
    <3> HIDE DEF D, S, add
    <3> QED  BY <3>1
  <2>5. S \subseteq D /\ Parsed # {}
    <3>1. Thrown("ok") \in Parsed
      BY ParsedTypes DEF ParseEnd
    <3> QED  BY <3>1
  <2> HIDE DEF D, S, rank, prev, first, next
  <2> QED  BY <2>1, <2>2, <2>3, <2>4, <2>5 DEF IsRecursion
<1>5. PICK f \in [D -> Parsed] : \A x \in D : Obeys(f, x, r)
  <2>1. r.dom = D /\ r.type = Parsed
    OBVIOUS
  <2> HIDE DEF r, D
  <2> QED  BY <1>4, <2>1, RecursionExists
<1>6. \A x \in D : f[x] = IF x \in S THEN first[x] ELSE next[<<x, f[prev[x]]>>]
  <2> HIDE DEF D, S, first, next, prev
  <2> QED  BY <1>5 DEF Obeys
<1>7. \A x \in D : f[x] = IF GoesOn(d, x[1], x[2]) THEN add(x, f[to(x)])
                          ELSE LabelsEnd(d, s, x[1], x[2])
  <2> TAKE x \in D
  <2>1. CASE x \in S
    <3>1. ~GoesOn(d, x[1], x[2])
      BY <2>1
    <3>2. f[x] = first[x] /\ first[x] = LabelsEnd(d, s, x[1], x[2])
      BY <1>6, <2>1
    <3> QED  BY <3>1, <3>2
  <2>2. CASE x \notin S
    <3>1. GoesOn(d, x[1], x[2])
      BY <2>2
    <3>2. to(x) \in D
      BY <1>3, <2>2
    <3>3. prev[x] = to(x)
      OBVIOUS
    <3>4. f[to(x)] \in Parsed
      <4> HIDE DEF D, to
      <4> QED  BY <1>5, <3>2
    <3>5. next[<<x, f[to(x)]>>] = add(x, f[to(x)])
      <4> HIDE DEF D, S, to, add
      <4> QED  BY <2>2, <3>4
    <3>6. f[x] = next[<<x, f[prev[x]]>>]
      <4> HIDE DEF D, S, to, add, next, prev
      <4> QED  BY <1>6, <2>2
    <3> HIDE DEF D, S, to, add, next, prev
    <3> QED  BY <3>1, <3>3, <3>5, <3>6
  <2> QED  BY <2>1, <2>2
<1>8. f = Def(f)
  <2>1. f \in [(1..(Len(d) + 1)) \X (0..MaxLabels) -> Parsed]
    BY <1>5 DEF Points
  <2>2. \A x \in (1..(Len(d) + 1)) \X (0..MaxLabels) :
          f[x] = IF GoesOn(d, x[1], x[2])
                 THEN Prepend(d[LabelFor(d, x[1])].label,
                              f[<<LabelFor(d, x[1]) + 1, x[2] + SizeOf(d[x[1]])>>])
                 ELSE LabelsEnd(d, s, x[1], x[2])
    BY <1>7 DEF Points
  <2> QED  BY <2>1, <2>2
<1>9. parse = Def(parse)
  <2>1. \E g : g = Def(g)
    <3> HIDE DEF Def
    <3> QED  BY <1>8
  <2> HIDE DEF Def
  <2> QED  BY <2>1
<1>10. ParseLabels(d, s) = parse[<<1, 0>>]
  BY DEF ParseLabels
<1> HIDE DEF parse
<1>11. \A x \in D : parse[x] = IF GoesOn(d, x[1], x[2]) THEN add(x, parse[to(x)])
                               ELSE LabelsEnd(d, s, x[1], x[2])
  BY <1>9 DEF Points
<1>12. \A x \in D : parse[x] \in Parsed
  <2>1. r.dom = D /\ r.type = Parsed /\ r.start = S
    OBVIOUS
  <2>2. \A x \in D : x \in S => parse[x] = first[x]
    BY <1>11
  <2>3. \A x \in D \ S : parse[prev[x]] \in Parsed => parse[x] = next[<<x, parse[prev[x]]>>]
    <3> TAKE x \in D \ S
    <3> HAVE parse[prev[x]] \in Parsed
    <3>1. prev[x] = to(x) /\ GoesOn(d, x[1], x[2])
      OBVIOUS
    <3>2. parse[x] = add(x, parse[to(x)])
      BY <1>11, <3>1
    <3> HIDE DEF D, S, to, add, prev
    <3>3. next[<<x, parse[to(x)]>>] = add(x, parse[to(x)])
      BY <3>1
    <3> QED  BY <3>1, <3>2, <3>3
  <2>4. \A x \in r.dom : x \in r.start => parse[x] = r.first[x]
    BY <2>1, <2>2
  <2>5. \A x \in r.dom \ r.start :
          parse[r.prev[x]] \in r.type => parse[x] = r.next[<<x, parse[r.prev[x]]>>]
    <3>1. r.prev = prev /\ r.next = next
      OBVIOUS
    <3> HIDE DEF r, D, S, prev, next
    <3> QED  BY <2>1, <2>3, <3>1
  <2> HIDE DEF r, D, S
  <2>6. \A x \in r.dom : parse[x] \in r.type
    BY <1>4, <2>4, <2>5, RecursionTyped
  <2> QED  BY <2>1, <2>6
<1> DEFINE g == [x \in D |-> parse[x]]
<1>13. g \in [D -> Parsed] /\ \A x \in D : g[x] = parse[x]
  <2> HIDE DEF D
  <2> QED  BY <1>12
<1> HIDE DEF g
<1>14. Parses(g, d, s)
  <2>1. ASSUME NEW x \in D
        PROVE  /\ GoesOn(d, x[1], x[2]) => g[x] = add(x, g[to(x)])
               /\ ~GoesOn(d, x[1], x[2]) => g[x] = LabelsEnd(d, s, x[1], x[2])
    <3>1. GoesOn(d, x[1], x[2]) => to(x) \in D
      BY <1>3, <2>1
    <3> HIDE DEF D, to, add
    <3> QED  BY <1>11, <1>13, <2>1, <3>1
  <2> QED  BY <1>13, <2>1 DEF Parses
<1>15. <<1, 0>> \in D
  BY <1>2 DEF Points
<1> HIDE DEF D
<1> QED  BY <1>10, <1>13, <1>14, <1>15

\* The place and the size that LabelHeader goes on with.
GoOn(d, x) == <<LabelFor(d, x[1]) + 1, x[2] + SizeOf(d[x[1]])>>

\* Induction along the way that LabelHeader takes.
LEMMA ParseInduction ==
    ASSUME NEW d \in Datagram, NEW T,
           \A x \in Points(d) : (GoesOn(d, x[1], x[2]) => GoOn(d, x) \in T) => x \in T
    PROVE  Points(d) \subseteq T
<1> DEFINE U == {k \in Nat : \A x \in Points(d) : MaxLabels - x[2] <= k => x \in T}
<1>1. MaxLabels \in Nat /\ \A x \in Points(d) : x[1] \in 1..(Len(d) + 1) /\ x[2] \in 0..MaxLabels
  BY LabelAssumption DEF Points
<1>2. \A x \in Points(d) : GoesOn(d, x[1], x[2]) =>
        GoOn(d, x) \in Points(d) /\ x[2] < GoOn(d, x)[2] /\ GoOn(d, x)[2] \in 0..MaxLabels
  <2> TAKE x \in Points(d)
  <2> HAVE GoesOn(d, x[1], x[2])
  <2>1. x[1] \in 1..(Len(d) + 1) /\ x[2] \in 0..MaxLabels
    BY <1>1
  <2>2. /\ x[2] + SizeOf(d[x[1]]) \in 0..MaxLabels /\ x[2] < x[2] + SizeOf(d[x[1]])
        /\ <<LabelFor(d, x[1]) + 1, x[2] + SizeOf(d[x[1]])>> \in Points(d)
    BY <2>1, GoesOnTo
  <2> QED  BY <2>2 DEF GoOn
<1>3. 0 \in U
  <2> SUFFICES ASSUME NEW x \in Points(d), MaxLabels - x[2] <= 0 PROVE x \in T
    OBVIOUS
  <2>1. ~GoesOn(d, x[1], x[2])
    <3> SUFFICES ASSUME GoesOn(d, x[1], x[2]) PROVE FALSE
      OBVIOUS
    <3>1. x[2] < GoOn(d, x)[2] /\ GoOn(d, x)[2] \in 0..MaxLabels /\ x[2] \in 0..MaxLabels
      BY <1>1, <1>2
    <3> QED  BY <1>1, <3>1
  <2> QED  BY <2>1
<1>4. ASSUME NEW k \in Nat, k \in U PROVE k + 1 \in U
  <2> SUFFICES ASSUME NEW x \in Points(d), MaxLabels - x[2] <= k + 1 PROVE x \in T
    OBVIOUS
  <2>1. ASSUME GoesOn(d, x[1], x[2]) PROVE GoOn(d, x) \in T
    <3> DEFINE y == GoOn(d, x)
    <3>1. y \in Points(d) /\ x[2] < y[2] /\ y[2] \in 0..MaxLabels /\ x[2] \in 0..MaxLabels
      BY <1>1, <1>2, <2>1
    <3> HIDE DEF y
    <3>2. MaxLabels - y[2] <= k
      BY <1>1, <3>1
    <3>3. y \in T
      BY <1>4, <3>1, <3>2
    <3> QED  BY <3>3 DEF y
  <2> QED  BY <2>1
<1>5. Nat \subseteq U
  <2> HIDE DEF U
  <2> QED  BY <1>3, <1>4, SetInduction
<1>6. \A x \in Points(d) : MaxLabels - x[2] \in Nat
  BY <1>1
<1> QED  BY <1>5, <1>6

\* A step of LabelHeader.
LEMMA ParseStep ==
    ASSUME NEW d \in Datagram, NEW s, NEW f, Parses(f, d, s), NEW x \in Points(d)
    PROVE  /\ f[x] \in Parsed
           /\ GoesOn(d, x[1], x[2]) =>
                /\ GoOn(d, x) \in Points(d) /\ f[GoOn(d, x)] \in Parsed
                /\ f[x].end = f[GoOn(d, x)].end /\ f[x].next = f[GoOn(d, x)].next
                /\ f[x].end = "ok" =>
                     f[x].labels = <<d[LabelFor(d, x[1])].label>> \o f[GoOn(d, x)].labels
                /\ f[x].end # "ok" => f[x] = f[GoOn(d, x)]
           /\ ~GoesOn(d, x[1], x[2]) => f[x] = LabelsEnd(d, s, x[1], x[2])
<1>1. x[1] \in 1..(Len(d) + 1) /\ x[2] \in 0..MaxLabels
  BY DEF Points
<1>2. f \in [Points(d) -> Parsed]
  BY DEF Parses
<1>3. f[x] \in Parsed
  BY <1>2
<1>4. ASSUME GoesOn(d, x[1], x[2])
      PROVE  /\ GoOn(d, x) \in Points(d) /\ f[GoOn(d, x)] \in Parsed
             /\ f[x].end = f[GoOn(d, x)].end /\ f[x].next = f[GoOn(d, x)].next
             /\ f[x].end = "ok" =>
                  f[x].labels = <<d[LabelFor(d, x[1])].label>> \o f[GoOn(d, x)].labels
             /\ f[x].end # "ok" => f[x] = f[GoOn(d, x)]
  <2>1. d[LabelFor(d, x[1])].label \in Proper /\ GoOn(d, x) \in Points(d)
    <3>1. /\ d[LabelFor(d, x[1])].label \in Proper
          /\ <<LabelFor(d, x[1]) + 1, x[2] + SizeOf(d[x[1]])>> \in Points(d)
      BY <1>1, <1>4, GoesOnTo
    <3> QED  BY <3>1 DEF GoOn
  <2>2. f[x] = Prepend(d[LabelFor(d, x[1])].label, f[GoOn(d, x)])
    BY <1>4 DEF Parses, GoOn
  <2>3. f[GoOn(d, x)] \in Parsed
    BY <1>2, <2>1
  <2> DEFINE l == d[LabelFor(d, x[1])].label
             v == f[GoOn(d, x)]
  <2>4. l \in Proper /\ v \in Parsed /\ f[x] = Prepend(l, v)
    BY <2>1, <2>2, <2>3
  <2> HIDE DEF l, v
  <2>5. /\ Prepend(l, v).end = v.end /\ Prepend(l, v).next = v.next
        /\ v.end = "ok" => Prepend(l, v).labels = <<l>> \o v.labels
        /\ v.end # "ok" => Prepend(l, v) = v
    BY <2>4, ParsedTypes
  <2>6. /\ f[x].end = v.end /\ f[x].next = v.next
        /\ f[x].end = "ok" => f[x].labels = <<l>> \o v.labels
        /\ f[x].end # "ok" => f[x] = v
    BY <2>4, <2>5
  <2> QED  BY <2>1, <2>3, <2>6 DEF l, v
<1>5. ~GoesOn(d, x[1], x[2]) => f[x] = LabelsEnd(d, s, x[1], x[2])
  BY DEF Parses
<1> QED  BY <1>3, <1>4, <1>5

\* The labels of d end at e.
LabelsUpTo(d, e) ==
    /\ e \in 1..(Len(d) + 1)
    /\ e \in 1..Len(d) => d[e].kind # "label"
    /\ \A i \in 1..(e - 1) : d[i].kind = "label"

\* The result r at p, if it is one, is the labels from p to the end mark at e.
LabelsFrom(d, e, p, r) ==
    r.end = "ok" =>
        /\ r.next = e + 1 /\ (e \in 1..Len(d) => d[e] = End)
        /\ Len(r.labels) = e - p
        /\ \A i \in 1..(e - p) : r.labels[i] = d[p + i - 1].label

\* How the labels end if they do.
LEMMA EndFacts ==
    ASSUME NEW d, NEW s, NEW p, NEW z, LabelsEnd(d, s, p, z).end = "ok"
    PROVE  /\ LabelsEnd(d, s, p, z) = [labels |-> << >>, end |-> "ok", next |-> p + 1]
           /\ p \in DOMAIN d => d[p].kind = "end"
<1> DEFINE c == IF p \in DOMAIN d THEN d[p] ELSE s
           failed == \/ c.kind \notin {"end", "label", "illegal", "pointer"}
                     \/ z + SizeOf(c) > MaxLabels
                     \/ c.kind # "end" /\ p \notin DOMAIN d
           good == [labels |-> << >>, end |-> "ok", next |-> p + 1]
<1>1. LabelsEnd(d, s, p, z) =
        IF failed THEN Thrown("LabelHeader")
        ELSE CASE c.kind = "illegal" -> Thrown("IllegalLabel")
               [] c.kind = "end" /\ z = 0 -> Thrown("NoLabels")
               [] c.kind = "end" /\ z # 0 -> good
               [] OTHER -> Thrown("IllegalPointer")
  BY DEF LabelsEnd
<1> HIDE DEF failed, c, good
<1>2. /\ Thrown("LabelHeader").end # "ok" /\ Thrown("IllegalLabel").end # "ok"
      /\ Thrown("NoLabels").end # "ok" /\ Thrown("IllegalPointer").end # "ok"
  BY DEF Thrown
<1>3. c.kind = "end" /\ LabelsEnd(d, s, p, z) = good
  BY <1>1, <1>2
<1> QED  BY <1>3 DEF c, good

\* An accepted name is the labels before the first end mark, and no pointer.
LEMMA AcceptedLabels ==
    ASSUME NEW d \in Datagram, NEW s, NEW f, Parses(f, d, s), NEW e, LabelsUpTo(d, e)
    PROVE  \A x \in Points(d) : x[1] <= e => LabelsFrom(d, e, x[1], f[x])
<1> DEFINE N == Len(d)
           T == {x \in Points(d) : x[1] <= e => LabelsFrom(d, e, x[1], f[x])}
<1>1. /\ d \in Seq(Cell) /\ DOMAIN d = 1..N /\ N \in Nat
      /\ \A i \in 1..N : d[i].kind = "end" => d[i] = End
  <2>1. d \in Seq(Cell) /\ \A i \in DOMAIN d : d[i].kind = "end" => d[i] = End
    BY DatagramAssumption
  <2> QED  BY <2>1, LenProperties
<1>2. /\ e \in 1..(N + 1) /\ (e \in 1..N => d[e].kind # "label")
      /\ \A i \in 1..(e - 1) : d[i].kind = "label"
  BY DEF LabelsUpTo
<1>3. ASSUME NEW x \in Points(d), GoesOn(d, x[1], x[2]) => GoOn(d, x) \in T
      PROVE  x \in T
  <2> DEFINE p == x[1]
             y == GoOn(d, x)
             l == LabelFor(d, p)
  <2> SUFFICES ASSUME p <= e, f[x].end = "ok"
               PROVE  LabelsFrom(d, e, p, f[x])
    BY DEF LabelsFrom
  <2>1. p \in 1..(N + 1) /\ x[2] \in 0..MaxLabels
    BY DEF Points
  <2>2. p < e \/ p = e
    BY <1>1, <1>2, <2>1
  <2>3. ASSUME p < e PROVE p \in 1..N /\ d[p].kind = "label"
    <3>1. p \in 1..(e - 1) /\ p \in 1..N
      BY <1>1, <1>2, <2>1, <2>3
    <3> QED  BY <1>2, <3>1
  <2>4. CASE GoesOn(d, p, x[2])
    <3>1. /\ p \in 1..N /\ d[p].kind \in {"label", "pointer"} /\ l \in 1..N
          /\ d[p].kind = "label" => l = p
          /\ d[p].kind = "pointer" => \A i \in 1..l : d[i].kind = "label"
      <4> DEFINE z == x[2]
      <4>1. p \in 1..(Len(d) + 1) /\ z \in 0..MaxLabels /\ GoesOn(d, p, z)
        BY <2>1, <2>4
      <4> HIDE DEF p, z
      <4> QED  BY <4>1, GoesOnTo
    <3>2. y \in T /\ y[1] = l + 1
      BY <1>3, <2>4 DEF GoOn
    <3>3. /\ f[y] \in Parsed
          /\ f[x].end = f[y].end /\ f[x].next = f[y].next
          /\ f[x].end = "ok" => f[x].labels = <<d[l].label>> \o f[y].labels
      BY <2>4, ParseStep
    <3> HIDE DEF p, y, l
    <3>4. l + 1 <= e
      <4>1. CASE d[p].kind = "label"
        <5>1. p # e
          BY <1>2, <3>1, <4>1
        <5> QED  BY <1>2, <2>1, <2>2, <3>1, <4>1, <5>1
      <4>2. CASE d[p].kind = "pointer"
        <5>1. ~(e <= l)
          <6> SUFFICES ASSUME e <= l PROVE FALSE
            OBVIOUS
          <6>1. e \in 1..l /\ e \in 1..N
            BY <1>1, <1>2, <3>1
          <6> QED  BY <1>2, <3>1, <4>2, <6>1
        <5> QED  BY <1>1, <1>2, <3>1, <5>1
      <4> QED  BY <3>1, <4>1, <4>2
    <3>5. LabelsFrom(d, e, l + 1, f[y])
      BY <3>2, <3>4
    <3>6. f[y].end = "ok"
      BY <3>3
    <3>7. /\ f[y].next = e + 1 /\ (e \in 1..N => d[e] = End)
          /\ Len(f[y].labels) = e - (l + 1)
          /\ \A i \in 1..(e - (l + 1)) : f[y].labels[i] = d[(l + 1) + i - 1].label
      BY <3>5, <3>6 DEF LabelsFrom
    <3>8. d[p].kind = "label"
      <4> SUFFICES ASSUME d[p].kind # "label" PROVE FALSE
        OBVIOUS
      <4>1. p = e /\ d[p].kind = "pointer"
        BY <2>2, <2>3, <3>1 DEF p
      <4>2. d[p] = End /\ End.kind = "end"
        BY <3>1, <3>7, <4>1, CellTypes
      <4> QED  BY <4>1, <4>2
    <3>9. l = p
      BY <3>1, <3>8
    <3>10. f[y].labels \in Seq(Proper)
      BY <3>3 DEF Parsed
    <3> DEFINE ls == f[y].labels
               k == d[p].label
    <3>11. k \in Proper
      <4>1. \A i \in DOMAIN d : d[i].kind = "label" => d[i].label \in Proper
        BY DatagramAssumption
      <4> QED  BY <1>1, <3>1, <3>8, <4>1
    <3>12. f[x].labels = <<k>> \o ls /\ ls \in Seq(Proper)
      BY <3>3, <3>9, <3>10
    <3> HIDE DEF ls, k
    <3>13. /\ Len(<<k>> \o ls) = Len(ls) + 1 /\ (<<k>> \o ls)[1] = k
           /\ \A i \in 1..Len(ls) : (<<k>> \o ls)[i + 1] = ls[i]
      BY <3>11, <3>12, PutInFront
    <3>14. Len(ls) = e - (p + 1) /\ p \in Nat /\ e \in Nat
      BY <1>1, <1>2, <2>1, <3>7, <3>9 DEF ls, p
    <3>15. Len(f[x].labels) = e - p
      BY <3>12, <3>13, <3>14
    <3>16. ASSUME NEW i \in 1..(e - p) PROVE f[x].labels[i] = d[p + i - 1].label
      <4>1. CASE i = 1
        <5>1. p + i - 1 = p
          BY <3>14, <4>1
        <5> QED  BY <3>12, <3>13, <4>1, <5>1 DEF k
      <4>2. CASE i # 1
        <5>1. i - 1 \in 1..(e - (p + 1)) /\ (i - 1) + 1 = i /\ (p + 1) + (i - 1) - 1 = p + i - 1
          BY <3>14, <4>2
        <5>2. f[x].labels[i] = ls[i - 1]
          BY <3>12, <3>13, <3>14, <5>1
        <5>3. ls[i - 1] = d[(p + 1) + (i - 1) - 1].label
          BY <3>7, <3>9, <5>1 DEF ls
        <5> QED  BY <5>1, <5>2, <5>3
      <4> QED  BY <4>1, <4>2
    <3> QED  BY <3>3, <3>7, <3>15, <3>16 DEF LabelsFrom
  <2>5. CASE ~GoesOn(d, p, x[2])
    <3>1. f[x] = LabelsEnd(d, s, p, x[2])
      BY <2>5 DEF Parses
    <3> HIDE DEF p
    <3>2. /\ f[x] = [labels |-> << >>, end |-> "ok", next |-> p + 1]
          /\ p \in DOMAIN d => d[p].kind = "end"
      BY <3>1, EndFacts
    <3>3. p = e
      <4> SUFFICES ASSUME p < e PROVE FALSE
        BY <2>2
      <4>1. p \in 1..N /\ d[p].kind = "label"
        BY <2>3 DEF p
      <4> QED  BY <1>1, <3>2, <4>1
    <3>4. e \in 1..N => d[e] = End
      BY <1>1, <3>2, <3>3
    <3>5. e - p = 0 /\ Len(<< >>) = 0
      BY <1>1, <1>2, <3>3, EmptySeq
    <3>6. f[x].next = e + 1 /\ f[x].labels = << >>
      BY <3>2, <3>3
    <3>7. Len(f[x].labels) = e - p
      BY <3>5, <3>6
    <3>8. 1..(e - p) = {}
      BY <3>5
    <3> QED  BY <3>4, <3>6, <3>7, <3>8 DEF LabelsFrom
  <2> QED  BY <2>4, <2>5
<1>4. Points(d) \subseteq T
  <2> HIDE DEF T
  <2> QED  BY <1>3, ParseInduction
<1> QED  BY <1>4

\* The labels of a datagram end somewhere.
LEMMA LabelsStop ==
    ASSUME NEW d \in Datagram
    PROVE  \E e : LabelsUpTo(d, e)
<1>1. d \in Seq(Cell)
  BY DatagramAssumption
<1>2. Len(d) \in Nat /\ \A i \in 1..Len(d) : CellAt(d, i) = d[i]
  BY <1>1, CellsParts, CellAtFacts
<1>3. 1 \in 0..(Len(d) + 1)
  BY <1>2
<1>4. PICK e \in 1..(Len(d) + 1) :
        CellAt(d, e).kind # "label" /\ \A i \in 1..(e - 1) : CellAt(d, i).kind = "label"
  BY <1>1, <1>3, RunEnds
<1>5. \A i \in 1..(e - 1) : i \in 1..Len(d)
  BY <1>2
<1>6. LabelsUpTo(d, e)
  BY <1>2, <1>4, <1>5 DEF LabelsUpTo
<1> QED  BY <1>6

\* Nothing is left of a datagram after a name that ends past it.
NothingLeft(d, p) == Bytes(SubSeq(d, p, Len(d))) < 4

LEMMA PastTheEnd ==
    ASSUME NEW d \in Datagram
    PROVE  NothingLeft(d, Len(d) + 2)
<1>1. d \in Seq(Cell)
  BY DatagramAssumption
<1>2. Len(d) + 2 \in Int /\ Len(d) \in Int /\ Len(d) < Len(d) + 2
  BY <1>1, LenProperties
<1>3. SubSeq(d, Len(d) + 2, Len(d)) = << >>
  BY <1>2, SubSeqEmpty
<1>4. Bytes(SubSeq(d, Len(d) + 2, Len(d))) = 0
  BY <1>3, BytesFacts
<1>5. Bytes(SubSeq(d, Len(d) + 2, Len(d))) < 4
  BY <1>4
<1> QED  BY <1>5 DEF NothingLeft

\* The question that is accepted: labels and their end mark, as they came.
LEMMA AcceptedQuestion ==
    ASSUME NEW d \in Datagram, NEW s, ParseQuestion(d, s).end = "ok"
    PROVE  IsQuestion(Append(SubSeq(d, 1, ParseQuestion(d, s).next - 1), Fixed(4)),
                      ParseQuestion(d, s).labels)
<1> DEFINE r == ParseLabels(d, s)
           N == Len(d)
<1>1. /\ d \in Seq(Cell) /\ DOMAIN d = 1..N /\ N \in Nat
      /\ \A i \in 1..N : d[i].kind = "label" => d[i].label \in Proper /\ d[i] = LabelCell(d[i].label)
  <2>1. d \in Seq(Cell) /\ \A i \in DOMAIN d :
          d[i].kind = "label" => d[i].label \in Proper /\ d[i] = LabelCell(d[i].label)
    BY DatagramAssumption
  <2> QED  BY <2>1, LenProperties
<1>2. ParseQuestion(d, s) = r /\ r.end = "ok" /\ ~NothingLeft(d, r.next) /\ d # << >>
  <2>3. d # << >>
    <3> SUFFICES ASSUME d = << >> PROVE FALSE
      OBVIOUS
    <3>1. ParseQuestion(d, s) = Thrown("InvalidQuery")
      BY DEF ParseQuestion
    <3> HIDE DEF r
    <3> QED  BY <3>1 DEF Thrown
  <2>1. ParseQuestion(d, s) = IF r.end = "ok" /\ NothingLeft(d, r.next) THEN Thrown("QuestionHeader")
                              ELSE r
    BY <2>3 DEF ParseQuestion, NothingLeft
  <2>2. Thrown("QuestionHeader").end # "ok"
    BY DEF Thrown
  <2> HIDE DEF r
  <2> QED  BY <2>1, <2>2, <2>3
<1>4. PICK f : Parses(f, d, s) /\ r = f[<<1, 0>>]
  BY <1>2, ParserExists
<1>5. PICK e : LabelsUpTo(d, e)
  BY LabelsStop
<1> DEFINE x == <<1, 0>>
<1>6. x \in Points(d) /\ x[1] = 1
  BY <1>1, LabelAssumption DEF Points
<1>7. e \in 1..(N + 1)
  BY <1>5 DEF LabelsUpTo
<1> HIDE DEF r, x
<1>8. LabelsFrom(d, e, x[1], f[x])
  <2>1. x[1] <= e
    BY <1>1, <1>6, <1>7
  <2> QED  BY <1>4, <1>5, <1>6, <2>1, AcceptedLabels
<1>9. r \in Parsed
  BY <1>4, <1>6, ParseStep DEF x
<1>10. /\ r.next = e + 1 /\ (e \in 1..N => d[e] = End)
       /\ Len(r.labels) = e - 1
       /\ \A i \in 1..(e - 1) : r.labels[i] = d[1 + i - 1].label
  <2>1. LabelsFrom(d, e, 1, r)
    BY <1>4, <1>6, <1>8 DEF x
  <2> QED  BY <1>2, <2>1 DEF LabelsFrom
<1>11. e \in 1..N
  <2> SUFFICES ASSUME e = N + 1 PROVE FALSE
    BY <1>1, <1>7
  <2>1. r.next = N + 2
    BY <1>1, <1>10
  <2> QED  BY <1>2, <2>1, PastTheEnd
<1> DEFINE n == r.labels
           c == SubSeq(d, 1, r.next - 1)
           q == Append(c, Fixed(4))
<1>12. n \in Seq(Proper)
  BY <1>9 DEF Parsed
<1>13. \A k \in 1..(e - 1) : k \in 1..N /\ d[k] = LabelCell(n[k])
  <2> TAKE k \in 1..(e - 1)
  <2>1. k \in 1..N /\ 1 + k - 1 = k
    BY <1>1, <1>11
  <2>2. d[k].kind = "label"
    BY <1>5 DEF LabelsUpTo
  <2>3. n[k] = d[k].label
    BY <1>10, <2>1
  <2> QED  BY <1>1, <2>1, <2>2, <2>3
<1>14. r.next - 1 = e
  BY <1>1, <1>10, <1>11
<1>15. c \in Seq(Cell) /\ Len(c) = e /\ \A k \in 1..e : c[k] = d[k]
  <2>1. 1 \in 1..N /\ e \in 1..N
    BY <1>1, <1>11
  <2>2. \A i \in 1..e : i \in 1..N
    BY <1>1, <1>11
  <2>3. \A i \in 1..e : d[i] \in Cell
    BY <1>1, <2>2, CellsParts
  <2>4. 1 \in Int /\ e \in Int
    BY <1>11
  <2>5. /\ SubSeq(d, 1, e) \in Seq(Cell)
        /\ Len(SubSeq(d, 1, e)) = IF 1 <= e THEN e - 1 + 1 ELSE 0
        /\ \A i \in 1..(e - 1 + 1) : SubSeq(d, 1, e)[i] = d[1 + i - 1]
    BY <2>3, <2>4, SubSeqProperties
  <2>6. e - 1 + 1 = e /\ 1 <= e /\ \A i \in 1..e : 1 + i - 1 = i
    BY <1>11
  <2> QED  BY <1>14, <2>5, <2>6
<1> HIDE DEF c
<1>16. Fixed(4) \in Cell
  BY CellTypes
<1>17. q \in Seq(Cell) /\ Len(q) = e + 1 /\ (\A k \in 1..e : q[k] = c[k]) /\ q[e + 1] = Fixed(4)
  BY <1>15, <1>16, AppendProperties
<1> HIDE DEF q, n
<1>18. Len(n) = e - 1 /\ Len(q) = Len(n) + 2 /\ Len(n) + 1 = e /\ Len(n) + 2 = e + 1
  BY <1>10, <1>11, <1>17 DEF n
<1>19. \A k \in 1..Len(n) : q[k] = LabelCell(n[k])
  <2>1. \A k \in 1..Len(n) : k \in 1..e /\ k \in 1..(e - 1)
    BY <1>11, <1>18
  <2> QED  BY <1>13, <1>15, <1>17, <2>1
<1>20. q[Len(n) + 1] = End
  <2>1. e \in 1..e
    BY <1>11
  <2> QED  BY <1>10, <1>11, <1>15, <1>17, <1>18, <2>1
<1>21. IsQuestion(q, n)
  BY <1>12, <1>17, <1>18, <1>19, <1>20 DEF IsQuestion
<1> QED  BY <1>2, <1>21 DEF q, c, n

\* LabelHeader has looked past the end of d.
Late(d, r) == r.end = "LabelHeader" \/ (r.end = "ok" /\ r.next = Len(d) + 2)

\* What it makes of the cell there.
LEMMA EndLate ==
    ASSUME NEW d \in Datagram, NEW s, NEW z, z # 0
    PROVE  Late(d, LabelsEnd(d, s, Len(d) + 1, z))
<1> DEFINE p == Len(d) + 1
           failed == \/ s.kind \notin {"end", "label", "illegal", "pointer"}
                     \/ z + SizeOf(s) > MaxLabels
                     \/ s.kind # "end"
           good == [labels |-> << >>, end |-> "ok", next |-> p + 1]
<1>1. d \in Seq(Cell)
  BY DatagramAssumption
<1>2. DOMAIN d = 1..Len(d) /\ Len(d) \in Nat
  BY <1>1, LenProperties
<1>3. p \notin DOMAIN d /\ p + 1 = Len(d) + 2
  BY <1>2
<1> HIDE DEF p
<1>4. LabelsEnd(d, s, p, z) =
        IF failed THEN Thrown("LabelHeader")
        ELSE CASE s.kind = "illegal" -> Thrown("IllegalLabel")
               [] s.kind = "end" /\ z = 0 -> Thrown("NoLabels")
               [] s.kind = "end" /\ z # 0 -> good
               [] OTHER -> Thrown("IllegalPointer")
  BY <1>3 DEF LabelsEnd
<1>5. failed \/ s.kind = "end"
  OBVIOUS
<1> HIDE DEF failed, good
<1>6. LabelsEnd(d, s, p, z) = Thrown("LabelHeader") \/ LabelsEnd(d, s, p, z) = good
  BY <1>4, <1>5
<1>7. Thrown("LabelHeader").end = "LabelHeader"
  BY DEF Thrown
<1>8. good.end = "ok" /\ good.next = Len(d) + 2
  BY <1>3 DEF good
<1>9. Late(d, LabelsEnd(d, s, p, z))
  BY <1>6, <1>7, <1>8 DEF Late
<1> QED  BY <1>9 DEF p

\* Where there is one more label, the result is the one of the rest.
GoingOn(f, d) ==
    \A x \in Points(d) : GoesOn(d, x[1], x[2]) =>
        /\ f[GoOn(d, x)] \in Parsed /\ f[x] \in Parsed
        /\ f[x].end = f[GoOn(d, x)].end /\ f[x].next = f[GoOn(d, x)].next

LEMMA ParseGoesOn ==
    ASSUME NEW d \in Datagram, NEW s, NEW f, Parses(f, d, s)
    PROVE  GoingOn(f, d)
<1>1. ASSUME NEW x \in Points(d), GoesOn(d, x[1], x[2])
      PROVE  /\ f[GoOn(d, x)] \in Parsed /\ f[x] \in Parsed
             /\ f[x].end = f[GoOn(d, x)].end /\ f[x].next = f[GoOn(d, x)].next
  <2> DEFINE y == GoOn(d, x)
  <2>1. f[y] \in Parsed
    BY <1>1, ParseStep
  <2>2. f[x] \in Parsed
    BY ParseStep
  <2>3. /\ f[x].end = f[y].end /\ f[x].next = f[y].next
        /\ f[x].end = "ok" => f[x].labels = <<d[LabelFor(d, x[1])].label>> \o f[y].labels
        /\ f[x].end # "ok" => f[x] = f[y]
    BY <1>1, ParseStep
  <2> QED  BY <2>1, <2>2, <2>3
<1> QED  BY <1>1 DEF GoingOn

\* With another cell there the result is the same, or both have looked past the end.
LEMMA StaleSame ==
    ASSUME NEW d \in Datagram, NEW s, NEW t, NEW f, Parses(f, d, s), NEW g, Parses(g, d, t)
    PROVE  \A x \in Points(d) : (x[1] = Len(d) + 1 => x[2] # 0) =>
                f[x] = g[x] \/ (Late(d, f[x]) /\ Late(d, g[x]))
<1> DEFINE N == Len(d)
           Same(x) == f[x] = g[x] \/ (Late(d, f[x]) /\ Late(d, g[x]))
           T == {x \in Points(d) : (x[1] = N + 1 => x[2] # 0) => Same(x)}
<1>1. d \in Seq(Cell)
  BY DatagramAssumption
<1>2. DOMAIN d = 1..N /\ N \in Nat
  BY <1>1, LenProperties
<1>3. GoingOn(f, d) /\ GoingOn(g, d)
  BY ParseGoesOn
<1>4. ASSUME NEW x \in Points(d), GoesOn(d, x[1], x[2]) => GoOn(d, x) \in T
      PROVE  x \in T
  <2> DEFINE p == x[1]
             z == x[2]
             y == GoOn(d, x)
  <2> SUFFICES ASSUME p = N + 1 => z # 0 PROVE Same(x)
    OBVIOUS
  <2>1. p \in 1..(N + 1) /\ z \in 0..MaxLabels
    BY DEF Points
  <2>2. CASE GoesOn(d, p, z)
    <3>1. y[2] # 0
      <4>1. z < z + SizeOf(d[p]) /\ z + SizeOf(d[p]) \in 0..MaxLabels
        <5> HIDE DEF p, z
        <5> QED  BY <2>1, <2>2, GoesOnTo
      <4>2. y[2] = z + SizeOf(d[p])
        BY DEF GoOn
      <4> DEFINE k == SizeOf(d[p])
      <4> HIDE DEF p, z, y, k
      <4> QED  BY <2>1, <4>1, <4>2 DEF k
    <3>2. Same(y)
      <4>1. y \in T
        BY <1>4, <2>2
      <4> HIDE DEF Same, y
      <4> QED  BY <3>1, <4>1
    <3>3. /\ f[y] \in Parsed /\ f[x] \in Parsed
          /\ f[x] = Prepend(d[LabelFor(d, p)].label, f[y])
          /\ f[x].end = f[y].end /\ f[x].next = f[y].next
      <4>1. f[x] = Prepend(d[LabelFor(d, p)].label, f[y])
        BY <2>2 DEF Parses, GoOn
      <4>2. /\ f[y] \in Parsed /\ f[x] \in Parsed
            /\ f[x].end = f[y].end /\ f[x].next = f[y].next
        BY <1>3, <2>2 DEF GoingOn
      <4> QED  BY <4>1, <4>2
    <3>4. /\ g[x] = Prepend(d[LabelFor(d, p)].label, g[y])
          /\ g[x].end = g[y].end /\ g[x].next = g[y].next
      <4>1. g[x] = Prepend(d[LabelFor(d, p)].label, g[y])
        BY <2>2 DEF Parses, GoOn
      <4>2. g[x].end = g[y].end /\ g[x].next = g[y].next
        BY <1>3, <2>2 DEF GoingOn
      <4> QED  BY <4>1, <4>2
    <3> HIDE DEF y, p, z
    <3>5. CASE f[y] = g[y]
      BY <3>3, <3>4, <3>5
    <3>6. CASE Late(d, f[y]) /\ Late(d, g[y])
      BY <3>3, <3>4, <3>6 DEF Late
    <3> QED  BY <3>2, <3>5, <3>6
  <2>3. CASE ~GoesOn(d, p, z)
    <3>1. f[x] = LabelsEnd(d, s, p, z) /\ g[x] = LabelsEnd(d, t, p, z)
      BY <2>3 DEF Parses
    <3> HIDE DEF p, z
    <3>2. CASE p \in 1..N
      <4>1. LabelsEnd(d, s, p, z) = LabelsEnd(d, t, p, z)
        BY <1>2, <3>2 DEF LabelsEnd
      <4> QED  BY <3>1, <4>1
    <3>3. CASE p = N + 1
      <4>1. z # 0
        BY <3>3 DEF p, z
      <4>2. Late(d, LabelsEnd(d, s, N + 1, z)) /\ Late(d, LabelsEnd(d, t, N + 1, z))
        BY <4>1, EndLate
      <4> QED  BY <3>1, <3>3, <4>2
    <3> QED  BY <1>2, <2>1, <3>2, <3>3 DEF p
  <2> QED  BY <2>2, <2>3
<1>5. Points(d) \subseteq T
  <2> HIDE DEF T
  <2> QED  BY <1>4, ParseInduction
<1> QED  BY <1>5

\* What lies past the end of a datagram does not decide how the question is taken.
LEMMA StaleDecidesNothing ==
    ASSUME NEW d \in Datagram, NEW s, NEW t
    PROVE  /\ ParseQuestion(d, s).end = "ok" <=> ParseQuestion(d, t).end = "ok"
           /\ ParseQuestion(d, s).end = "ok" => ParseQuestion(d, s) = ParseQuestion(d, t)
           /\ RcodeOf(ParseQuestion(d, s).end) = RcodeOf(ParseQuestion(d, t).end)
<1> DEFINE Q(r) == IF r.end = "ok" /\ NothingLeft(d, r.next) THEN Thrown("QuestionHeader") ELSE r
           u == ParseLabels(d, s)
           v == ParseLabels(d, t)
<1>1. SUFFICES ASSUME d # << >>
               PROVE  /\ ParseQuestion(d, s).end = "ok" <=> ParseQuestion(d, t).end = "ok"
                      /\ ParseQuestion(d, s).end = "ok" =>
                           ParseQuestion(d, s) = ParseQuestion(d, t)
                      /\ RcodeOf(ParseQuestion(d, s).end) = RcodeOf(ParseQuestion(d, t).end)
  <2>1. d = << >> => ParseQuestion(d, s) = ParseQuestion(d, t)
    BY DEF ParseQuestion
  <2> QED  BY <2>1
<1>6. ParseQuestion(d, s) = Q(u) /\ ParseQuestion(d, t) = Q(v)
  BY <1>1 DEF ParseQuestion, NothingLeft
<1>2. u = v \/ (Late(d, u) /\ Late(d, v))
  <2>1. PICK f : Parses(f, d, s) /\ u = f[<<1, 0>>]
    BY <1>1, ParserExists
  <2>2. PICK g : Parses(g, d, t) /\ v = g[<<1, 0>>]
    BY <1>1, ParserExists
  <2> DEFINE x == <<1, 0>>
  <2>3. d \in Seq(Cell)
    BY DatagramAssumption
  <2>4. Len(d) \in Nat /\ Len(d) # 0
    BY <1>1, <2>3, EmptySeq, LenProperties
  <2>5. x \in Points(d) /\ x[1] # Len(d) + 1
    BY <2>4, LabelAssumption DEF Points
  <2> HIDE DEF x, u, v
  <2>6. f[x] = g[x] \/ (Late(d, f[x]) /\ Late(d, g[x]))
    BY <2>1, <2>2, <2>5, StaleSame
  <2> QED  BY <2>1, <2>2, <2>6 DEF x
<1> HIDE DEF u, v
<1>3. ASSUME NEW r, Late(d, r)
      PROVE  Q(r).end \in {"LabelHeader", "QuestionHeader"}
  <2>1. CASE r.end = "ok"
    <3>1. NothingLeft(d, r.next)
      BY <1>3, <2>1, PastTheEnd DEF Late
    <3>2. Q(r) = Thrown("QuestionHeader")
      BY <2>1, <3>1
    <3> HIDE DEF Q
    <3> QED  BY <3>2 DEF Thrown
  <2>2. CASE r.end # "ok"
    BY <1>3, <2>2 DEF Late
  <2> QED  BY <2>1, <2>2
<1> HIDE DEF Q
<1>4. CASE u = v
  BY <1>4, <1>6
<1>5. CASE Late(d, u) /\ Late(d, v)
  <2>1. Q(u).end \in {"LabelHeader", "QuestionHeader"} /\ Q(v).end \in {"LabelHeader", "QuestionHeader"}
    BY <1>3, <1>5
  <2>2. RcodeOf(Q(u).end) = "SERVER_FAILURE" /\ RcodeOf(Q(v).end) = "SERVER_FAILURE"
    BY <2>1 DEF RcodeOf
  <2> QED  BY <1>6, <2>1, <2>2
<1> QED  BY <1>2, <1>4, <1>5

-----------------------------------------------------------------------------
(* The inductive invariant.                                                *)

\* Before a query is received everything is as it was at first.
ReceiveClean ==
    phase = "receive" =>
        /\ rcode = "OK" /\ name = << >> /\ question = 0 /\ asked = << >>
        /\ buffer = << >> /\ starts = << >> /\ records = << >>

\* From then on there is a query, and the reply is a buffer.
Received == phase # "receive" => datagram \in Datagram /\ buffer \in Buffer

\* The records are in the reply, with names that are shared.
RecordsKept == RecordsIn(buffer, records) /\ Shared(buffer, records)

\* While there is more to write the known starts are the names of the records.
Answering == phase = "answer" => Reply([buffer |-> buffer, starts |-> starts], records)

\* The name of the question is in the reply, once for every question.
AskedKept ==
    phase \in {"answer", "done"} => \A i \in 1..Len(asked) : HasName(buffer, name, asked[i])

Inv ==
    TypeOK /\ ReceiveClean /\ Received /\ RecordsKept /\ Answering /\ AskedKept /\ StaleIgnored

\* A reply without records.
LEMMA EmptyReply ==
    /\ \A b : RecordsIn(b, << >>) /\ Shared(b, << >>)
    /\ \A b \in Buffer : Reply([buffer |-> b, starts |-> << >>], << >>)
<1>1. << >> \in Seq(RecordType) /\ << >> \in Seq(Nat) /\ Len(<< >>) = 0 /\ 1..0 = {}
  BY EmptySeq
<1>2. \A b : RecordsIn(b, << >>)
  BY <1>1 DEF RecordsIn
<1>3. \A b : Shared(b, << >>)
  BY <1>1 DEF Shared
<1>4. ASSUME NEW b \in Buffer PROVE Reply([buffer |-> b, starts |-> << >>], << >>)
  <2> DEFINE w == [buffer |-> b, starts |-> << >>]
  <2>1. w \in [buffer : Buffer, starts : Seq(Nat)] /\ w.buffer = b /\ w.starts = << >>
    BY <1>1
  <2> HIDE DEF w
  <2>2. GoodWriter(w)
    BY <1>1, <2>1 DEF GoodWriter
  <2>3. Remembered(w, << >>)
    BY <1>1, <2>1 DEF Remembered
  <2>4. Reply(w, << >>)
    BY <1>2, <1>3, <2>1, <2>2, <2>3 DEF Reply
  <2> QED  BY <2>4 DEF w
<1> QED  BY <1>2, <1>3, <1>4

LEMMA InitInv == Init => Inv
<1> SUFFICES ASSUME Init PROVE Inv
  OBVIOUS
<1>1. /\ phase = "receive" /\ datagram = << >> /\ rcode = "OK" /\ name = << >>
      /\ question = 0 /\ asked = << >> /\ buffer = << >> /\ starts = << >> /\ records = << >>
  BY DEF Init
<1>2. TypeOK
  <2>1. /\ << >> \in Seq(Proper) /\ << >> \in Seq(Nat) /\ << >> \in Seq(Cell)
        /\ << >> \in Seq(RecordType)
    BY EmptySeq
  <2>2. Bytes(<< >>) = 0 /\ MaxReply \in Nat
    BY BytesFacts, LabelAssumption
  <2>3. Bytes(buffer) <= MaxReply
    BY <1>1, <2>2
  <2> QED  BY <1>1, <2>1, <2>3 DEF TypeOK
<1>3. RecordsKept
  BY <1>1, EmptyReply DEF RecordsKept
<1> QED  BY <1>1, <1>2, <1>3 DEF Inv, ReceiveClean, Received, Answering, AskedKept, StaleIgnored

\* How a query is taken, whatever is left behind it.
LEMMA TakenAlike ==
    ASSUME NEW d \in Datagram, NEW s \in Stale, NEW r, r = ParseQuestion(d, s)
    PROVE  \A t \in Stale : /\ (ParseQuestion(d, t).end = "ok") = (r.end = "ok")
                            /\ r.end = "ok" => ParseQuestion(d, t) = r
                            /\ RcodeOf(ParseQuestion(d, t).end) = RcodeOf(r.end)
<1> TAKE t \in Stale
<1>1. /\ ParseQuestion(d, s).end = "ok" <=> ParseQuestion(d, t).end = "ok"
      /\ ParseQuestion(d, s).end = "ok" => ParseQuestion(d, s) = ParseQuestion(d, t)
      /\ RcodeOf(ParseQuestion(d, s).end) = RcodeOf(ParseQuestion(d, t).end)
  BY StaleDecidesNothing
<1> QED  BY <1>1

\* A query that is refused.
LEMMA RefuseInv ==
    ASSUME Inv, phase = "receive", NEW d \in Datagram, datagram' = d, NEW x,
           Refuse(x), UNCHANGED <<starts, records>>,
           x \in {"FORMAT_ERROR", "SERVER_FAILURE", "REFUSED"},
           \A t \in Stale : ParseQuestion(d, t).end # "ok" => x = RcodeOf(ParseQuestion(d, t).end)
    PROVE  Inv'
<1>1. /\ name = << >> /\ question = 0 /\ asked = << >> /\ starts = << >> /\ records = << >>
  BY DEF Inv, ReceiveClean
<1>2. /\ phase' = "refused" /\ rcode' = x /\ buffer' = <<Fixed(HeaderBytes)>>
      /\ name' = << >> /\ question' = 0 /\ asked' = << >> /\ starts' = << >> /\ records' = << >>
  BY <1>1 DEF Refuse
<1>3. buffer' \in Buffer /\ buffer' \in Seq(Cell) /\ Bytes(buffer') <= MaxReply
  <2>1. <<Fixed(HeaderBytes)>> \in Buffer /\ Bytes(<<Fixed(HeaderBytes)>>) = HeaderBytes
    BY HeaderIsBuffer
  <2>2. HeaderBytes <= MaxReply
    BY LabelAssumption
  <2>3. buffer' \in Buffer /\ Bytes(buffer') <= MaxReply
    BY <1>2, <2>1, <2>2
  <2>4. buffer' \in Seq(Cell)
    BY <2>3, BufferParts
  <2> QED  BY <2>3, <2>4
<1>4. TypeOK'
  <2>1. << >> \in Seq(Proper) /\ << >> \in Seq(Nat) /\ << >> \in Seq(RecordType)
    BY EmptySeq
  <2> QED  BY <1>2, <1>3, <2>1 DEF TypeOK
<1>5. RecordsKept'
  BY <1>2, EmptyReply DEF RecordsKept
<1>6. StaleIgnored'
  BY <1>2 DEF StaleIgnored
<1> QED  BY <1>2, <1>3, <1>4, <1>5, <1>6 DEF Inv, ReceiveClean, Received, Answering, AskedKept

\* A query that is accepted.
LEMMA AcceptInv ==
    ASSUME Inv, phase = "receive", NEW d \in Datagram, datagram' = d,
           NEW n \in QdCount, NEW q, IsQuestion(q, name'),
           HeaderBytes + n * Bytes(q) < MaxReply, phase' = "answer",
           asked' = [i \in 1..n |-> 2 + (i - 1) * Len(q)], question' = 2,
           buffer' = <<Fixed(HeaderBytes)>> \o FlattenSeq([i \in 1..n |-> q]),
           UNCHANGED <<rcode, starts, records>>,
           \A t \in Stale : /\ ParseQuestion(d, t).end = "ok"
                            /\ ParseQuestion(d, t).labels = name'
    PROVE  Inv'
<1>1. starts' = << >> /\ records' = << >> /\ rcode' = "OK"
  BY DEF Inv, ReceiveClean
<1>2. n \in Nat \ {0}
  BY DatagramAssumption
<1>3. QuestionsIn(buffer', q, name', n)
  <2>1. QuestionsIn(<<Fixed(HeaderBytes)>> \o FlattenSeq([i \in 1..n |-> q]), q, name', n)
    BY <1>2, QuestionsPut
  <2> QED  BY <2>1
<1>4. /\ buffer' \in Buffer /\ Bytes(buffer') = HeaderBytes + n * Bytes(q)
      /\ \A k \in 1..n : HasName(buffer', name', 2 + (k - 1) * Len(q))
  BY <1>3 DEF QuestionsIn
<1>5. name' \in Seq(Proper) /\ q \in Seq(Cell)
  BY DEF IsQuestion
<1>6. Len(q) \in Nat
  BY <1>5, LenProperties
<1>7. buffer' \in Seq(Cell) /\ Bytes(buffer') \in Nat /\ MaxReply \in Nat
  <2>1. buffer' \in Seq(Cell)
    BY <1>4, BufferParts
  <2> QED  BY <2>1, BytesFacts, LabelAssumption
<1>8. Bytes(buffer') <= MaxReply
  <2> DEFINE y == Bytes(buffer')
             z == HeaderBytes + n * Bytes(q)
  <2>1. y = z /\ z < MaxReply /\ y \in Nat /\ MaxReply \in Nat
    BY <1>4, <1>7
  <2> HIDE DEF y, z
  <2>2. y <= MaxReply
    BY <2>1
  <2> QED  BY <2>2 DEF y
<1>9. /\ asked' \in Seq(Nat) /\ Len(asked') = n /\ DOMAIN asked' = 1..n
      /\ \A i \in 1..n : asked'[i] = 2 + (i - 1) * Len(q)
  <2>1. \A i \in 1..n : 2 + (i - 1) * Len(q) \in Nat
    <3> TAKE i \in 1..n
    <3>1. i - 1 \in Nat
      BY <1>2
    <3>2. (i - 1) * Len(q) \in Nat
      BY <1>6, <3>1
    <3> QED  BY <3>2
  <2>2. asked' \in [1..n -> Nat] /\ DOMAIN asked' = 1..n
    BY <2>1
  <2>3. asked' \in Seq(Nat)
    BY <1>2, <2>2
  <2>4. Len(asked') = n
    BY <1>2, <2>2, <2>3, LenProperties
  <2>5. \A i \in 1..n : asked'[i] = 2 + (i - 1) * Len(q)
    OBVIOUS
  <2> QED  BY <2>2, <2>3, <2>4, <2>5
<1>10. question' \in Range(asked')
  <2>1. 1 \in 1..n /\ 2 + (1 - 1) * Len(q) = 2
    BY <1>2, <1>6
  <2>2. asked'[1] = 2
    BY <1>9, <2>1
  <2> QED  BY <1>9, <2>1, <2>2 DEF Range
<1>11. TypeOK'
  <2>1. << >> \in Seq(Nat) /\ << >> \in Seq(RecordType)
    BY EmptySeq
  <2> QED  BY <1>1, <1>5, <1>7, <1>8, <1>9, <1>10, <2>1 DEF TypeOK
<1>12. RecordsKept'
  BY <1>1, EmptyReply DEF RecordsKept
<1>13. Answering'
  <2>1. Reply([buffer |-> buffer', starts |-> << >>], << >>)
    BY <1>4, EmptyReply
  <2> QED  BY <1>1, <2>1 DEF Answering
<1>14. AskedKept'
  BY <1>4, <1>9 DEF AskedKept
<1>15. StaleIgnored'
  BY DEF StaleIgnored
<1> QED  BY <1>4, <1>11, <1>12, <1>13, <1>14, <1>15 DEF Inv, ReceiveClean, Received

LEMMA ReceiveInv ==
    ASSUME Inv, NEW d \in Datagram, NEW s \in Stale, NEW n \in QdCount, NEW class \in QClass,
           Receive(d, s, n, class)
    PROVE  Inv'
<1> DEFINE r == ParseQuestion(d, s)
           q == Append(SubSeq(d, 1, r.next - 1), Fixed(4))
<1>1. /\ phase = "receive" /\ datagram' = d /\ UNCHANGED <<starts, records>>
      /\ \/ /\ r.end # "ok"
            /\ Refuse(RcodeOf(r.end))
         \/ /\ r.end = "ok"
            /\ Refuse("REFUSED")
         \/ /\ r.end = "ok"
            /\ HeaderBytes + n * Bytes(q) >= MaxReply
            /\ Refuse("FORMAT_ERROR")
         \/ /\ r.end = "ok"
            /\ HeaderBytes + n * Bytes(q) < MaxReply
            /\ phase' = "answer"
            /\ name' = r.labels
            /\ asked' = [i \in 1..n |-> 2 + (i - 1) * Len(q)]
            /\ question' = 2
            /\ buffer' = <<Fixed(HeaderBytes)>> \o FlattenSeq([i \in 1..n |-> q])
            /\ UNCHANGED rcode
  BY DEF Receive
<1>2. \A t \in Stale : /\ (ParseQuestion(d, t).end = "ok") = (r.end = "ok")
                       /\ r.end = "ok" => ParseQuestion(d, t) = r
                       /\ RcodeOf(ParseQuestion(d, t).end) = RcodeOf(r.end)
  BY TakenAlike
<1>3. r.end = "ok" => IsQuestion(q, r.labels)
  BY AcceptedQuestion
<1> HIDE DEF r, q
<1>4. CASE r.end # "ok" /\ Refuse(RcodeOf(r.end))
  <2> DEFINE x == RcodeOf(r.end)
  <2>1. x \in {"FORMAT_ERROR", "SERVER_FAILURE", "REFUSED"}
    BY DEF RcodeOf
  <2>2. \A t \in Stale : ParseQuestion(d, t).end # "ok" => x = RcodeOf(ParseQuestion(d, t).end)
    BY <1>2
  <2>3. Refuse(x)
    BY <1>4
  <2> HIDE DEF x
  <2> QED  BY <1>1, <2>1, <2>2, <2>3, RefuseInv
<1>5. ASSUME r.end = "ok", NEW x \in {"FORMAT_ERROR", "REFUSED"}, Refuse(x)
      PROVE  Inv'
  <2>1. x \in {"FORMAT_ERROR", "SERVER_FAILURE", "REFUSED"}
    OBVIOUS
  <2>2. \A t \in Stale : ParseQuestion(d, t).end # "ok" => x = RcodeOf(ParseQuestion(d, t).end)
    BY <1>2, <1>5
  <2> QED  BY <1>1, <1>5, <2>1, <2>2, RefuseInv
<1>6. CASE /\ r.end = "ok"
           /\ HeaderBytes + n * Bytes(q) < MaxReply
           /\ phase' = "answer"
           /\ name' = r.labels
           /\ asked' = [i \in 1..n |-> 2 + (i - 1) * Len(q)]
           /\ question' = 2
           /\ buffer' = <<Fixed(HeaderBytes)>> \o FlattenSeq([i \in 1..n |-> q])
           /\ UNCHANGED rcode
  <2>1. IsQuestion(q, name')
    BY <1>3, <1>6
  <2>2. \A t \in Stale : ParseQuestion(d, t).end = "ok" /\ ParseQuestion(d, t).labels = name'
    BY <1>2, <1>6
  <2> QED  BY <1>1, <1>6, <2>1, <2>2, AcceptInv
<1> QED  BY <1>1, <1>4, <1>5, <1>6

\* The record that Store adds.
LEMMA StoreAdds ==
    ASSUME Inv, NEW a \in Answer, Fits(a)
    PROVE  RecordAdded([buffer |-> buffer, starts |-> starts],
                       Write([buffer |-> buffer, starts |-> starts], a, question),
                       NewRecord(Write([buffer |-> buffer, starts |-> starts], a, question), a))
<1> DEFINE w == [buffer |-> buffer, starts |-> starts]
           v == Write(w, a, question)
           r == NewRecord(v, a)
<1>1. phase = "answer" /\ (a.owner = << >> => question # 0)
  BY DEF Fits
<1>2. Reply(w, records) /\ \A i \in 1..Len(asked) : HasName(buffer, name, asked[i])
  BY <1>1 DEF Inv, Answering, AskedKept
<1>3. asked \in Seq(Nat) /\ question \in Range(asked) \cup {0}
  BY DEF Inv, TypeOK
<1>4. DOMAIN asked = 1..Len(asked)
  BY <1>3, LenProperties
<1>5. w.buffer = buffer
  OBVIOUS
<1> HIDE DEF w
<1>6. ASSUME a.owner = << >>
      PROVE  question \in Nat /\ Readable(w.buffer, question) /\ NameAt(w.buffer, question) = name
  <2>1. question \in Range(asked)
    BY <1>1, <1>3, <1>6
  <2>2. PICK i \in 1..Len(asked) : question = asked[i]
    BY <1>4, <2>1 DEF Range
  <2>3. HasName(buffer, name, question)
    BY <1>2, <2>2
  <2>4. question \in Nat
    BY <1>3, <2>2, ElementOfSeq
  <2> QED  BY <1>5, <2>3, <2>4 DEF HasName, Readable
<1>7. MayStore(w, a, question)
  BY <1>2, <1>6 DEF MayStore, Reply
<1>8. OwnerName(w, a, question) = IF a.owner = << >> THEN name ELSE a.owner
  BY <1>6 DEF OwnerName
<1>9. r = [answer |-> a, owner |-> OwnerName(w, a, question), at |-> Len(w.buffer) + 1,
           rdlength |-> RdlengthAt(v.buffer, Len(w.buffer) + 1), last |-> Len(v.buffer)]
  BY <1>5, <1>8 DEF NewRecord
<1>10. v = Write(w, a, question)
  OBVIOUS
<1> HIDE DEF r, v
<1>11. RecordAdded(w, v, r)
  BY <1>7, <1>9, <1>10, WriteAdds
<1> QED  BY <1>11 DEF r, v, w

LEMMA StoreInv ==
    ASSUME Inv, NEW a \in Answer, Store(a)
    PROVE  Inv'
<1> DEFINE w == [buffer |-> buffer, starts |-> starts]
           v == Write(w, a, question)
           r == NewRecord(v, a)
<1>1. /\ Fits(a) /\ starts' = v.starts
      /\ \/ /\ Bytes(v.buffer) > MaxReply
            /\ phase' = "done"
            /\ UNCHANGED <<buffer, records>>
         \/ /\ Bytes(v.buffer) <= MaxReply
            /\ buffer' = v.buffer
            /\ records' = Append(records, r)
            /\ UNCHANGED phase
      /\ UNCHANGED <<datagram, rcode, name, question, asked>>
  <2> HIDE DEF w
  <2>1. \E u \in {v} :
           /\ starts' = u.starts
           /\ \/ /\ Bytes(u.buffer) > MaxReply
                 /\ phase' = "done"
                 /\ UNCHANGED <<buffer, records>>
              \/ /\ Bytes(u.buffer) <= MaxReply
                 /\ buffer' = u.buffer
                 /\ records' = Append(records, NewRecord(u, a))
                 /\ UNCHANGED phase
    BY DEF Store, w
  <2> HIDE DEF v
  <2> QED  BY <2>1 DEF Store
<1>2. RecordAdded(w, v, r)
  BY <1>1, StoreAdds
<1>3. phase = "answer"
  BY <1>1 DEF Fits
<1>4. Reply(w, records)
  BY <1>3 DEF Inv, Answering
<1>5. w.buffer = buffer
  OBVIOUS
<1> HIDE DEF w, v, r
<1>6. Reply(v, Append(records, r))
  BY <1>2, <1>4, ReplyGrows
<1>7. Carried(w, v) /\ GoodWriter(v)
  BY <1>2 DEF RecordAdded, Carried
<1>8. v.starts \in Seq(Nat) /\ v.buffer \in Buffer /\ v = [buffer |-> v.buffer, starts |-> v.starts]
  BY <1>7 DEF GoodWriter
<1>9. TypeOK /\ Received /\ RecordsKept /\ AskedKept /\ StaleIgnored
  BY DEF Inv
<1>10. CASE phase' = "done" /\ UNCHANGED <<buffer, records>>
  <2>1. TypeOK'
    BY <1>1, <1>8, <1>9, <1>10 DEF TypeOK
  <2>2. Received' /\ RecordsKept' /\ AskedKept'
    BY <1>1, <1>3, <1>9, <1>10 DEF Received, RecordsKept, AskedKept
  <2>3. StaleIgnored'
    BY <1>1, <1>3, <1>9, <1>10 DEF StaleIgnored
  <2> QED  BY <1>10, <2>1, <2>2, <2>3 DEF Inv, ReceiveClean, Answering
<1>11. CASE /\ Bytes(v.buffer) <= MaxReply /\ buffer' = v.buffer
            /\ records' = Append(records, r) /\ UNCHANGED phase
  <2>1. RecordsIn(v.buffer, Append(records, r)) /\ Shared(v.buffer, Append(records, r))
    BY <1>6 DEF Reply
  <2>2. Append(records, r) \in Seq(RecordType)
    BY <2>1 DEF RecordsIn
  <2>3. v.buffer \in Seq(Cell)
    BY <1>8, BufferParts
  <2>4. TypeOK'
    BY <1>1, <1>8, <1>9, <1>11, <2>2, <2>3 DEF TypeOK
  <2>5. Received'
    BY <1>1, <1>3, <1>8, <1>9, <1>11 DEF Received
  <2>6. RecordsKept'
    BY <1>11, <2>1 DEF RecordsKept
  <2>7. Answering'
    BY <1>1, <1>6, <1>8, <1>11 DEF Answering
  <2>8. AskedKept'
    <3>1. MoreThan(w.buffer, v.buffer)
      BY <1>7 DEF Carried, MoreThan
    <3>2. \A i \in 1..Len(asked) : HasName(w.buffer, name, asked[i])
      BY <1>3, <1>5, <1>9 DEF AskedKept
    <3>3. \A i \in 1..Len(asked) : HasName(v.buffer, name, asked[i])
      BY <3>1, <3>2, HasNameKept
    <3> QED  BY <1>1, <1>11, <3>3 DEF AskedKept
  <2>9. StaleIgnored'
    BY <1>1, <1>9, <1>11 DEF StaleIgnored
  <2> QED  BY <1>3, <1>11, <2>4, <2>5, <2>6, <2>7, <2>8, <2>9 DEF Inv, ReceiveClean
<1> QED  BY <1>1, <1>10, <1>11

\* Nothing but the phase changes when a label is written that reads as a pointer.
LEMMA StoreWildInv ==
    ASSUME Inv, NEW a \in Answer, StoreWild(a)
    PROVE  Inv'
<1>1. /\ phase = "answer" /\ phase' = "undefined"
      /\ UNCHANGED <<datagram, rcode, name, question, asked, buffer, starts, records>>
  BY DEF StoreWild, Fits
<1>2. TypeOK'
  BY <1>1 DEF Inv, TypeOK
<1>3. StaleIgnored'
  BY <1>1 DEF Inv, StaleIgnored
<1> QED  BY <1>1, <1>2, <1>3 DEF Inv, ReceiveClean, Received, RecordsKept, Answering, AskedKept

LEMMA NextQuestionInv == Inv /\ NextQuestion => Inv'
<1> SUFFICES ASSUME Inv, NextQuestion PROVE Inv'
  OBVIOUS
<1> DEFINE later == {o \in Range(asked) : o > question}
<1>1. /\ phase = "answer" /\ question' = (IF later = {} THEN 0 ELSE Min(later))
      /\ UNCHANGED <<phase, datagram, rcode, name, asked, buffer, starts, records>>
  BY DEF NextQuestion
<1>2. TypeOK
  BY DEF Inv
<1>3. asked \in Seq(Nat)
  BY <1>2 DEF TypeOK
<1>4. later \subseteq Nat /\ later \subseteq Range(asked)
  <2>1. DOMAIN asked = 1..Len(asked) /\ \A i \in 1..Len(asked) : asked[i] \in Nat
    BY <1>3, LenProperties, ElementOfSeq
  <2> QED  BY <2>1 DEF Range
<1> HIDE DEF later
<1>5. later # {} => Min(later) \in later
  <2>1. later # {} => \E x \in later : \A y \in later : x =< y
    BY <1>4, LeastElement
  <2> QED  BY <2>1 DEF Min
<1>6. question' \in Range(asked') \cup {0}
  BY <1>1, <1>4, <1>5
<1>7. TypeOK'
  BY <1>1, <1>2, <1>6 DEF TypeOK
<1> QED  BY <1>1, <1>7 DEF Inv, ReceiveClean, Received, RecordsKept, Answering, AskedKept, StaleIgnored

LEMMA FinishInv == Inv /\ Finish => Inv'
<1> SUFFICES ASSUME Inv, Finish PROVE Inv'
  OBVIOUS
<1>1. /\ phase = "answer" /\ phase' = "done"
      /\ UNCHANGED <<datagram, rcode, name, question, asked, buffer, starts, records>>
  BY DEF Finish
<1>2. TypeOK'
  BY <1>1 DEF Inv, TypeOK
<1>3. StaleIgnored'
  BY <1>1 DEF Inv, StaleIgnored
<1> QED  BY <1>1, <1>2, <1>3 DEF Inv, ReceiveClean, Received, RecordsKept, Answering, AskedKept

LEMMA UnchangedInv == Inv /\ UNCHANGED vars => Inv'
BY DEF Inv, TypeOK, ReceiveClean, Received, RecordsKept, Answering, AskedKept, StaleIgnored, vars,
       AllNames, NamesOf

\* Every step of a query keeps the invariant.
LEMMA NextInv == Inv /\ [Next]_vars => Inv'
<1> SUFFICES ASSUME Inv, [Next]_vars PROVE Inv'
  OBVIOUS
<1>1. CASE \E d \in Datagram, s \in Stale, n \in QdCount, class \in QClass :
             Receive(d, s, n, class)
  BY <1>1, ReceiveInv
<1>2. CASE \E a \in Answer : Store(a) \/ StoreWild(a)
  BY <1>2, StoreInv, StoreWildInv
<1>3. CASE NextQuestion
  BY <1>3, NextQuestionInv
<1>4. CASE Finish
  BY <1>4, FinishInv
<1>5. CASE Stopped
  BY <1>5, UnchangedInv DEF Stopped
<1>6. CASE UNCHANGED vars
  BY <1>6, UnchangedInv
<1> QED  BY <1>1, <1>2, <1>3, <1>4, <1>5, <1>6 DEF Next

-----------------------------------------------------------------------------
(* The theorems.                                                           *)

\* Inv is an inductive invariant: whatever query is received and whatever records Store
\* writes or Revert takes back, the reply keeps its structure.
THEOREM AlwaysInv == Spec => []Inv
<1>1. Init => Inv
  BY InitInv
<1>2. Inv /\ [Next]_vars => Inv'
  BY NextInv
<1> QED  BY <1>1, <1>2, PTL DEF Spec

\* The cells of a name that is there label by label.
LEMMA NameCells ==
    ASSUME NEW b \in Seq(Cell), NEW n, NEW o, HasName(b, n, o)
    PROVE  SubSeq(b, o, o + Len(n)) = Append([k \in DOMAIN n |-> LabelCell(n[k])], End)
<1> DEFINE M == Len(n)
           ms == [k \in DOMAIN n |-> LabelCell(n[k])]
           s == SubSeq(b, o, o + M)
           t == Append(ms, End)
<1>1. /\ n \in Seq(Proper) /\ o \in 1..Len(b) /\ o + M \in 1..Len(b)
      /\ \A k \in 1..M : b[o + k - 1] = LabelCell(n[k])
      /\ b[o + M] = End
  BY DEF HasName
<1>2. M \in Nat /\ DOMAIN n = 1..M /\ Len(b) \in Nat /\ \A k \in 1..M : n[k] \in Proper
  BY <1>1, LenProperties, ElementOfSeq
<1>3. ms \in Seq(Cell) /\ Len(ms) = M /\ \A k \in 1..M : ms[k] = LabelCell(n[k])
  <2>1. \A k \in 1..M : LabelCell(n[k]) \in Cell
    BY <1>2, CellTypes
  <2>2. ms \in [1..M -> Cell] /\ DOMAIN ms = 1..M /\ \A k \in 1..M : ms[k] = LabelCell(n[k])
    BY <1>2, <2>1
  <2> HIDE DEF ms
  <2>3. ms \in Seq(Cell)
    BY <1>2, <2>2
  <2>4. Len(ms) = M
    BY <1>2, <2>2, <2>3, LenProperties
  <2> QED  BY <2>2, <2>3, <2>4
<1> HIDE DEF ms
<1>4. t \in Seq(Cell) /\ Len(t) = M + 1 /\ (\A k \in 1..M : t[k] = ms[k]) /\ t[M + 1] = End
  <2>1. End \in Cell
    BY CellTypes
  <2> QED  BY <1>3, <2>1, AppendProperties
<1>5. s \in Seq(Cell) /\ Len(s) = M + 1 /\ \A i \in 1..(M + 1) : s[i] = b[o + i - 1]
  <2> DEFINE e == o + M
  <2>1. o \in Int /\ e \in Int /\ o <= e /\ e - o + 1 = M + 1
    BY <1>1, <1>2
  <2>2. \A i \in o..e : i \in 1..Len(b)
    BY <1>1, <1>2
  <2>3. \A i \in o..e : b[i] \in Cell
    BY <2>2, CellsParts
  <2> HIDE DEF e
  <2>4. /\ SubSeq(b, o, e) \in Seq(Cell)
        /\ Len(SubSeq(b, o, e)) = IF o <= e THEN e - o + 1 ELSE 0
        /\ \A i \in 1..(e - o + 1) : SubSeq(b, o, e)[i] = b[o + i - 1]
    BY <2>1, <2>3, SubSeqProperties
  <2>5. s = SubSeq(b, o, e)
    BY DEF e
  <2> HIDE DEF s
  <2> QED  BY <2>1, <2>4, <2>5
<1> HIDE DEF s, t
<1>6. \A i \in 1..(M + 1) : i \in 1..M \/ i = M + 1
  BY <1>2
<1>7. o + (M + 1) - 1 = o + M /\ M + 1 \in 1..(M + 1)
  BY <1>1, <1>2
<1>8. s[M + 1] = End
  BY <1>1, <1>5, <1>7
<1>9. \A i \in 1..M : s[i] = LabelCell(n[i])
  <2>1. \A i \in 1..M : i \in 1..(M + 1)
    BY <1>2
  <2> QED  BY <1>1, <1>5, <2>1
<1>10. \A i \in 1..(M + 1) : s[i] = t[i]
  BY <1>3, <1>4, <1>6, <1>8, <1>9
<1>11. s = t
  BY <1>4, <1>5, <1>10, SeqEqual
<1> QED  BY <1>11 DEF s, t, ms

\* What the invariant says of a reply.
LEMMA InvProperties ==
    ASSUME Inv
    PROVE  /\ NamesReadBack /\ RecordsFramed /\ StartsReadable
           /\ KnownNamesShared /\ QuestionKept
<1>1. NamesReadBack /\ RecordsFramed
  BY RecordsReadBack DEF Inv, RecordsKept
<1>2. StartsReadable
  BY StartsRead DEF Inv, Answering, StartsReadable
<1>3. KnownNamesShared
  <2>1. CASE phase = "receive"
    <3>1. records = << >>
      BY <2>1 DEF Inv, ReceiveClean
    <3>2. DOMAIN << >> = {}
      OBVIOUS
    <3>3. AllNames = {}
      BY <3>1, <3>2 DEF AllNames
    <3> QED  BY <3>3 DEF KnownNamesShared
  <2>2. CASE phase # "receive"
    BY <2>2, SharedByPointer DEF Inv, Received, RecordsKept
  <2> QED  BY <2>1, <2>2
<1>4. QuestionKept
  <2> SUFFICES ASSUME phase \in {"answer", "done"}, NEW i \in DOMAIN asked
               PROVE  SubSeq(buffer, asked[i], asked[i] + Len(name)) =
                        Append([k \in DOMAIN name |-> LabelCell(name[k])], End)
    BY DEF QuestionKept
  <2>1. asked \in Seq(Nat) /\ buffer \in Seq(Cell)
    BY DEF Inv, TypeOK
  <2>2. i \in 1..Len(asked)
    BY <2>1, LenProperties
  <2>3. HasName(buffer, name, asked[i])
    BY <2>2 DEF Inv, AskedKept
  <2> DEFINE o == asked[i]
  <2> HIDE DEF o
  <2>4. HasName(buffer, name, o)
    BY <2>3 DEF o
  <2>5. SubSeq(buffer, o, o + Len(name)) = Append([k \in DOMAIN name |-> LabelCell(name[k])], End)
    BY <2>1, <2>4, NameCells
  <2> QED  BY <2>5 DEF o
<1> QED  BY <1>1, <1>2, <1>3, <1>4

\* The state of a query has the types of its variables, and a reply is never longer
\* than max_reply_buffer_ (Store, Revert), for any records and any size of the buffer.
THEOREM AnswerTypeOK == Spec => []TypeOK
<1>1. Inv => TypeOK
  BY DEF Inv
<1> QED  BY <1>1, AlwaysInv, PTL

\* Every name that a record has reads back as it was meant if its labels are of 1..63
\* bytes, and else up to the first label that is not: no pointer of WriteDomainName leads
\* to another name, forwards or round in a circle, whatever labels the records have.
THEOREM AlwaysNamesReadBack == Spec => []NamesReadBack
<1>1. Inv => NamesReadBack
  BY InvProperties
<1> QED  BY <1>1, AlwaysInv, PTL

\* A reader that goes from rdlength to rdlength finds every record and the end of the
\* reply (WriteRdlength and the Write of every Rdata class).
THEOREM AlwaysRecordsFramed == Spec => []RecordsFramed
<1>1. Inv => RecordsFramed
  BY InvProperties
<1> QED  BY <1>1, AlwaysInv, PTL

\* While there is more to write, label_start_points_ has names of records only, as they
\* read: what Revert cuts off is never pointed at.
THEOREM AlwaysStartsReadable == Spec => []StartsReadable
<1>1. Inv => StartsReadable
  BY InvProperties
<1> QED  BY <1>1, AlwaysInv, PTL

\* A name whose labels are of 1..63 bytes is written once: where it comes again there is
\* a pointer (AddLabelForCompression, SearchForDomainName).
THEOREM AlwaysNamesShared == Spec => []KnownNamesShared
<1>1. Inv => KnownNamesShared
  BY InvProperties
<1> QED  BY <1>1, AlwaysInv, PTL

\* The questions of the reply are the labels of the query and an end mark, so no pointer
\* that LabelHeader followed is copied into a reply (ProcessQuestions, FindPointer).
THEOREM AlwaysQuestionKept == Spec => []QuestionKept
<1>1. Inv => QuestionKept
  BY InvProperties
<1> QED  BY <1>1, AlwaysInv, PTL

\* The byte that LabelHeader may read past the end of a datagram decides nothing.
THEOREM AlwaysStaleIgnored == Spec => []StaleIgnored
<1>1. Inv => StaleIgnored
  BY DEF Inv
<1> QED  BY <1>1, AlwaysInv, PTL
=============================================================================
