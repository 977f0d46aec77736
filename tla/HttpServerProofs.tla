-------------------------- MODULE HttpServerProofs --------------------------
(***************************************************************************)
(* Proofs about HttpServer for any set of connections, users and requests. *)
(* Sessions touch nothing but their own record, so the invariant is one of *)
(* a single session, SessionInv, and each step of DoSession is a lemma     *)
(* about the record before it and the record after it.                     *)
(***************************************************************************)
EXTENDS HttpServer, RecursionProofs

-----------------------------------------------------------------------------
(* The inductive invariant.                                                *)

\* Responses are to requests that were read, in order; "close" is only said in
\* response to the last of them, and only when the connection will be closed.
OutInv(s) ==
    /\ InOrder(s.out)
    /\ \A i \in DOMAIN s.out :
        /\ s.out[i].request <= Len(s.authorized)
        /\ ~s.out[i].keepAlive => s.close /\ s.out[i].request = Len(s.authorized)

\* Before the first request there is nothing to know of a session.
FreshInv(s) ==
    s.pc \in {"away", "waiting", "handshake"} =>
        s.out = << >> /\ s.authorized = << >> /\ ~s.close

\* The server reads on only if it has said so, and after all that was due.
ReadInv(s) == s.pc = "read" => ~s.close /\ Said(s.out) = Due(s.authorized)

\* Between the denial and the handler's response, just that response is missing.
DenyInv(s) ==
    s.pc = "deny" =>
        /\ s.authorized # << >>
        /\ ~s.authorized[Len(s.authorized)]
        /\ Said(s.out) = Due(s.authorized) \ {<<Len(s.authorized), "handler">>}

\* A response of the handler says what will be done.
ReplyInv(s) ==
    s.pc = "reply" =>
        /\ s.out # << >>
        /\ s.close => ~s.out[Len(s.out)].keepAlive
        /\ Said(s.out) = Due(s.authorized)

\* No more requests than the bound are read.
BoundInv(s) == Len(s.authorized) <= MaxRequests

SessionInv(s) ==
    OutInv(s) /\ FreshInv(s) /\ ReadInv(s) /\ DenyInv(s) /\ ReplyInv(s) /\ BoundInv(s)

\* While the loop goes on it has counted the errors in a row.
AcceptInv == errorCnt = inRow

IInv == TypeOK /\ AcceptInv /\ \A c \in Conn : SessionInv(session[c])

-----------------------------------------------------------------------------
(* One session.                                                            *)

\* A session in which nothing was said.
LEMMA SilentSession ==
    ASSUME NEW s, s.pc \notin {"deny", "reply"}, s.out = << >>, s.authorized = << >>, ~s.close
    PROVE  SessionInv(s) /\ Said(s.out) = Due(s.authorized)
<1>1. DOMAIN s.out = {} /\ DOMAIN s.authorized = {} /\ Len(s.authorized) = 0
  OBVIOUS
<1>2. Said(s.out) = {} /\ Due(s.authorized) = {}
  BY <1>1 DEF Said, Due
<1>3. OutInv(s)
  BY <1>1 DEF OutInv, InOrder
<1>4. BoundInv(s)
  BY <1>1, HttpAssumption DEF BoundInv
<1> QED  BY <1>2, <1>3, <1>4 DEF SessionInv, FreshInv, ReadInv, DenyInv, ReplyInv

\* The dummies are of their types.
LEMMA NewSessionFacts ==
    /\ NoHeader \in HeaderType
    /\ NewSession \in SessionType
    /\ SessionInv(NewSession)
<1>1. NoHeader \in HeaderType
  BY DEF NoHeader, HeaderType
<1>2. NewSession \in SessionType
  BY <1>1 DEF NewSession, SessionType, Pc
<1>3. SessionInv(NewSession)
  BY SilentSession DEF NewSession
<1> QED  BY <1>1, <1>2, <1>3

\* A response to the last request is added to what a client was told.
LEMMA SayFacts ==
    ASSUME NEW s \in SessionType, OutInv(s), s.authorized # << >>,
           NEW r \in Response, r.request = Len(s.authorized), s.close => ~r.keepAlive,
           \A i \in DOMAIN s.out :
              s.out[i].request = Len(s.authorized) => s.out[i].by = "server" /\ r.by = "handler"
    PROVE  /\ Append(s.out, r) \in Seq(Response)
           /\ Append(s.out, r) # << >>
           /\ Append(s.out, r)[Len(Append(s.out, r))] = r
           /\ InOrder(Append(s.out, r))
           /\ \A i \in DOMAIN Append(s.out, r) :
                /\ Append(s.out, r)[i].request <= Len(s.authorized)
                /\ ~Append(s.out, r)[i].keepAlive =>
                     ~r.keepAlive /\ Append(s.out, r)[i].request = Len(s.authorized)
           /\ Said(Append(s.out, r)) = Said(s.out) \cup {<<Len(s.authorized), r.by>>}
<1> DEFINE n == Len(s.authorized)
           out == Append(s.out, r)
<1>1. s.out \in Seq(Response) /\ s.authorized \in Seq(BOOLEAN)
  BY DEF SessionType
<1>2. n \in Nat
  BY <1>1, LenProperties
<1> HIDE DEF n, out
<1>4. /\ out \in Seq(Response) /\ Len(out) = Len(s.out) + 1 /\ out # << >>
      /\ \A i \in 1..Len(s.out) : out[i] = s.out[i]
      /\ out[Len(s.out) + 1] = r
  BY <1>1, AppendProperties DEF out
<1>5. /\ Len(s.out) \in Nat /\ DOMAIN s.out = 1..Len(s.out)
      /\ DOMAIN out = 1..(Len(s.out) + 1)
  BY <1>1, <1>4, LenProperties
<1>6. \A i \in DOMAIN s.out :
        /\ s.out[i].request \in Nat /\ s.out[i].request <= n
        /\ ~s.out[i].keepAlive => s.close /\ s.out[i].request = n
        /\ s.out[i].request = n => s.out[i].by = "server" /\ r.by = "handler"
  <2>1. \A i \in DOMAIN s.out : s.out[i] \in Response
    BY <1>1, <1>5, ElementOfSeq
  <2>2. \A a \in Response : a.request \in Nat
    BY HttpAssumption DEF Response
  <2>3. \A i \in DOMAIN s.out :
          /\ s.out[i].request <= n
          /\ ~s.out[i].keepAlive => s.close /\ s.out[i].request = n
    BY DEF OutInv, n
  <2> QED  BY <2>1, <2>2, <2>3 DEF n
<1>7. \A i \in DOMAIN out :
        \/ i \in DOMAIN s.out /\ out[i] = s.out[i]
        \/ i = Len(s.out) + 1 /\ out[i] = r
  BY <1>4, <1>5
<1>8. InOrder(out)
  <2> SUFFICES ASSUME NEW i \in DOMAIN out, NEW j \in DOMAIN out, i < j
               PROVE  \/ out[i].request < out[j].request
                      \/ /\ out[i].request = out[j].request
                         /\ out[i].by = "server" /\ out[j].by = "handler"
    BY DEF InOrder
  <2>1. i \in DOMAIN s.out /\ out[i] = s.out[i]
    BY <1>4, <1>5
  <2>2. CASE j \in DOMAIN s.out
    <3>1. out[j] = s.out[j]
      BY <1>4, <1>5, <2>2
    <3>2. InOrder(s.out)
      BY DEF OutInv
    <3> QED  BY <2>1, <2>2, <3>1, <3>2 DEF InOrder
  <2>3. CASE j = Len(s.out) + 1 /\ out[j] = r
    BY <1>2, <1>6, <2>1, <2>3 DEF n
  <2> QED  BY <1>7, <2>2, <2>3
<1>9. \A i \in DOMAIN out :
         /\ out[i].request <= n
         /\ ~out[i].keepAlive => ~r.keepAlive /\ out[i].request = n
  <2> TAKE i \in DOMAIN out
  <2>1. CASE i \in DOMAIN s.out /\ out[i] = s.out[i]
    BY <1>6, <2>1
  <2>2. CASE i = Len(s.out) + 1 /\ out[i] = r
    BY <1>2, <2>2 DEF n
  <2> QED  BY <1>7, <2>1, <2>2
<1>10. Said(out) = Said(s.out) \cup {<<n, r.by>>}
  <2>1. Said(out) \subseteq Said(s.out) \cup {<<n, r.by>>}
    BY <1>7 DEF Said, n
  <2>2. <<n, r.by>> \in Said(out)
    BY <1>4, <1>5 DEF Said, n
  <2>3. Said(s.out) \subseteq Said(out)
    BY <1>4, <1>5 DEF Said
  <2> QED  BY <2>1, <2>2, <2>3
<1> QED  BY <1>4, <1>8, <1>9, <1>10 DEF n, out

\* What is due after one more request.
LEMMA DueAppend ==
    ASSUME NEW a \in Seq(BOOLEAN), NEW b \in BOOLEAN
    PROVE  Due(Append(a, b)) = Due(a) \cup {<<Len(a) + 1, "handler">>}
                                 \cup (IF b THEN {} ELSE {<<Len(a) + 1, "server">>})
<1>1. /\ Append(a, b) \in Seq(BOOLEAN) /\ Len(Append(a, b)) = Len(a) + 1
      /\ \A i \in 1..Len(a) : Append(a, b)[i] = a[i]
      /\ Append(a, b)[Len(a) + 1] = b
  BY AppendProperties
<1>2. Len(a) \in Nat /\ DOMAIN a = 1..Len(a) /\ DOMAIN Append(a, b) = 1..(Len(a) + 1)
  BY <1>1, LenProperties
<1>3. DOMAIN Append(a, b) = DOMAIN a \cup {Len(a) + 1}
  BY <1>2
<1>4. {n \in DOMAIN Append(a, b) : ~Append(a, b)[n]} =
        {n \in DOMAIN a : ~a[n]} \cup (IF b THEN {} ELSE {Len(a) + 1})
  BY <1>1, <1>2, <1>3
<1> QED  BY <1>3, <1>4, Zenon DEF Due

\* What is due is due to requests that were read.
LEMMA DueBound ==
    ASSUME NEW a \in Seq(BOOLEAN), NEW x
    PROVE  <<Len(a) + 1, x>> \notin Due(a)
<1>1. Len(a) \in Nat /\ DOMAIN a = 1..Len(a) /\ Len(a) + 1 \notin 1..Len(a)
  BY LenProperties
<1> QED  BY <1>1, Zenon DEF Due

\* A request was read: the record before it is decided who answers.
LEMMA RequestFacts ==
    ASSUME NEW s \in SessionType, SessionInv(s), s.pc = "read",
           Len(s.authorized) < MaxRequests,
           NEW r \in SessionType, r.out = s.out, Len(r.authorized) = Len(s.authorized) + 1
    PROVE  /\ OutInv(r) /\ BoundInv(r)
           /\ r.authorized # << >>
           /\ Said(r.out) = Due(s.authorized)
           /\ \A i \in DOMAIN r.out : r.out[i].request # Len(r.authorized)
<1> DEFINE n == Len(s.authorized)
<1>1. s.authorized \in Seq(BOOLEAN) /\ s.out \in Seq(Response)
  BY DEF SessionType
<1>2. n \in Nat /\ n + 1 <= MaxRequests
  BY <1>1, LenProperties, HttpAssumption
<1>3. \A i \in DOMAIN s.out :
        s.out[i].request \in Nat /\ s.out[i].request <= n /\ s.out[i].keepAlive
  <2>1. \A i \in DOMAIN s.out : s.out[i] \in Response
    BY <1>1, ElementOfSeq, LenProperties
  <2>2. \A a \in Response : a.request \in Nat
    BY HttpAssumption DEF Response
  <2> QED  BY <2>1, <2>2 DEF SessionInv, OutInv, ReadInv
<1> HIDE DEF n
<1>4. OutInv(r)
  <2>1. InOrder(r.out)
    BY DEF SessionInv, OutInv
  <2>2. \A i \in DOMAIN r.out : r.out[i].request <= n + 1 /\ r.out[i].keepAlive
    BY <1>2, <1>3
  <2> QED  BY <2>1, <2>2 DEF OutInv, n
<1>5. \A i \in DOMAIN r.out : r.out[i].request # n + 1
  BY <1>2, <1>3
<1>6. Said(r.out) = Due(s.authorized)
  BY DEF SessionInv, ReadInv
<1>7. BoundInv(r)
  BY <1>2 DEF BoundInv, n
<1>8. r.authorized # << >>
  BY <1>2 DEF n
<1> QED  BY <1>4, <1>5, <1>6, <1>7, <1>8 DEF n

\* A response to a request that was read is a response.
LEMMA AnswerFacts ==
    ASSUME NEW s \in SessionType, BoundInv(s), s.authorized # << >>,
           NEW by \in {"server", "handler"}, NEW k
    PROVE  /\ Answer(Len(s.authorized), by, k) \in Response
           /\ Answer(Len(s.authorized), by, k).request = Len(s.authorized)
           /\ Answer(Len(s.authorized), by, k).by = by
           /\ Answer(Len(s.authorized), by, k).keepAlive <=> ~k
<1>1. s.authorized \in Seq(BOOLEAN)
  BY DEF SessionType
<1>2. Len(s.authorized) \in 1..MaxRequests
  BY <1>1, HttpAssumption, EmptySeq, LenProperties DEF BoundInv
<1> QED  BY <1>2 DEF Response, Answer

\* The handler's response completes what is due.
LEMMA HandleKeeps ==
    ASSUME NEW s \in SessionType, OutInv(s), BoundInv(s), s.authorized # << >>,
           Said(s.out) = Due(s.authorized) \ {<<Len(s.authorized), "handler">>},
           NEW closes \in BOOLEAN
    PROVE  /\ Handle(s, closes) \in SessionType
           /\ SessionInv(Handle(s, closes))
<1> DEFINE n == Len(s.authorized)
           a == Answer(n, "handler", s.close \/ closes)
           r == Handle(s, closes)
           out == Append(s.out, a)
<1>1. /\ s.authorized \in Seq(BOOLEAN) /\ s.out \in Seq(Response) /\ s.close \in BOOLEAN
      /\ n \in Nat /\ n \in DOMAIN s.authorized
  BY EmptySeq, LenProperties DEF SessionType
<1>2. \A i \in DOMAIN s.out : s.out[i].request = n => s.out[i].by = "server"
  <2>1. \A i \in DOMAIN s.out : <<s.out[i].request, s.out[i].by>> # <<n, "handler">>
    BY Zenon DEF Said
  <2>2. \A i \in DOMAIN s.out : s.out[i] \in Response
    BY <1>1, ElementOfSeq, LenProperties
  <2>3. \A x \in Response : x.by \in {"server", "handler"}
    BY DEF Response
  <2> QED  BY <2>1, <2>2, <2>3
<1>3. a \in Response /\ a.request = n /\ a.by = "handler" /\ (a.keepAlive <=> ~(s.close \/ closes))
  BY AnswerFacts, ZenonT(30)
<1>4. /\ r.pc = "reply" /\ r.close = (s.close \/ closes) /\ r.out = out
      /\ r.authorized = s.authorized /\ r.header = s.header
      /\ r = [s EXCEPT !.pc = "reply", !.close = s.close \/ closes, !.out = out]
  BY DEF Handle, SessionType
<1> HIDE DEF a
<1>5. /\ out \in Seq(Response) /\ out # << >> /\ out[Len(out)] = a
      /\ InOrder(out)
      /\ \A i \in DOMAIN out :
            out[i].request <= n /\ (~out[i].keepAlive => ~a.keepAlive /\ out[i].request = n)
      /\ Said(out) = Said(s.out) \cup {<<n, "handler">>}
  BY <1>2, <1>3, SayFacts
<1> HIDE DEF out
<1>6. r \in SessionType
  BY <1>1, <1>4, <1>5 DEF SessionType, Pc
<1>7. <<n, "handler">> \in Due(s.authorized)
  BY <1>1, Zenon DEF Due
<1>8. Said(out) = Due(s.authorized)
  BY <1>5, <1>7
<1> HIDE DEF r, n
<1>9. OutInv(r)
  BY <1>3, <1>4, <1>5 DEF OutInv, n
<1>10. ReplyInv(r)
  BY <1>3, <1>4, <1>5, <1>8 DEF ReplyInv
<1>11. BoundInv(r)
  BY <1>4 DEF BoundInv
<1>12. SessionInv(r)
  BY <1>4, <1>9, <1>10, <1>11 DEF SessionInv, FreshInv, ReadInv, DenyInv
<1> QED  BY <1>6, <1>12 DEF r

\* A denial is a response too.
LEMMA DenyKeeps ==
    ASSUME NEW s \in SessionType, OutInv(s), BoundInv(s), s.authorized # << >>,
           ~s.authorized[Len(s.authorized)],
           \A i \in DOMAIN s.out : s.out[i].request # Len(s.authorized),
           Said(s.out) \cup {<<Len(s.authorized), "server">>} =
              Due(s.authorized) \ {<<Len(s.authorized), "handler">>}
    PROVE  Deny(s) \in SessionType /\ SessionInv(Deny(s))
<1> DEFINE n == Len(s.authorized)
           a == Answer(n, "server", s.close)
           r == Deny(s)
           out == Append(s.out, a)
<1>1. /\ s.authorized \in Seq(BOOLEAN) /\ s.out \in Seq(Response) /\ s.close \in BOOLEAN
  BY DEF SessionType
<1>2. a \in Response /\ a.request = n /\ a.by = "server" /\ (a.keepAlive <=> ~s.close)
  BY AnswerFacts
<1>3. /\ r.pc = "deny" /\ r.close = s.close /\ r.out = out
      /\ r.authorized = s.authorized /\ r.header = s.header
      /\ r = [s EXCEPT !.pc = "deny", !.out = out]
  BY DEF Deny, SessionType
<1> HIDE DEF a
<1>4. /\ out \in Seq(Response) /\ InOrder(out)
      /\ \A i \in DOMAIN out :
            out[i].request <= n /\ (~out[i].keepAlive => ~a.keepAlive /\ out[i].request = n)
      /\ Said(out) = Said(s.out) \cup {<<n, "server">>}
  BY <1>2, SayFacts
<1> HIDE DEF out
<1>5. r \in SessionType
  BY <1>1, <1>3, <1>4 DEF SessionType, Pc
<1> HIDE DEF r, n
<1>6. OutInv(r)
  BY <1>2, <1>3, <1>4 DEF OutInv, n
<1>7. DenyInv(r)
  BY <1>3, <1>4 DEF DenyInv, n
<1>8. SessionInv(r)
  BY <1>3, <1>6, <1>7 DEF SessionInv, FreshInv, ReadInv, ReplyInv, BoundInv
<1> QED  BY <1>5, <1>8 DEF r

\* A client that misses the last response has been told nothing else.
LEMMA FrontKeeps ==
    ASSUME NEW s \in SessionType, OutInv(s),
           NEW out, out = IF s.out = << >> THEN s.out ELSE Front(s.out)
    PROVE  /\ out \in Seq(Response)
           /\ InOrder(out)
           /\ \A i \in DOMAIN out : i \in DOMAIN s.out /\ out[i] = s.out[i]
<1>1. s.out \in Seq(Response) /\ DOMAIN s.out = 1..Len(s.out) /\ Len(s.out) \in Nat
  BY LenProperties DEF SessionType
<1>2. out \in Seq(Response) /\ \A i \in DOMAIN out : i \in DOMAIN s.out /\ out[i] = s.out[i]
  <2>1. CASE s.out = << >>
    BY <1>1, <2>1
  <2>2. CASE s.out # << >>
    <3>1. out = SubSeq(s.out, 1, Len(s.out) - 1) /\ Len(s.out) >= 1
      BY <1>1, <2>2, EmptySeq DEF Front
    <3>2. /\ out \in Seq(Response) /\ Len(out) = Len(s.out) - 1
          /\ \A i \in 1..(Len(s.out) - 1) : out[i] = s.out[i]
      BY <1>1, <3>1, ElementOfSeq
    <3> QED  BY <1>1, <3>1, <3>2, LenProperties
  <2> QED  BY <2>1, <2>2
<1> QED  BY <1>2 DEF OutInv, InOrder

-----------------------------------------------------------------------------
(* The steps of the session of one connection.                             *)

\* A session that goes on with a good record keeps the invariant.
LEMMA GoesOnKeeps ==
    ASSUME IInv, NEW c \in Conn, NEW pc, NEW s \in SessionType, SessionInv(s),
           GoesOn(c, pc, s)
    PROVE  IInv'
<1>1. /\ session' = [session EXCEPT ![c] = s]
      /\ UNCHANGED <<tls, endpoint, errorCnt, inRow>>
      /\ session \in [Conn -> SessionType]
  BY DEF GoesOn, IInv, TypeOK
<1>2. session' \in [Conn -> SessionType]
  BY <1>1
<1>3. \A d \in Conn : SessionInv(session'[d])
  BY <1>1 DEF IInv
<1>4. TypeOK'
  BY <1>1, <1>2 DEF IInv, TypeOK
<1> QED  BY <1>1, <1>3, <1>4 DEF IInv, AcceptInv

\* The record with which the loop goes on, or ends.
LEMMA AtKeeps ==
    ASSUME IInv, NEW c \in Conn, NEW pc \in {"read", "shutdown", "ended"},
           pc = "read" => /\ ~session[c].close
                          /\ Said(session[c].out) = Due(session[c].authorized)
    PROVE  At(c, pc) \in SessionType /\ SessionInv(At(c, pc))
<1> DEFINE s == session[c]
           r == At(c, pc)
<1>1. s \in SessionType /\ SessionInv(s)
  BY DEF IInv, TypeOK
<1>2. CASE pc = "ended"
  <2>1. r = [NewSession EXCEPT !.pc = "ended"]
    BY <1>2 DEF At
  <2>2. r \in SessionType
    BY <2>1, NewSessionFacts DEF SessionType, Pc
  <2>3. r.pc = "ended" /\ r.out = << >> /\ r.authorized = << >> /\ ~r.close
    BY <2>1 DEF NewSession
  <2>4. SessionInv(r)
    <3> HIDE DEF r
    <3> QED  BY <2>3, SilentSession
  <2> QED  BY <2>2, <2>4
<1>3. CASE pc # "ended"
  <2>1. r = [s EXCEPT !.pc = pc, !.header = NoHeader]
    BY <1>3 DEF At
  <2>2. /\ r.pc = pc /\ r.close = s.close /\ r.out = s.out
        /\ r.authorized = s.authorized
    BY <1>1, <2>1 DEF SessionType
  <2>3. r \in SessionType
    BY <1>1, <2>1, NewSessionFacts DEF SessionType, Pc
  <2> HIDE DEF r
  <2>4. OutInv(r) /\ BoundInv(r)
    BY <1>1, <2>2 DEF SessionInv, OutInv, BoundInv
  <2>5. SessionInv(r)
    BY <1>3, <2>2, <2>4 DEF SessionInv, FreshInv, ReadInv, DenyInv, ReplyInv
  <2> QED  BY <2>3, <2>5 DEF r
<1> QED  BY <1>2, <1>3

\* The record after a write that failed.
LEMMA UnwrittenKeeps ==
    ASSUME IInv, NEW c \in Conn, NEW pc \in {"shutdown", "ended"}
    PROVE  Unwritten(c, pc) \in SessionType /\ SessionInv(Unwritten(c, pc))
<1> DEFINE s == At(c, pc)
           r == Unwritten(c, pc)
           out == IF s.out = << >> THEN s.out ELSE Front(s.out)
<1>1. s \in SessionType /\ SessionInv(s)
  BY AtKeeps
<1>2. s.pc = pc
  BY NewSessionFacts DEF At, IInv, TypeOK, SessionType
<1> HIDE DEF s
<1>3. r = [s EXCEPT !.out = out]
  BY DEF Unwritten, s
<1>4. /\ out \in Seq(Response) /\ InOrder(out)
      /\ \A i \in DOMAIN out : i \in DOMAIN s.out /\ out[i] = s.out[i]
  <2>1. OutInv(s)
    BY <1>1 DEF SessionInv
  <2> HIDE DEF out
  <2>2. out = IF s.out = << >> THEN s.out ELSE Front(s.out)
    BY DEF out
  <2> QED  BY <1>1, <2>1, <2>2, FrontKeeps
<1> HIDE DEF out
<1>5. /\ r \in SessionType /\ r.pc = pc /\ r.out = out
      /\ r.close = s.close /\ r.authorized = s.authorized
  BY <1>1, <1>2, <1>3, <1>4 DEF SessionType
<1> HIDE DEF r
<1>6. OutInv(r)
  BY <1>1, <1>4, <1>5 DEF SessionInv, OutInv
<1>7. SessionInv(r)
  BY <1>1, <1>5, <1>6 DEF SessionInv, FreshInv, ReadInv, DenyInv, ReplyInv, BoundInv
<1> QED  BY <1>5, <1>7 DEF r

\* A request is read, authorized or not.
LEMMA ReadKeeps ==
    ASSUME IInv, NEW c \in Conn, NEW h \in Header, NEW keepAlive \in BOOLEAN,
           Read(c, h, keepAlive)
    PROVE  IInv'
<1> DEFINE b == Authenticate(h)
           s == session[c]
           r == [s EXCEPT !.close = @ \/ ~keepAlive,
                          !.authorized = Append(@, b), !.header = h]
           n == Len(s.authorized) + 1
<1>1. /\ s \in SessionType /\ SessionInv(s) /\ s.pc = "read"
      /\ Len(s.authorized) < MaxRequests
  BY DEF IInv, TypeOK, Read, Requests
<1>2. b \in BOOLEAN /\ h \in HeaderType /\ (s.close \/ ~keepAlive) \in BOOLEAN
  BY HttpAssumption DEF Authenticate
<1>3. /\ r \in SessionType /\ r.out = s.out
      /\ r.authorized = Append(s.authorized, b) /\ s.authorized \in Seq(BOOLEAN)
      /\ Len(r.authorized) = n /\ r.authorized[n] = b
  <2>1. s.authorized \in Seq(BOOLEAN)
    BY <1>1 DEF SessionType
  <2>2. /\ Append(s.authorized, b) \in Seq(BOOLEAN) /\ Len(Append(s.authorized, b)) = n
        /\ Append(s.authorized, b)[n] = b
    <3> HIDE DEF b, s
    <3> QED  BY <1>2, <2>1, AppendProperties
  <2> HIDE DEF b
  <2> QED  BY <1>1, <1>2, <2>1, <2>2 DEF SessionType
<1>4. /\ OutInv(r) /\ BoundInv(r) /\ r.authorized # << >>
      /\ Said(r.out) = Due(s.authorized)
      /\ \A i \in DOMAIN r.out : r.out[i].request # Len(r.authorized)
  <2> HIDE DEF s, r
  <2> QED  BY <1>1, <1>3, RequestFacts
<1>5. Due(r.authorized) = Due(s.authorized) \cup {<<n, "handler">>}
                            \cup (IF b THEN {} ELSE {<<n, "server">>})
  <2> HIDE DEF b, s, r
  <2> QED  BY <1>2, <1>3, DueAppend
<1>6. \A x : <<n, x>> \notin Due(s.authorized)
  BY <1>3, DueBound
<1>7. \/ b /\ \E closes \in BOOLEAN : GoesOn(c, "read", Handle(r, closes))
      \/ ~b /\ GoesOn(c, "read", Deny(r))
  BY DEF Read
<1> HIDE DEF b, r, s
<1>8. CASE b
  <2>1. Said(r.out) = Due(r.authorized) \ {<<Len(r.authorized), "handler">>}
    BY <1>3, <1>4, <1>5, <1>6, <1>8
  <2>2. PICK closes \in BOOLEAN : GoesOn(c, "read", Handle(r, closes))
    BY <1>7, <1>8
  <2>3. Handle(r, closes) \in SessionType /\ SessionInv(Handle(r, closes))
    BY <1>3, <1>4, <2>1, HandleKeeps
  <2> QED  BY <2>2, <2>3, GoesOnKeeps
<1>9. CASE ~b
  <2>1. Said(r.out) \cup {<<Len(r.authorized), "server">>} =
            Due(r.authorized) \ {<<Len(r.authorized), "handler">>}
    BY <1>3, <1>4, <1>5, <1>6, <1>9
  <2>2. Deny(r) \in SessionType /\ SessionInv(Deny(r))
    BY <1>3, <1>4, <1>9, <2>1, DenyKeeps
  <2> QED  BY <1>7, <1>9, <2>2, GoesOnKeeps
<1> QED  BY <1>8, <1>9

\* A denied request is handled.
LEMMA DeniedKeeps ==
    ASSUME IInv, NEW c \in Conn, Denied(c)
    PROVE  IInv'
<1>1. PICK closes \in BOOLEAN : GoesOn(c, "deny", Handle(session[c], closes))
  BY DEF Denied
<1>2. /\ session[c] \in SessionType /\ SessionInv(session[c]) /\ session[c].pc = "deny"
  BY <1>1 DEF IInv, TypeOK, GoesOn
<1>3. /\ Handle(session[c], closes) \in SessionType
      /\ SessionInv(Handle(session[c], closes))
  BY <1>2, HandleKeeps DEF SessionInv, DenyInv
<1> QED  BY <1>1, <1>3, GoesOnKeeps

\* The response is written: the loop goes on unless the connection is to be closed.
LEMMA RepliedKeeps ==
    ASSUME IInv, NEW c \in Conn, Replied(c)
    PROVE  IInv'
<1>1. CASE session[c].close /\ GoesOn(c, "reply", At(c, "shutdown"))
  BY <1>1, AtKeeps, GoesOnKeeps
<1>2. CASE ~session[c].close /\ \E pc \in Loop : GoesOn(c, "reply", At(c, pc))
  <2>1. PICK pc \in Loop : GoesOn(c, "reply", At(c, pc))
    BY <1>2
  <2>2. session[c].pc = "reply" /\ SessionInv(session[c])
    BY <2>1 DEF GoesOn, IInv
  <2>3. At(c, pc) \in SessionType /\ SessionInv(At(c, pc))
    BY <1>2, <2>2, AtKeeps DEF SessionInv, ReplyInv, Loop
  <2> QED  BY <2>1, <2>3, GoesOnKeeps
<1> QED  BY <1>1, <1>2 DEF Replied

\* The handshake ends.
LEMMA HandshakeKeeps ==
    ASSUME IInv, NEW c \in Conn, Handshake(c)
    PROVE  IInv'
<1>1. PICK pc \in Loop : GoesOn(c, "handshake", At(c, pc))
  BY DEF Handshake
<1>2. session[c].pc = "handshake" /\ SessionInv(session[c])
  BY <1>1 DEF GoesOn, IInv
<1>3. /\ session[c].out = << >> /\ session[c].authorized = << >> /\ ~session[c].close
  BY <1>2 DEF SessionInv, FreshInv
<1>4. Said(session[c].out) = Due(session[c].authorized)
  BY <1>2, <1>3, SilentSession
<1>5. At(c, pc) \in SessionType /\ SessionInv(At(c, pc))
  BY <1>3, <1>4, AtKeeps DEF Loop
<1> QED  BY <1>1, <1>5, GoesOnKeeps

\* An operation fails.
LEMMA FailsKeeps ==
    ASSUME IInv, NEW c \in Conn, Fails(c)
    PROVE  IInv'
<1>1. At(c, "ended") \in SessionType /\ SessionInv(At(c, "ended"))
  BY AtKeeps
<1>2. \A pc \in {"shutdown", "ended"} :
        Unwritten(c, pc) \in SessionType /\ SessionInv(Unwritten(c, pc))
  BY UnwrittenKeeps
<1> QED  BY <1>1, <1>2, GoesOnKeeps DEF Fails

-----------------------------------------------------------------------------
(* The endpoint.                                                           *)

\* A session that has not begun moves on without a word.
LEMMA FreshKeeps ==
    ASSUME IInv, NEW c \in Conn, NEW pc \in {"waiting", "handshake", "read"},
           session[c].pc \in {"away", "waiting"},
           session' = [session EXCEPT ![c].pc = pc]
    PROVE  /\ session' \in [Conn -> SessionType]
           /\ \A d \in Conn : SessionInv(session'[d])
<1> DEFINE s == session[c]
           r == [s EXCEPT !.pc = pc]
<1>1. /\ session \in [Conn -> SessionType] /\ s \in SessionType /\ SessionInv(s)
  BY DEF IInv, TypeOK
<1>2. /\ r.pc = pc /\ r.out = s.out /\ r.authorized = s.authorized /\ r.close = s.close
      /\ r \in SessionType
  BY <1>1 DEF SessionType, Pc
<1>3. s.out = << >> /\ s.authorized = << >> /\ ~s.close
  BY <1>1 DEF SessionInv, FreshInv
<1>4. session' = [session EXCEPT ![c] = r]
  BY <1>1
<1> HIDE DEF r
<1>6. SessionInv(r)
  BY <1>2, <1>3, SilentSession
<1>7. \A d \in Conn : SessionInv(session[d])
  BY DEF IInv
<1> HIDE DEF s
<1> QED  BY <1>1, <1>2, <1>4, <1>6, <1>7

\* The accept loop and the steps around it.
LEMMA EndpointKeeps ==
    ASSUME IInv,
           \/ \E ok \in BOOLEAN : SetUp(ok)
           \/ AcceptFails
           \/ \E c \in Conn : Connect(c) \/ Accept(c)
           \/ UNCHANGED vars
    PROVE  IInv'
<1>1. ASSUME NEW ok \in BOOLEAN, SetUp(ok) PROVE IInv'
  BY <1>1 DEF IInv, TypeOK, AcceptInv, SetUp
<1>2. CASE AcceptFails
  BY <1>2, HttpAssumption DEF IInv, TypeOK, AcceptInv, AcceptFails, Accepting
<1>3. ASSUME NEW c \in Conn, Connect(c) PROVE IInv'
  <2>1. /\ session' \in [Conn -> SessionType]
        /\ \A d \in Conn : SessionInv(session'[d])
    BY <1>3, FreshKeeps DEF Connect
  <2> QED  BY <1>3, <2>1 DEF IInv, TypeOK, AcceptInv, Connect
<1>4. ASSUME NEW c \in Conn, Accept(c) PROVE IInv'
  <2>1. /\ session' \in [Conn -> SessionType]
        /\ \A d \in Conn : SessionInv(session'[d])
    <3> DEFINE pc == IF tls THEN "handshake" ELSE "read"
    <3>1. pc \in {"waiting", "handshake", "read"}
      OBVIOUS
    <3>2. session' = [session EXCEPT ![c].pc = pc] /\ session[c].pc = "waiting"
      BY <1>4 DEF Accept
    <3> HIDE DEF pc
    <3> QED  BY <3>1, <3>2, FreshKeeps
  <2>2. 0 \in 0..MaxErrors
    BY HttpAssumption
  <2> QED  BY <1>4, <2>1, <2>2 DEF IInv, TypeOK, AcceptInv, Accept
<1>5. CASE UNCHANGED vars
  BY <1>5 DEF IInv, TypeOK, AcceptInv, vars
<1> QED  BY <1>1, <1>2, <1>3, <1>4, <1>5

\* Every step keeps the invariant.
LEMMA NextKeeps ==
    ASSUME IInv, [Next]_vars
    PROVE  IInv'
<1>1. ASSUME NEW c \in Conn, EndOfStream(c) PROVE IInv'
  BY <1>1, AtKeeps, GoesOnKeeps DEF EndOfStream
<1>2. ASSUME NEW c \in Conn, ShutDown(c) PROVE IInv'
  BY <1>2, AtKeeps, GoesOnKeeps DEF ShutDown
<1> QED  BY <1>1, <1>2, EndpointKeeps, HandshakeKeeps, ReadKeeps, DeniedKeeps, RepliedKeeps,
            FailsKeeps DEF Next, Idle

\* The endpoint starts with no sessions.
LEMMA InitKeeps ==
    ASSUME Init
    PROVE  IInv
<1>1. session \in [Conn -> SessionType] /\ \A c \in Conn : SessionInv(session[c])
  BY NewSessionFacts DEF Init
<1> QED  BY <1>1, HttpAssumption DEF Init, IInv, TypeOK, AcceptInv

-----------------------------------------------------------------------------
(* Base64Encode against the token of RFC 4648.  Only the last 12 bits of   *)
(* val are ever looked at, and an overflow leaves them alone.              *)

\* The byte at i; 0 where there is none.
ByteAt(in, i) == IF i \in 1..Len(in) THEN in[i] ELSE 0

\* The four characters of the group k: six bits each of three bytes.
First(in, k)  == ByteAt(in, 3 * k - 2) \div 4
Second(in, k) == (ByteAt(in, 3 * k - 2) % 4) * 16 + (ByteAt(in, 3 * k - 1) \div 16)
Third(in, k)  == (ByteAt(in, 3 * k - 1) % 16) * 4 + (ByteAt(in, 3 * k) \div 64)
Fourth(in, k) == ByteAt(in, 3 * k) % 64

\* The group k of the characters in out, the last one or two of them missing or not.
Group(out, in, k) ==
    /\ out[4 * k - 3] = First(in, k) /\ out[4 * k - 2] = Second(in, k)
    /\ out[4 * k - 1] = (IF 3 * k - 1 > Len(in) THEN 64 ELSE Third(in, k))
    /\ out[4 * k] = (IF 3 * k > Len(in) THEN 64 ELSE Fourth(in, k))

IsToken(out, in) ==
    /\ out \in Seq(Nat)
    /\ \E g \in Nat :
        /\ 3 * g \in Len(in)..(Len(in) + 2)
        /\ Len(out) = 4 * g
        /\ \A k \in 1..g : Group(out, in, k)

\* A byte is a byte.
LEMMA ByteTypes ==
    ASSUME NEW in \in Seq(Byte), NEW i \in Int
    PROVE  Len(in) \in Nat /\ ByteAt(in, i) \in Byte /\ ByteAt(in, i) \in 0..255
<1>1. Len(in) \in Nat /\ (i \in 1..Len(in) => in[i] \in Byte)
  BY LenProperties, ElementOfSeq
<1>2. 0 \in Byte
  BY DEF Byte
<1> QED  BY <1>1, <1>2 DEF ByteAt, Byte

\* The bits that IntMod cuts off are not among the last 12.
LEMMA LowBits ==
    ASSUME NEW x \in Nat
    PROVE  x % IntMod \in Nat /\ (x % IntMod) % 4096 = x % 4096
<1> DEFINE M == IntMod
           k == M \div 4096
           q == x \div M
           r == x % M
           p == k * q
<1>1. M \in Nat \ {0} /\ M % 65536 = 0
  BY HttpAssumption
<1> HIDE DEF M
<1>2. M = 4096 * k /\ k \in Nat
  BY <1>1
<1>3. q \in Nat /\ r \in Nat /\ x = M * q + r
  BY <1>1
<1> HIDE DEF k, q, r
<1>4. p \in Nat /\ M * q = 4096 * p
  BY <1>2, <1>3
<1> HIDE DEF p
<1>5. x = 4096 * p + r
  BY <1>3, <1>4
<1>6. x % 4096 = r % 4096
  BY <1>3, <1>4, <1>5
<1> QED  BY <1>3, <1>6 DEF r, M

\* The last 12 bits of val: four of the byte b, and the byte a.
EndsIn(v, b, a) ==
    v \in Nat /\ b \in 0..255 /\ a \in 0..255 /\ v % 4096 = 256 * (b % 16) + a

\* The last 12 bits of val after another byte.
LEMMA NextBits ==
    ASSUME NEW v, NEW b, NEW a, EndsIn(v, b, a), NEW c \in 0..255
    PROVE  EndsIn((v * 256 + c) % IntMod, a, c)
<1>0. v \in Nat /\ b \in 0..255 /\ a \in 0..255 /\ v % 4096 = 256 * (b % 16) + a
  BY DEF EndsIn
<1>1. v * 256 + c \in Nat
  BY <1>0
<1>2. (v * 256 + c) % 4096 = 256 * (a % 16) + c
  <2>1. v % 16 = a % 16
    BY <1>0
  <2> QED  BY <1>0, <2>1
<1> DEFINE w == v * 256 + c
           x == w % IntMod
<1>3. x \in Nat /\ x % 4096 = w % 4096
  <2> HIDE DEF w
  <2> QED  BY <1>1, LowBits DEF w
<1>4. x % 4096 = 256 * (a % 16) + c
  BY <1>2, <1>3
<1> HIDE DEF x
<1>5. EndsIn(x, a, c)
  BY <1>0, <1>3, <1>4 DEF EndsIn
<1> QED  BY <1>5 DEF x

\* What is pushed when 2, 4 or 6 bits are left over.
LEMMA PushedFacts ==
    ASSUME NEW v, NEW b, NEW c, EndsIn(v, b, c)
    PROVE  /\ Pushed(v, 2) = <<c \div 4>>
           /\ Pushed(v, 4) = <<(b % 4) * 16 + (c \div 16)>>
           /\ Pushed(v, 6) = <<(b % 16) * 4 + (c \div 64), c % 64>>
<1>0. v \in Nat /\ b \in 0..255 /\ c \in 0..255 /\ v % 4096 = 256 * (b % 16) + c
  BY DEF EndsIn
<1>1. 2^2 = 4 /\ 2^4 = 16 /\ 2^6 = 64 /\ 2^0 = 1
  OBVIOUS
<1>2. (v \div 4) % 64 = c \div 4
  BY <1>0
<1>3. (v \div 16) % 64 = (b % 4) * 16 + (c \div 16)
  <2> DEFINE h == v \div 4096
             d == b % 16
             e == c \div 16
             f == c % 16
  <2>1. /\ h \in Nat /\ v = 4096 * h + (256 * d + c) /\ d \in 0..15
        /\ e \in 0..15 /\ f \in 0..15 /\ c = 16 * e + f
    BY <1>0
  <2>2. d % 4 = b % 4
    BY <1>0
  <2> HIDE DEF h, d, e, f
  <2>3. v \div 16 = 256 * h + 16 * d + e
    BY <2>1
  <2>4. (256 * h + 16 * d + e) % 64 = (d % 4) * 16 + e
    BY <2>1
  <2> QED  BY <2>2, <2>3, <2>4 DEF e
<1>4. (v \div 64) % 64 = (b % 16) * 4 + (c \div 64)
  BY <1>0
<1>5. (v \div 1) % 64 = c % 64
  BY <1>0
<1>6. Pushed(v, 2) = <<(v \div 4) % 64>> /\ Pushed(v, 4) = <<(v \div 16) % 64>>
      /\ Pushed(v, 6) = <<(v \div 64) % 64, (v \div 1) % 64>>
  BY <1>1 DEF Pushed
<1> QED  BY <1>2, <1>3, <1>4, <1>5, <1>6

\* The state of the loop.
EncodeState == [val : Nat, valb : {-6, -4, -2}, out : Seq(Nat)]
EncodeStart == [val |-> 0, valb |-> -6, out |-> << >>]

\* A byte is encoded.
LEMMA EncodeByteType ==
    ASSUME NEW s \in EncodeState, NEW c \in Byte
    PROVE  EncodeByte(s, c) \in EncodeState
<1> DEFINE v == (s.val * 256 + c) % IntMod
           b == s.valb + 8
<1>1. s.val * 256 + c \in Nat
  <2>1. s.val \in Nat /\ c \in Nat
    BY DEF EncodeState, Byte
  <2> QED  BY <2>1
<1>2. v \in Nat
  BY <1>1, LowBits
<1>3. b \in {2, 4, 6}
  BY DEF EncodeState
<1> HIDE DEF v, b
<1>4. Pushed(v, b) \in Seq(Nat)
  <2>1. 2^2 = 4 /\ 2^4 = 16 /\ 2^6 = 64 /\ 2^0 = 1
    OBVIOUS
  <2>2. (v \div 4) % 64 \in Nat /\ (v \div 16) % 64 \in Nat /\ (v \div 64) % 64 \in Nat
        /\ (v \div 1) % 64 \in Nat
    BY <1>2
  <2>3. CASE b = 2
    BY <2>1, <2>2, <2>3 DEF Pushed
  <2>4. CASE b = 4
    BY <2>1, <2>2, <2>4 DEF Pushed
  <2>5. CASE b = 6
    BY <2>1, <2>2, <2>5 DEF Pushed
  <2> QED  BY <1>3, <2>3, <2>4, <2>5
<1>5. s.out \o Pushed(v, b) \in Seq(Nat)
  BY <1>4, ConcatProperties DEF EncodeState
<1>6. EncodeByte(s, c) = [val |-> v, valb |-> IF b < 6 THEN b - 6 ELSE b - 12,
                          out |-> s.out \o Pushed(v, b)]
  BY DEF EncodeByte, v, b
<1> QED  BY <1>2, <1>3, <1>5, <1>6 DEF EncodeState

\* The loop goes from byte to byte.
Encodes(f, in) ==
    /\ f \in [0..Len(in) -> EncodeState] /\ f[0] = EncodeStart
    /\ \A i \in 1..Len(in) : f[i] = EncodeByte(f[i - 1], in[i])
    /\ Encoded(in) = f[Len(in)]

LEMMA EncodeRuns ==
    ASSUME NEW in \in Seq(Byte)
    PROVE  \E f : Encodes(f, in)
<1> DEFINE N == Len(in)
           Def(f) == [i \in 0..N |-> IF i = 0 THEN [val |-> 0, valb |-> -6, out |-> << >>]
                                     ELSE EncodeByte(f[i - 1], in[i])]
           at == CHOOSE f : f = Def(f)
           T == EncodeState
           base == EncodeStart
           g == [x \in (1..N) \X T |-> EncodeByte(x[2], in[x[1]])]
<1>1. N \in Nat /\ \A i \in 1..N : in[i] \in Byte
  BY LenProperties, ElementOfSeq
<1>2. base \in T /\ base = [val |-> 0, valb |-> -6, out |-> << >>]
  BY DEF EncodeState, EncodeStart
<1>3. IsStep(g, N, T)
  BY <1>1, EncodeByteType DEF IsStep
<1>4. PICK f : Steps(f, N, T, base, g)
  <2> HIDE DEF g, N, T, base
  <2> QED  BY <1>1, <1>2, <1>3, CountingUp
<1>5. \A i \in 1..N : f[i] = EncodeByte(f[i - 1], in[i])
  <2> TAKE i \in 1..N
  <2>1. i - 1 \in 0..N
    BY <1>1
  <2>2. f[i - 1] \in T
    BY <1>4, <2>1 DEF Steps
  <2>3. g[<<i, f[i - 1]>>] = EncodeByte(f[i - 1], in[i])
    BY <2>2
  <2> QED  BY <1>4, <2>3 DEF Steps
<1>6. f = Def(f)
  <2> HIDE DEF T, base, g
  <2> QED  BY <1>1, <1>2, <1>4, <1>5 DEF Steps
<1>7. at = Def(at)
  <2> HIDE DEF Def
  <2> QED  BY <1>6
<1>8. Encoded(in) = at[N]
  BY DEF Encoded
<1> HIDE DEF at, g
<1>9. \A i \in 0..N : at[i] = IF i = 0 THEN base ELSE EncodeByte(at[i - 1], in[i])
  BY <1>2, <1>7
<1>10. 0..N \subseteq {i \in 0..N : at[i] \in T}
  <2> DEFINE U == {i \in 0..N : at[i] \in T}
  <2>1. 0 \in U
    BY <1>1, <1>2, <1>9
  <2>2. ASSUME NEW i \in 1..N, i - 1 \in U PROVE i \in U
    <3>1. i \in 0..N /\ i # 0 /\ at[i - 1] \in EncodeState /\ in[i] \in Byte
      BY <1>1, <2>2
    <3>2. EncodeByte(at[i - 1], in[i]) \in T
      BY <3>1, EncodeByteType
    <3> QED  BY <1>9, <3>1, <3>2
  <2>3. 0..N \subseteq U
    <3> HIDE DEF U, N
    <3> QED  BY <1>1, <2>1, <2>2, BoundedInduction
  <2> QED  BY <2>3
<1>11. at \in [0..N -> T]
  <2> HIDE DEF T, base, N
  <2> QED  BY <1>7, <1>10
<1>12. at[0] = base /\ \A i \in 1..N : at[i] = EncodeByte(at[i - 1], in[i])
  BY <1>1, <1>9
<1> QED  BY <1>8, <1>11, <1>12 DEF Encodes

\* What the state has encoded of `in' when i bytes are read, g groups and r more bytes.
EncodedUpTo(s, in, i, g, r) ==
    /\ s \in EncodeState /\ i \in 0..Len(in)
    /\ g \in Nat /\ r \in 0..2 /\ i = 3 * g + r
    /\ s.valb = 2 * r - 6 /\ Len(s.out) = 4 * g + r
    /\ s.val % 4096 = 256 * (ByteAt(in, i - 1) % 16) + ByteAt(in, i)
    /\ \A k \in 1..g : Group(s.out, in, k)
    /\ r >= 1 => s.out[4 * g + 1] = First(in, g + 1)
    /\ r = 2 => s.out[4 * g + 2] = Second(in, g + 1)

\* A group that is there stays there.
LEMMA GroupsKept ==
    ASSUME NEW out \in Seq(Nat), NEW more \in Seq(Nat), NEW in, NEW g \in Nat,
           4 * g <= Len(out), \A k \in 1..g : Group(out, in, k)
    PROVE  \A k \in 1..g : Group(out \o more, in, k)
<1>1. Len(out) \in Nat /\ \A i \in 1..Len(out) : (out \o more)[i] = out[i]
  BY ConcatProperties, LenProperties
<1> TAKE k \in 1..g
<1>2. /\ 4 * k - 3 \in 1..Len(out) /\ 4 * k - 2 \in 1..Len(out)
      /\ 4 * k - 1 \in 1..Len(out) /\ 4 * k \in 1..Len(out)
  BY <1>1
<1>3. Group(out, in, k)
  OBVIOUS
<1> QED  BY <1>1, <1>2, <1>3 DEF Group

\* The characters that a byte c after a byte a adds, r bytes of the group being there.
Chars(r, a, c) ==
    CASE r = 0 -> <<c \div 4>>
      [] r = 1 -> <<(a % 4) * 16 + (c \div 16)>>
      [] r = 2 -> <<(a % 16) * 4 + (c \div 64), c % 64>>

\* One more byte: what becomes of the state.
Pushes(t, s, r, a, c) ==
    /\ t \in EncodeState
    /\ t.val % 4096 = 256 * (a % 16) + c
    /\ (r = 2 => t.valb = 2 * 0 - 6) /\ (r # 2 => t.valb = 2 * (r + 1) - 6)
    /\ t.out = s.out \o Chars(r, a, c)

LEMMA EncodeByteFacts ==
    ASSUME NEW in \in Seq(Byte), NEW i \in 1..Len(in), NEW s, NEW g, NEW r,
           EncodedUpTo(s, in, i - 1, g, r)
    PROVE  Pushes(EncodeByte(s, in[i]), s, r, ByteAt(in, i - 1), ByteAt(in, i))
<1> DEFINE t == EncodeByte(s, in[i])
           a == ByteAt(in, i - 1)
           b == ByteAt(in, i - 2)
           c == ByteAt(in, i)
           v == (s.val * 256 + in[i]) % IntMod
<1>1. Len(in) \in Nat /\ in[i] \in Byte
  BY ElementOfSeq, LenProperties
<1>2. i - 1 \in Int /\ i - 2 \in Int /\ i \in Int /\ (i - 1) - 1 = i - 2
  BY <1>1
<1>3. c = in[i]
  BY <1>1 DEF ByteAt
<1>4. a \in 0..255 /\ b \in 0..255 /\ c \in 0..255
  <2>1. \A j \in Int : ByteAt(in, j) \in 0..255
    BY ByteTypes
  <2> QED  BY <1>2, <2>1
<1>5. /\ s \in EncodeState /\ r \in 0..2 /\ s.valb = 2 * r - 6
      /\ s.val % 4096 = 256 * (b % 16) + a
  <2>1. s.val % 4096 = 256 * (ByteAt(in, (i - 1) - 1) % 16) + a
    BY DEF EncodedUpTo
  <2>2. (i - 1) - 1 = i - 2
    BY <1>2
  <2>3. s.val % 4096 = 256 * (b % 16) + a
    BY <2>1, <2>2
  <2> QED  BY <2>3 DEF EncodedUpTo
<1>6. s.val \in Nat
  BY <1>5 DEF EncodeState
<1>7. t = [val |-> v, valb |-> IF s.valb + 8 < 6 THEN (s.valb + 8) - 6 ELSE (s.valb + 8) - 12,
           out |-> s.out \o Pushed(v, s.valb + 8)]
  BY DEF EncodeByte
<1>8. t \in EncodeState
  BY <1>1, <1>5, EncodeByteType
<1>9. v = (s.val * 256 + c) % IntMod
  BY <1>3
<1> HIDE DEF a, b, c, v, t
<1>10. EndsIn(v, a, c)
  <2>1. EndsIn(s.val, b, a)
    BY <1>4, <1>5, <1>6 DEF EndsIn
  <2>2. EndsIn((s.val * 256 + c) % IntMod, a, c)
    BY <1>4, <2>1, NextBits
  <2> QED  BY <1>9, <2>2
<1>11. /\ Pushed(v, 2) = <<c \div 4>>
       /\ Pushed(v, 4) = <<(a % 4) * 16 + (c \div 16)>>
       /\ Pushed(v, 6) = <<(a % 16) * 4 + (c \div 64), c % 64>>
  BY <1>10, PushedFacts
<1>12. t.val = v /\ t.out = s.out \o Pushed(v, s.valb + 8)
  BY <1>7
<1>13. t.valb = IF s.valb + 8 < 6 THEN (s.valb + 8) - 6 ELSE (s.valb + 8) - 12
  BY <1>7
<1>14. (r = 2 => t.valb = 2 * 0 - 6) /\ (r # 2 => t.valb = 2 * (r + 1) - 6)
  BY <1>5, <1>13
<1>15. (r = 0 => s.valb + 8 = 2) /\ (r = 1 => s.valb + 8 = 4) /\ (r = 2 => s.valb + 8 = 6)
  BY <1>5
<1>16. t.out = s.out \o Chars(r, a, c)
  <2>1. Pushed(v, s.valb + 8) = Chars(r, a, c)
    BY <1>5, <1>11, <1>15 DEF Chars
  <2> QED  BY <1>12, <2>1
<1>17. t.val % 4096 = 256 * (a % 16) + c
  BY <1>10, <1>12 DEF EndsIn
<1>18. Pushes(t, s, r, a, c)
  BY <1>8, <1>14, <1>16, <1>17 DEF Pushes
<1> QED  BY <1>18 DEF t, a, c

\* What they are, and what stands behind a sequence then.
LEMMA CharsTypes ==
    ASSUME NEW a \in 0..255, NEW c \in 0..255, NEW r \in 0..2
    PROVE  /\ Chars(r, a, c) \in Seq(Nat) /\ Len(Chars(r, a, c)) = (IF r = 2 THEN 2 ELSE 1)
           /\ r = 0 => Chars(r, a, c)[1] = c \div 4
           /\ r = 1 => Chars(r, a, c)[1] = (a % 4) * 16 + (c \div 16)
           /\ r = 2 => Chars(r, a, c)[1] = (a % 16) * 4 + (c \div 64) /\ Chars(r, a, c)[2] = c % 64
<1> DEFINE x0 == c \div 4
           x1 == (a % 4) * 16 + (c \div 16)
           x2 == (a % 16) * 4 + (c \div 64)
           y2 == c % 64
<1>1. x0 \in Nat /\ x1 \in Nat /\ x2 \in Nat /\ y2 \in Nat
  OBVIOUS
<1>2. /\ r = 0 => Chars(r, a, c) = <<x0>>
      /\ r = 1 => Chars(r, a, c) = <<x1>>
      /\ r = 2 => Chars(r, a, c) = <<x2, y2>>
  BY DEF Chars
<1> DEFINE m == Chars(r, a, c)
<1>6. \A x \in Nat : <<x>> \in Seq(Nat) /\ Len(<<x>>) = 1 /\ <<x>>[1] = x
  OBVIOUS
<1>7. \A x, y \in Nat :
        <<x, y>> \in Seq(Nat) /\ Len(<<x, y>>) = 2 /\ <<x, y>>[1] = x /\ <<x, y>>[2] = y
  OBVIOUS
<1> HIDE DEF x0, x1, x2, y2, m
<1>3. CASE r = 0
  <2>1. m = <<x0>>
    BY <1>2, <1>3 DEF m
  <2>2. m \in Seq(Nat) /\ Len(m) = 1 /\ m[1] = x0
    BY <1>1, <1>6, <2>1
  <2> QED  BY <1>3, <2>2 DEF m, x0
<1>4. CASE r = 1
  <2>1. m = <<x1>>
    BY <1>2, <1>4 DEF m
  <2>2. m \in Seq(Nat) /\ Len(m) = 1 /\ m[1] = x1
    BY <1>1, <1>6, <2>1
  <2> QED  BY <1>4, <2>2 DEF m, x1
<1>5. CASE r = 2
  <2>1. m = <<x2, y2>>
    BY <1>2, <1>5 DEF m
  <2>2. m \in Seq(Nat) /\ Len(m) = 2 /\ m[1] = x2 /\ m[2] = y2
    BY <1>1, <1>7, <2>1
  <2> QED  BY <1>5, <2>2 DEF m, x2, y2
<1> QED  BY <1>3, <1>4, <1>5

LEMMA Behind ==
    ASSUME NEW out \in Seq(Nat), NEW more \in Seq(Nat)
    PROVE  /\ out \o more \in Seq(Nat) /\ Len(out \o more) = Len(out) + Len(more)
           /\ \A j \in 1..Len(more) : (out \o more)[Len(out) + j] = more[j]
           /\ \A j \in 1..Len(out) : (out \o more)[j] = out[j]
<1>1. Len(out) \in Nat /\ Len(more) \in Nat
  BY LenProperties
<1> QED  BY <1>1, ConcatProperties

\* The loop has encoded the bytes that it has read.
LEMMA EncodeByteGoesOn ==
    ASSUME NEW in \in Seq(Byte), NEW i \in 1..Len(in), NEW s, NEW g, NEW r,
           EncodedUpTo(s, in, i - 1, g, r)
    PROVE  \E h, q : EncodedUpTo(EncodeByte(s, in[i]), in, i, h, q)
<1> DEFINE t == EncodeByte(s, in[i])
           a == ByteAt(in, i - 1)
           c == ByteAt(in, i)
           n == Len(in)
<1>1. /\ s \in EncodeState /\ g \in Nat /\ r \in 0..2 /\ i - 1 = 3 * g + r
      /\ Len(s.out) = 4 * g + r
      /\ \A k \in 1..g : Group(s.out, in, k)
      /\ r >= 1 => s.out[4 * g + 1] = First(in, g + 1)
      /\ r = 2 => s.out[4 * g + 2] = Second(in, g + 1)
  BY DEF EncodedUpTo
<1>2. n \in Nat /\ s.out \in Seq(Nat)
  BY <1>1, LenProperties DEF EncodeState
<1>3. i \in Int /\ i - 1 \in Int /\ i \in 0..n
  BY <1>2
<1>4. a \in 0..255 /\ c \in 0..255
  <2>1. \A j \in Int : ByteAt(in, j) \in 0..255
    BY ByteTypes
  <2> QED  BY <1>3, <2>1
<1>5. Pushes(t, s, r, a, c)
  BY EncodeByteFacts
<1>6. i = 3 * g + r + 1 /\ i \in Nat /\ i <= n
  BY <1>1, <1>2, <1>3
<1>7. \A k : (3 * k - 2 = i => First(in, k) = c \div 4)
  BY DEF First
<1>8. \A k : (3 * k - 2 = i - 1 /\ 3 * k - 1 = i => Second(in, k) = (a % 4) * 16 + (c \div 16))
  BY DEF Second
<1>9. \A k : (3 * k - 1 = i - 1 /\ 3 * k = i
                => Third(in, k) = (a % 16) * 4 + (c \div 64) /\ Fourth(in, k) = c % 64)
  BY DEF Third, Fourth
<1>10. t.val % 4096 = 256 * (ByteAt(in, i - 1) % 16) + ByteAt(in, i)
  BY <1>5 DEF Pushes
<1> HIDE DEF t, a, c, n
<1> DEFINE more == Chars(r, a, c)
<1>11. /\ more \in Seq(Nat) /\ Len(more) = (IF r = 2 THEN 2 ELSE 1)
       /\ r = 0 => more[1] = c \div 4
       /\ r = 1 => more[1] = (a % 4) * 16 + (c \div 16)
       /\ r = 2 => more[1] = (a % 16) * 4 + (c \div 64) /\ more[2] = c % 64
  BY <1>1, <1>4, CharsTypes
<1>16. t.out = s.out \o more /\ t.valb = 2 * (IF r = 2 THEN 0 ELSE r + 1) - 6
  <2>1. t.out = s.out \o more
    BY <1>5 DEF Pushes
  <2>2. (r = 2 => t.valb = 2 * 0 - 6) /\ (r # 2 => t.valb = 2 * (r + 1) - 6)
    BY <1>5 DEF Pushes
  <2> QED  BY <2>1, <2>2
<1> HIDE DEF more
<1>17. /\ Len(t.out) = Len(s.out) + Len(more)
       /\ \A j \in 1..Len(more) : t.out[Len(s.out) + j] = more[j]
       /\ \A j \in 1..Len(s.out) : t.out[j] = s.out[j]
  <2>1. s.out \in Seq(Nat) /\ more \in Seq(Nat) /\ t.out = s.out \o more
    BY <1>2, <1>11, <1>16
  <2> DEFINE o == s.out
  <2> HIDE DEF o
  <2>2. /\ Len(o \o more) = Len(o) + Len(more)
        /\ \A j \in 1..Len(more) : (o \o more)[Len(o) + j] = more[j]
        /\ \A j \in 1..Len(o) : (o \o more)[j] = o[j]
    <3>1. o \in Seq(Nat) /\ more \in Seq(Nat)
      BY <2>1 DEF o
    <3> QED  BY <3>1, Behind
  <2> QED  BY <2>1, <2>2 DEF o
<1>18. \A k \in 1..g : Group(t.out, in, k)
  <2>1. 4 * g <= Len(s.out)
    BY <1>1
  <2>2. \A k \in 1..g : Group(s.out \o more, in, k)
    BY <1>1, <1>2, <1>11, <2>1, GroupsKept
  <2> QED  BY <1>16, <2>2
<1>12. t \in EncodeState
  BY <1>5 DEF Pushes
<1>13. CASE r = 0
  <2>1. t.valb = 2 * 1 - 6 /\ Len(more) = 1 /\ 1 \in 1..Len(more) /\ more[1] = c \div 4
    BY <1>11, <1>13, <1>16
  <2>2. First(in, g + 1) = c \div 4
    <3>1. 3 * (g + 1) - 2 = i
      BY <1>1, <1>6, <1>13
    <3> QED  BY <1>7, <3>1
  <2>3. Len(s.out) = 4 * g /\ i = 3 * g + 1 /\ i \in 0..Len(in)
    BY <1>1, <1>3, <1>6, <1>13 DEF n
  <2>4. Len(t.out) = 4 * g + 1 /\ t.out[4 * g + 1] = First(in, g + 1)
    BY <1>17, <2>1, <2>2, <2>3
  <2>5. EncodedUpTo(t, in, i, g, 1)
    BY <1>1, <1>10, <1>12, <1>18, <2>1, <2>3, <2>4 DEF EncodedUpTo
  <2> QED  BY <2>5 DEF t
<1>14. CASE r = 1
  <2>1. /\ t.valb = 2 * 2 - 6 /\ Len(more) = 1 /\ 1 \in 1..Len(more)
        /\ more[1] = (a % 4) * 16 + (c \div 16)
    BY <1>11, <1>14, <1>16
  <2>2. Second(in, g + 1) = (a % 4) * 16 + (c \div 16)
    <3>1. 3 * (g + 1) - 2 = i - 1 /\ 3 * (g + 1) - 1 = i
      BY <1>1, <1>6, <1>14
    <3> QED  BY <1>8, <3>1
  <2>3. /\ Len(s.out) = 4 * g + 1 /\ 4 * g + 1 \in 1..Len(s.out) /\ (4 * g + 1) + 1 = 4 * g + 2
        /\ i = 3 * g + 2 /\ i \in 0..Len(in)
    BY <1>1, <1>3, <1>6, <1>14 DEF n
  <2>4. Len(t.out) = 4 * g + 2 /\ t.out[4 * g + 2] = Second(in, g + 1)
    <3>1. t.out[Len(s.out) + 1] = more[1] /\ Len(t.out) = Len(s.out) + 1
      BY <1>17, <2>1
    <3> QED  BY <2>1, <2>2, <2>3, <3>1
  <2>5. t.out[4 * g + 1] = First(in, g + 1)
    BY <1>1, <1>14, <1>17, <2>3
  <2>6. EncodedUpTo(t, in, i, g, 2)
    BY <1>1, <1>10, <1>12, <1>18, <2>1, <2>3, <2>4, <2>5 DEF EncodedUpTo
  <2> QED  BY <2>6 DEF t
<1>15. CASE r = 2
  <2>1. /\ t.valb = 2 * 0 - 6 /\ Len(more) = 2 /\ 1 \in 1..Len(more) /\ 2 \in 1..Len(more)
        /\ more[1] = (a % 16) * 4 + (c \div 64) /\ more[2] = c % 64
    BY <1>11, <1>15, <1>16
  <2>2. Third(in, g + 1) = (a % 16) * 4 + (c \div 64) /\ Fourth(in, g + 1) = c % 64
    <3>1. 3 * (g + 1) - 1 = i - 1 /\ 3 * (g + 1) = i
      BY <1>1, <1>6, <1>15
    <3> QED  BY <1>9, <3>1
  <2>3. /\ Len(s.out) = 4 * g + 2 /\ 4 * g + 1 \in 1..Len(s.out) /\ 4 * g + 2 \in 1..Len(s.out)
        /\ (4 * g + 2) + 1 = 4 * g + 3 /\ (4 * g + 2) + 2 = 4 * g + 4
        /\ 4 * g + 4 = 4 * (g + 1) + 0
    BY <1>1, <1>15
  <2>4. i = 3 * (g + 1) + 0 /\ i \in 0..Len(in) /\ g + 1 \in Nat
    <3>1. g \in Nat /\ i = 3 * g + 2 + 1
      BY <1>1, <1>6, <1>15
    <3> QED  BY <1>3, <3>1 DEF n
  <2>5. /\ t.out[4 * g + 3] = Third(in, g + 1) /\ t.out[4 * g + 4] = Fourth(in, g + 1)
        /\ Len(t.out) = 4 * (g + 1) + 0
    <3>1. t.out[Len(s.out) + 1] = more[1] /\ t.out[Len(s.out) + 2] = more[2]
          /\ Len(t.out) = Len(s.out) + 2
      BY <1>17, <2>1
    <3> QED  BY <2>1, <2>2, <2>3, <3>1
  <2>6. t.out[4 * g + 1] = First(in, g + 1) /\ t.out[4 * g + 2] = Second(in, g + 1)
    BY <1>1, <1>15, <1>17, <2>3
  <2>7. Group(t.out, in, g + 1)
    <3>1. /\ 4 * (g + 1) - 3 = 4 * g + 1 /\ 4 * (g + 1) - 2 = 4 * g + 2
          /\ 4 * (g + 1) - 1 = 4 * g + 3 /\ 4 * (g + 1) = 4 * g + 4
      BY <1>1
    <3>2. ~(3 * (g + 1) - 1 > Len(in)) /\ ~(3 * (g + 1) > Len(in))
      BY <1>1, <1>2, <1>6, <1>15 DEF n
    <3> QED  BY <2>5, <2>6, <3>1, <3>2 DEF Group
  <2>8. \A k \in 1..(g + 1) : Group(t.out, in, k)
    <3>1. \A k \in 1..(g + 1) : k \in 1..g \/ k = g + 1
      BY <1>1
    <3> QED  BY <1>18, <2>7, <3>1
  <2>9. EncodedUpTo(t, in, i, g + 1, 0)
    BY <1>10, <1>12, <2>1, <2>4, <2>5, <2>8 DEF EncodedUpTo
  <2> QED  BY <2>9 DEF t
<1> QED  BY <1>1, <1>13, <1>14, <1>15

\* At the end of the loop all bytes are encoded.
LEMMA EncodedAll ==
    ASSUME NEW in \in Seq(Byte)
    PROVE  \E g, r : EncodedUpTo(Encoded(in), in, Len(in), g, r)
<1> DEFINE N == Len(in)
<1>1. PICK f : Encodes(f, in)
  BY EncodeRuns
<1>2. N \in Nat
  BY LenProperties
<1> DEFINE T == {i \in 0..N : \E g, r : EncodedUpTo(f[i], in, i, g, r)}
<1>3. 0 \in T
  <2>1. f[0] = EncodeStart /\ EncodeStart \in EncodeState
    BY <1>1 DEF Encodes, EncodeStart, EncodeState
  <2>2. ByteAt(in, 0) = 0 /\ ByteAt(in, 0 - 1) = 0
    BY <1>2 DEF ByteAt
  <2>3. EncodedUpTo(f[0], in, 0, 0, 0)
    BY <1>2, <2>1, <2>2 DEF EncodedUpTo, EncodeStart
  <2> QED  BY <1>2, <2>3
<1>4. ASSUME NEW i \in 1..N, i - 1 \in T PROVE i \in T
  <2>1. PICK g, r : EncodedUpTo(f[i - 1], in, i - 1, g, r)
    BY <1>4
  <2>2. f[i] = EncodeByte(f[i - 1], in[i])
    BY <1>1 DEF Encodes
  <2>3. \E h, q : EncodedUpTo(f[i], in, i, h, q)
    BY <2>1, <2>2, EncodeByteGoesOn
  <2> QED  BY <1>2, <2>3
<1>5. 0..N \subseteq T
  <2> HIDE DEF T, N
  <2> QED  BY <1>2, <1>3, <1>4, BoundedInduction
<1>6. N \in T
  BY <1>2, <1>5
<1> QED  BY <1>1, <1>6 DEF Encodes

\* The padding.
Pad(n) == [i \in 1..n |-> 64]

LEMMA PadFacts ==
    ASSUME NEW n \in Nat
    PROVE  Pad(n) \in Seq(Nat) /\ Len(Pad(n)) = n /\ \A j \in 1..n : Pad(n)[j] = 64
  BY DEF Pad

Padded(out) == out \o Pad((4 - (Len(out) % 4)) % 4)

\* What the function returns, the bits that are left over being shifted up.
LastChar(s) == (((s.val * 256) % IntMod) \div 2^(s.valb + 8)) % 64

LEMMA EncodePieces ==
    ASSUME NEW in, NEW s, s = Encoded(in)
    PROVE  /\ s.valb = -6 => Base64Encode(in) = Padded(s.out \o << >>)
           /\ s.valb > -6 => Base64Encode(in) = Padded(s.out \o <<LastChar(s)>>)
<1> DEFINE rest == IF s.valb > -6 THEN <<LastChar(s)>> ELSE << >>
<1>1. Base64Encode(in) = Padded(s.out \o rest)
  BY DEF Base64Encode, Pad, Padded, LastChar
<1>2. s.valb = -6 => rest = << >>
  OBVIOUS
<1>3. s.valb > -6 => rest = <<LastChar(s)>>
  OBVIOUS
<1> HIDE DEF rest
<1> QED  BY <1>1, <1>2, <1>3

\* The bits that are left over.
LEMMA LeftOver ==
    ASSUME NEW v, NEW b, NEW a, EndsIn(v, b, a)
    PROVE  /\ (((v * 256) % IntMod) \div 2^4) % 64 = (a % 4) * 16
           /\ (((v * 256) % IntMod) \div 2^6) % 64 = (a % 16) * 4
<1> DEFINE w == (v * 256) % IntMod
<1>1. v \in Nat /\ a \in 0..255 /\ 0 \in 0..255
  BY DEF EndsIn
<1>2. v * 256 + 0 = v * 256
  BY <1>1
<1>3. EndsIn((v * 256 + 0) % IntMod, a, 0)
  BY <1>1, NextBits
<1>4. EndsIn(w, a, 0)
  BY <1>2, <1>3
<1> HIDE DEF w
<1>5. /\ Pushed(w, 4) = <<(a % 4) * 16 + (0 \div 16)>>
      /\ Pushed(w, 6) = <<(a % 16) * 4 + (0 \div 64), 0 % 64>>
  BY <1>4, PushedFacts
<1>6. Pushed(w, 4)[1] = (w \div 2^4) % 64 /\ Pushed(w, 6)[1] = (w \div 2^6) % 64
  BY DEF Pushed
<1>7. (a % 4) * 16 + (0 \div 16) = (a % 4) * 16 /\ (a % 16) * 4 + (0 \div 64) = (a % 16) * 4
  BY <1>1
<1> DEFINE y == (a % 4) * 16 + (0 \div 16)
           z == (a % 16) * 4 + (0 \div 64)
<1>8. Pushed(w, 4)[1] = y /\ Pushed(w, 6)[1] = z
  <2>1. Pushed(w, 4) = <<y>> /\ Pushed(w, 6) = <<z, 0 % 64>>
    BY <1>5
  <2> HIDE DEF y, z
  <2> QED  BY <2>1
<1> QED  BY <1>6, <1>7, <1>8 DEF w

\* A token of g + 1 groups, the last one of r bytes.
LEMMA PaddedToken ==
    ASSUME NEW in \in Seq(Byte), NEW out \in Seq(Nat), NEW g \in Nat, NEW r \in 1..2,
           Len(in) = 3 * g + r, Len(out) = 4 * g + r, \A k \in 1..g : Group(out, in, k),
           out[4 * g + 1] = First(in, g + 1), r = 2 => out[4 * g + 2] = Second(in, g + 1),
           NEW x \in Nat, r = 1 => x = Second(in, g + 1), r = 2 => x = Third(in, g + 1)
    PROVE  IsToken(Padded(out \o <<x>>), in)
<1> DEFINE one == <<x>>
           o1 == out \o one
           pad == Pad((4 - (Len(o1) % 4)) % 4)
           o2 == o1 \o pad
<1>1. one \in Seq(Nat) /\ Len(one) = 1 /\ one[1] = x
  OBVIOUS
<1> HIDE DEF one
<1>2. /\ o1 \in Seq(Nat) /\ Len(o1) = Len(out) + Len(one)
      /\ \A j \in 1..Len(one) : o1[Len(out) + j] = one[j]
      /\ \A j \in 1..Len(out) : o1[j] = out[j]
  BY <1>1, Behind
<1> HIDE DEF o1
<1>3. Len(o1) = 4 * g + r + 1
  BY <1>1, <1>2
<1>4. (4 - (Len(o1) % 4)) % 4 = 3 - r
  <2>1. CASE r = 1
    <3>1. Len(o1) = 4 * g + 2
      BY <1>3, <2>1
    <3>2. (4 * g + 2) % 4 = 2
      OBVIOUS
    <3> QED  BY <2>1, <3>1, <3>2
  <2>2. CASE r = 2
    <3>1. Len(o1) = 4 * g + 3
      BY <1>3, <2>2
    <3>2. (4 * g + 3) % 4 = 3
      OBVIOUS
    <3> QED  BY <2>2, <3>1, <3>2
  <2> QED  BY <2>1, <2>2
<1>5. pad \in Seq(Nat) /\ Len(pad) = 3 - r /\ \A j \in 1..(3 - r) : pad[j] = 64
  <2>1. 3 - r \in Nat /\ pad = Pad(3 - r)
    BY <1>4
  <2> HIDE DEF pad
  <2> QED  BY <2>1, PadFacts
<1> HIDE DEF pad
<1>6. /\ o2 \in Seq(Nat) /\ Len(o2) = Len(o1) + Len(pad)
      /\ \A j \in 1..Len(pad) : o2[Len(o1) + j] = pad[j]
      /\ \A j \in 1..Len(o1) : o2[j] = o1[j]
  BY <1>2, <1>5, Behind
<1> HIDE DEF o2
<1>7. \A k \in 1..g : Group(o2, in, k)
  <2>1. 4 * g <= Len(out) /\ 4 * g <= Len(o1)
    BY <1>3
  <2>2. \A k \in 1..g : Group(o1, in, k)
    <3>1. \A k \in 1..g : Group(out \o one, in, k)
      BY <1>1, <2>1, GroupsKept
    <3> QED  BY <3>1 DEF o1
  <2>3. \A k \in 1..g : Group(o1 \o pad, in, k)
    BY <1>2, <1>5, <2>1, <2>2, GroupsKept
  <2> QED  BY <2>3 DEF o2
<1>8. /\ 4 * (g + 1) - 3 = 4 * g + 1 /\ 4 * (g + 1) - 2 = 4 * g + 2
      /\ 4 * (g + 1) - 1 = 4 * g + 3 /\ 4 * (g + 1) = 4 * g + 4
  OBVIOUS
<1>9. o2[4 * g + 1] = First(in, g + 1)
  <2>1. 4 * g + 1 \in 1..Len(out) /\ 4 * g + 1 \in 1..Len(o1)
    BY <1>3
  <2> QED  BY <1>2, <1>6, <2>1
<1>10. o1[4 * g + r + 1] = x
  <2>1. 1 \in 1..Len(one) /\ Len(out) + 1 = 4 * g + r + 1
    BY <1>1
  <2> QED  BY <1>1, <1>2, <2>1
<1>11. o2[4 * g + 4] = 64
  <2>1. 3 - r \in 1..Len(pad) /\ Len(o1) + (3 - r) = 4 * g + 4
    BY <1>3, <1>5
  <2>2. o2[Len(o1) + (3 - r)] = pad[3 - r] /\ pad[3 - r] = 64
    BY <1>5, <1>6, <2>1
  <2> QED  BY <2>1, <2>2
<1>12. ~(3 * (g + 1) <= Len(in)) /\ 3 * (g + 1) > Len(in)
  OBVIOUS
<1>13. Group(o2, in, g + 1)
  <2>1. CASE r = 1
    <3>1. 4 * g + 2 \in 1..Len(o1) /\ 4 * g + r + 1 = 4 * g + 2
      BY <1>3, <2>1
    <3>2. o2[4 * g + 2] = Second(in, g + 1)
      BY <1>6, <1>10, <2>1, <3>1
    <3>3. 1 \in 1..Len(pad) /\ Len(o1) + 1 = 4 * g + 3
      BY <1>3, <1>5, <2>1
    <3>4. o2[4 * g + 3] = 64
      <4>1. o2[Len(o1) + 1] = pad[1] /\ pad[1] = 64
        BY <1>5, <1>6, <2>1, <3>3
      <4> QED  BY <3>3, <4>1
    <3>5. 3 * (g + 1) - 1 > Len(in)
      BY <2>1
    <3> QED  BY <1>8, <1>9, <1>11, <1>12, <3>2, <3>4, <3>5 DEF Group
  <2>2. CASE r = 2
    <3>1. /\ 4 * g + 2 \in 1..Len(out) /\ 4 * g + 2 \in 1..Len(o1) /\ 4 * g + 3 \in 1..Len(o1)
          /\ 4 * g + r + 1 = 4 * g + 3
      BY <1>3, <2>2
    <3>2. o2[4 * g + 2] = Second(in, g + 1)
      BY <1>2, <1>6, <2>2, <3>1
    <3>3. o2[4 * g + 3] = Third(in, g + 1)
      BY <1>6, <1>10, <2>2, <3>1
    <3>4. ~(3 * (g + 1) - 1 > Len(in))
      BY <2>2
    <3> QED  BY <1>8, <1>9, <1>11, <1>12, <3>2, <3>3, <3>4 DEF Group
  <2> QED  BY <2>1, <2>2
<1>14. \A k \in 1..(g + 1) : Group(o2, in, k)
  <2>1. \A k \in 1..(g + 1) : k \in 1..g \/ k = g + 1
    OBVIOUS
  <2> QED  BY <1>7, <1>13, <2>1
<1>15. g + 1 \in Nat /\ 3 * (g + 1) \in Len(in)..(Len(in) + 2) /\ Len(o2) = 4 * (g + 1)
  BY <1>3, <1>5, <1>6
<1>16. IsToken(o2, in)
  BY <1>6, <1>14, <1>15 DEF IsToken
<1> QED  BY <1>16 DEF Padded, o2, pad, o1, one

\* Base64Encode: what Authenticate makes of a user is the token.
LEMMA EncodeIsToken ==
    ASSUME NEW in \in Seq(Byte)
    PROVE  IsToken(Base64Encode(in), in)
<1> DEFINE s == Encoded(in)
           N == Len(in)
           a == ByteAt(in, N)
           b == ByteAt(in, N - 1)
<1>1. PICK g, r : EncodedUpTo(s, in, N, g, r)
  BY EncodedAll
<1>2. /\ s \in EncodeState /\ g \in Nat /\ r \in 0..2 /\ N = 3 * g + r
      /\ s.valb = 2 * r - 6 /\ Len(s.out) = 4 * g + r
      /\ s.val % 4096 = 256 * (b % 16) + a
      /\ \A k \in 1..g : Group(s.out, in, k)
      /\ r >= 1 => s.out[4 * g + 1] = First(in, g + 1)
      /\ r = 2 => s.out[4 * g + 2] = Second(in, g + 1)
  BY <1>1 DEF EncodedUpTo
<1>3. N \in Nat /\ N - 1 \in Int /\ s.out \in Seq(Nat) /\ s.val \in Nat
  BY <1>2, LenProperties DEF EncodeState
<1>4. a \in 0..255 /\ b \in 0..255
  <2>1. \A j \in Int : ByteAt(in, j) \in 0..255
    BY ByteTypes
  <2> QED  BY <1>3, <2>1
<1>5. \A j \in Int : j > N => ByteAt(in, j) = 0
  BY <1>3 DEF ByteAt
<1>6. /\ s.valb = -6 => Base64Encode(in) = Padded(s.out \o << >>)
      /\ s.valb > -6 => Base64Encode(in) = Padded(s.out \o <<LastChar(s)>>)
  <2>1. s = Encoded(in)
    OBVIOUS
  <2> HIDE DEF s
  <2> QED  BY <2>1, EncodePieces
<1> HIDE DEF s
<1>9. g \in Nat /\ r \in 0..2 /\ N = 3 * g + r
  BY <1>2
<1>7. CASE r = 0
  <2>1. s.valb = -6
    BY <1>2, <1>7
  <2>2. s.out \o << >> = s.out
    BY <1>3
  <2>3. Len(s.out) = 4 * g /\ (4 - ((4 * g) % 4)) % 4 = 0
    BY <1>2, <1>7
  <2>4. Base64Encode(in) = s.out \o Pad(0)
    BY <1>6, <2>1, <2>2, <2>3 DEF Padded
  <2>5. Pad(0) = << >>
    BY DEF Pad
  <2>6. Base64Encode(in) = s.out
    BY <1>3, <2>4, <2>5
  <2>7. 3 * g \in N..(N + 2)
    BY <1>2, <1>3, <1>7
  <2>8. IsToken(s.out, in)
    <3>1. /\ g \in Nat /\ 3 * g \in Len(in)..(Len(in) + 2) /\ Len(s.out) = 4 * g
          /\ \A k \in 1..g : Group(s.out, in, k)
      BY <1>2, <2>3, <2>7
    <3>2. s.out \in Seq(Nat)
      BY <1>3
    <3> QED  BY <3>1, <3>2 DEF IsToken
  <2> QED  BY <2>6, <2>8
<1>8. CASE r # 0
  <2> DEFINE x == LastChar(s)
  <2>1. s.valb > -6 /\ r \in 1..2
    BY <1>2, <1>8
  <2>2. Base64Encode(in) = Padded(s.out \o <<x>>)
    BY <1>6, <2>1
  <2>3. EndsIn(s.val, b, a)
    <3> HIDE DEF a, b
    <3> QED  BY <1>2, <1>3, <1>4 DEF EndsIn
  <2>4. /\ (((s.val * 256) % IntMod) \div 2^4) % 64 = (a % 4) * 16
        /\ (((s.val * 256) % IntMod) \div 2^6) % 64 = (a % 16) * 4
    <3> HIDE DEF a, b
    <3> QED  BY <2>3, LeftOver
  <2>5. (r = 1 => s.valb + 8 = 4) /\ (r = 2 => s.valb + 8 = 6)
    BY <1>2
  <2>6. (r = 1 => x = (a % 4) * 16) /\ (r = 2 => x = (a % 16) * 4)
    BY <2>4, <2>5 DEF LastChar
  <2> HIDE DEF x
  <2>7. r = 1 => x = Second(in, g + 1)
    <3> SUFFICES ASSUME r = 1 PROVE x = Second(in, g + 1)
      OBVIOUS
    <3>1. 3 * (g + 1) - 2 = N /\ 3 * (g + 1) - 1 \in Int /\ 3 * (g + 1) - 1 > N
      <4> HIDE DEF N
      <4> QED  BY <1>9
    <3>2. ByteAt(in, 3 * (g + 1) - 1) = 0
      BY <1>5, <3>1
    <3>3. Second(in, g + 1) = (a % 4) * 16 + (0 \div 16)
      BY <3>1, <3>2 DEF Second
    <3> HIDE DEF a
    <3> QED  BY <1>4, <2>6, <3>3
  <2>8. r = 2 => x = Third(in, g + 1)
    <3> SUFFICES ASSUME r = 2 PROVE x = Third(in, g + 1)
      OBVIOUS
    <3>1. 3 * (g + 1) - 1 = N /\ 3 * (g + 1) \in Int /\ 3 * (g + 1) > N
      <4> HIDE DEF N
      <4> QED  BY <1>9
    <3>2. ByteAt(in, 3 * (g + 1)) = 0
      BY <1>5, <3>1
    <3>3. Third(in, g + 1) = (a % 16) * 4 + (0 \div 64)
      BY <3>1, <3>2 DEF Third
    <3> HIDE DEF a
    <3> QED  BY <1>4, <2>6, <3>3
  <2>9. x \in Nat
    <3> HIDE DEF a
    <3> QED  BY <1>4, <2>1, <2>6
  <2> DEFINE o == s.out
  <2>10. /\ o \in Seq(Nat) /\ g \in Nat /\ r \in 1..2 /\ Len(in) = 3 * g + r /\ Len(o) = 4 * g + r
         /\ \A k \in 1..g : Group(o, in, k)
         /\ o[4 * g + 1] = First(in, g + 1) /\ (r = 2 => o[4 * g + 2] = Second(in, g + 1))
         /\ x \in Nat /\ (r = 1 => x = Second(in, g + 1)) /\ (r = 2 => x = Third(in, g + 1))
    BY <1>2, <1>3, <2>1, <2>7, <2>8, <2>9
  <2> HIDE DEF o, a, b
  <2>11. IsToken(Padded(o \o <<x>>), in)
    BY <2>10, PaddedToken
  <2> QED  BY <2>2, <2>11 DEF o
<1> QED  BY <1>7, <1>8

\* A character of a group is one of 64.
LEMMA CharTypes ==
    ASSUME NEW in \in Seq(Byte), NEW k \in Int
    PROVE  /\ First(in, k) \in 0..63 /\ Second(in, k) \in 0..63
           /\ Third(in, k) \in 0..63 /\ Fourth(in, k) \in 0..63
           /\ First(in, k) \in Nat /\ Second(in, k) \in Nat /\ Third(in, k) \in Nat
           /\ Fourth(in, k) \in Nat
<1> DEFINE a == ByteAt(in, 3 * k - 2)
           b == ByteAt(in, 3 * k - 1)
           c == ByteAt(in, 3 * k)
<1>1. a \in 0..255 /\ b \in 0..255 /\ c \in 0..255
  <2>1. \A j \in Int : ByteAt(in, j) \in 0..255
    BY ByteTypes
  <2>2. 3 * k - 2 \in Int /\ 3 * k - 1 \in Int /\ 3 * k \in Int
    OBVIOUS
  <2> QED  BY <2>1, <2>2
<1>2. /\ First(in, k) = a \div 4 /\ Second(in, k) = (a % 4) * 16 + (b \div 16)
      /\ Third(in, k) = (b % 16) * 4 + (c \div 64) /\ Fourth(in, k) = c % 64
  BY DEF First, Second, Third, Fourth
<1> HIDE DEF a, b, c
<1> QED  BY <1>1, <1>2

\* Four characters of 24 bits.
LEMMA FourChars ==
    ASSUME NEW in \in Seq(Byte), NEW k \in Int, NEW x,
           x = (ByteAt(in, 3 * k - 2) * 256 + ByteAt(in, 3 * k - 1)) * 256 + ByteAt(in, 3 * k)
    PROVE  /\ (x \div 64^3) % 64 = First(in, k) /\ (x \div 64^2) % 64 = Second(in, k)
           /\ (x \div 64^1) % 64 = Third(in, k) /\ (x \div 64^0) % 64 = Fourth(in, k)
<1> DEFINE a == ByteAt(in, 3 * k - 2)
           b == ByteAt(in, 3 * k - 1)
           c == ByteAt(in, 3 * k)
<1>8. a \in 0..255 /\ b \in 0..255 /\ c \in 0..255
  <2>1. \A j \in Int : ByteAt(in, j) \in 0..255
    BY ByteTypes
  <2>2. 3 * k - 2 \in Int /\ 3 * k - 1 \in Int /\ 3 * k \in Int
    OBVIOUS
  <2> QED  BY <2>1, <2>2
<1>9. /\ First(in, k) = a \div 4 /\ Second(in, k) = (a % 4) * 16 + (b \div 16)
      /\ Third(in, k) = (b % 16) * 4 + (c \div 64) /\ Fourth(in, k) = c % 64
  BY DEF First, Second, Third, Fourth
<1>10. x = (a * 256 + b) * 256 + c
  OBVIOUS
<1> HIDE DEF a, b, c
<1> DEFINE a1 == a \div 4
           a2 == a % 4
           b1 == b \div 16
           b2 == b % 16
           c1 == c \div 64
           c2 == c % 64
<1>1. /\ a1 \in 0..63 /\ a2 \in 0..3 /\ b1 \in 0..15 /\ b2 \in 0..15 /\ c1 \in 0..3 /\ c2 \in 0..63
      /\ a = 4 * a1 + a2 /\ b = 16 * b1 + b2 /\ c = 64 * c1 + c2
  BY <1>8
<1>2. x = a * 65536 + b * 256 + c
  BY <1>8, <1>10
<1> HIDE DEF a1, a2, b1, b2, c1, c2
<1>3. x = 262144 * a1 + 4096 * (16 * a2 + b1) + 64 * (4 * b2 + c1) + c2
  BY SMT, <1>1, <1>2
<1>4. (x \div 262144) % 64 = a1
  <2>1. x \div 262144 = a1
    BY SMT, <1>1, <1>3
  <2> QED  BY SMT, <1>1, <2>1
<1>5. (x \div 4096) % 64 = a2 * 16 + b1
  <2>1. x \div 4096 = 64 * a1 + 16 * a2 + b1
    BY SMT, <1>1, <1>3
  <2> QED  BY SMT, <1>1, <2>1
<1>6. (x \div 64) % 64 = b2 * 4 + c1
  <2>1. x \div 64 = 4096 * a1 + 64 * (16 * a2 + b1) + (4 * b2 + c1)
    BY <1>1, <1>3
  <2>2. (4096 * a1 + 64 * (16 * a2 + b1) + (4 * b2 + c1)) % 64 = 4 * b2 + c1
    BY <1>1
  <2> QED  BY <1>1, <2>1, <2>2
<1>7. (x \div 1) % 64 = c2
  <2>1. x \div 1 = x
    BY <1>1, <1>3
  <2> QED  BY <1>1, <1>3, <2>1
<1>11. 64^3 = 262144 /\ 64^2 = 4096 /\ 64^1 = 64 /\ 64^0 = 1
  BY SMT
<1>12. /\ (x \div 64^3) % 64 = a1 /\ (x \div 64^2) % 64 = a2 * 16 + b1
       /\ (x \div 64^1) % 64 = b2 * 4 + c1 /\ (x \div 64^0) % 64 = c2
  BY SMT, <1>4, <1>5, <1>6, <1>7, <1>11
<1> QED  BY <1>9, <1>12 DEF a1, a2, b1, b2, c1, c2

\* The token of a client is the token.
LEMMA ClientIsToken ==
    ASSUME NEW in \in Seq(Byte)
    PROVE  IsToken(ClientToken(in), in)
<1> DEFINE N == Len(in)
           g == (N + 2) \div 3
           at(i) == IF i <= N THEN in[i] ELSE 0
           group(k) == (at(3 * k - 2) * 256 + at(3 * k - 1)) * 256 + at(3 * k)
           char(k, j) == IF 3 * k - 4 + j > N THEN 64 ELSE (group(k) \div 64^(4 - j)) % 64
           out == ClientToken(in)
<1>1. N \in Nat
  BY LenProperties
<1>2. out = [m \in 1..(4 * g) |-> char((m + 3) \div 4, 1 + ((m - 1) % 4))]
  BY DEF ClientToken
<1>3. g \in Nat /\ 3 * g \in N..(N + 2)
  <2> HIDE DEF N
  <2> QED  BY <1>1
<1>4. \A i \in Nat \ {0} : at(i) = ByteAt(in, i)
  BY <1>1 DEF ByteAt
<1>5. \A k \in 1..g :
        /\ 3 * k - 2 \in Nat \ {0} /\ 3 * k - 1 \in Nat \ {0} /\ 3 * k \in Nat \ {0}
        /\ ~(3 * k - 4 + 1 > N) /\ ~(3 * k - 4 + 2 > N)
        /\ 3 * k - 4 + 3 = 3 * k - 1 /\ 3 * k - 4 + 4 = 3 * k
  <2> HIDE DEF N, g
  <2> QED  BY <1>1, <1>3
<1>7. ASSUME NEW k \in 1..g
      PROVE  /\ (group(k) \div 64^3) % 64 = First(in, k) /\ (group(k) \div 64^2) % 64 = Second(in, k)
             /\ (group(k) \div 64^1) % 64 = Third(in, k) /\ (group(k) \div 64^0) % 64 = Fourth(in, k)
  <2>1. k \in Int
    <3> HIDE DEF g
    <3> QED  BY <1>3, <1>7
  <2>2. /\ at(3 * k - 2) = ByteAt(in, 3 * k - 2) /\ at(3 * k - 1) = ByteAt(in, 3 * k - 1)
        /\ at(3 * k) = ByteAt(in, 3 * k)
    <3> HIDE DEF at, g
    <3> QED  BY <1>4, <1>5, <1>7
  <2>3. group(k) = (ByteAt(in, 3 * k - 2) * 256 + ByteAt(in, 3 * k - 1)) * 256 + ByteAt(in, 3 * k)
    <3> HIDE DEF at
    <3> QED  BY <2>2
  <2> HIDE DEF group
  <2> QED  BY <2>1, <2>3, FourChars
<1> HIDE DEF group, at
<1>8. ASSUME NEW k \in 1..g
      PROVE  Group(out, in, k)
  <2>1. /\ 4 * k - 3 \in 1..(4 * g) /\ 4 * k - 2 \in 1..(4 * g)
        /\ 4 * k - 1 \in 1..(4 * g) /\ 4 * k \in 1..(4 * g)
    <3> HIDE DEF g
    <3> QED  BY <1>3, <1>8
  <2>2. /\ (4 * k - 3 + 3) \div 4 = k /\ 1 + ((4 * k - 3 - 1) % 4) = 1
        /\ (4 * k - 2 + 3) \div 4 = k /\ 1 + ((4 * k - 2 - 1) % 4) = 2
        /\ (4 * k - 1 + 3) \div 4 = k /\ 1 + ((4 * k - 1 - 1) % 4) = 3
        /\ (4 * k + 3) \div 4 = k /\ 1 + ((4 * k - 1) % 4) = 4
    <3>1. k \in Nat
      BY <1>3, <1>8
    <3> QED  BY <3>1
  <2> HIDE DEF char, out, g
  <2>3. /\ out[4 * k - 3] = char(k, 1) /\ out[4 * k - 2] = char(k, 2)
        /\ out[4 * k - 1] = char(k, 3) /\ out[4 * k] = char(k, 4)
    <3>1. \A m \in 1..(4 * g) : out[m] = char((m + 3) \div 4, 1 + ((m - 1) % 4))
      BY <1>2
    <3>2. out[4 * k - 3] = char((4 * k - 3 + 3) \div 4, 1 + ((4 * k - 3 - 1) % 4))
      BY <2>1, <3>1
    <3>3. out[4 * k - 2] = char((4 * k - 2 + 3) \div 4, 1 + ((4 * k - 2 - 1) % 4))
      BY <2>1, <3>1
    <3>4. out[4 * k - 1] = char((4 * k - 1 + 3) \div 4, 1 + ((4 * k - 1 - 1) % 4))
      BY <2>1, <3>1
    <3>5. out[4 * k] = char((4 * k + 3) \div 4, 1 + ((4 * k - 1) % 4))
      BY <2>1, <3>1
    <3> QED  BY <2>2, <3>2, <3>3, <3>4, <3>5
  <2>4. /\ char(k, 1) = (group(k) \div 64^3) % 64 /\ char(k, 2) = (group(k) \div 64^2) % 64
        /\ char(k, 3) = (IF 3 * k - 1 > N THEN 64 ELSE (group(k) \div 64^1) % 64)
        /\ char(k, 4) = (IF 3 * k > N THEN 64 ELSE (group(k) \div 64^0) % 64)
    BY <1>5, <1>8 DEF char
  <2> QED  BY <1>7, <1>8, <2>3, <2>4 DEF Group
<1>9. out \in Seq(Nat) /\ Len(out) = 4 * g
  <2> HIDE DEF char, g, out
  <2>1. \A m \in 1..(4 * g) : out[m] \in Nat
    <3> TAKE m \in 1..(4 * g)
    <3>1. PICK k \in 1..g : m \in {4 * k - 3, 4 * k - 2, 4 * k - 1, 4 * k}
      <4> DEFINE k == (m + 3) \div 4
      <4>1. k \in 1..g /\ m \in {4 * k - 3, 4 * k - 2, 4 * k - 1, 4 * k}
        BY <1>3
      <4> QED  BY <4>1
    <3>2. Group(out, in, k)
      BY <1>8
    <3>3. k \in Int
      BY <1>3
    <3>4. First(in, k) \in Nat /\ Second(in, k) \in Nat /\ Third(in, k) \in Nat /\ Fourth(in, k) \in Nat
      BY <3>3, CharTypes
    <3>5. /\ out[4 * k - 3] \in Nat /\ out[4 * k - 2] \in Nat
          /\ out[4 * k - 1] \in Nat /\ out[4 * k] \in Nat
      <4>1. 64 \in Nat
        OBVIOUS
      <4> QED  BY <3>2, <3>4, <4>1 DEF Group
    <3> QED  BY <3>1, <3>5
  <2> QED  BY <1>2, <1>3, <2>1
<1> HIDE DEF out, g
<1> QED  BY <1>3, <1>8, <1>9 DEF IsToken, out

\* There is one token for a sequence.
LEMMA OneToken ==
    ASSUME NEW in \in Seq(Byte), NEW x, NEW y, IsToken(x, in), IsToken(y, in)
    PROVE  x = y
<1> DEFINE N == Len(in)
<1>1. PICK g \in Nat : 3 * g \in N..(N + 2) /\ Len(x) = 4 * g /\ \A k \in 1..g : Group(x, in, k)
  BY DEF IsToken
<1>2. PICK h \in Nat : 3 * h \in N..(N + 2) /\ Len(y) = 4 * h /\ \A k \in 1..h : Group(y, in, k)
  BY DEF IsToken
<1>3. N \in Nat
  BY LenProperties
<1>4. g = h
  <2>1. 3 * g \in N..(N + 2) /\ 3 * h \in N..(N + 2)
    BY <1>1, <1>2
  <2> HIDE DEF N
  <2> QED  BY <1>3, <2>1
<1>5. x \in Seq(Nat) /\ y \in Seq(Nat) /\ Len(x) = Len(y) /\ Len(x) = 4 * g
  BY <1>1, <1>2, <1>4 DEF IsToken
<1>6. ASSUME NEW m \in 1..(4 * g) PROVE x[m] = y[m]
  <2>1. PICK k \in 1..g : m \in {4 * k - 3, 4 * k - 2, 4 * k - 1, 4 * k}
    <3> DEFINE k == (m + 3) \div 4
    <3>1. k \in 1..g /\ m \in {4 * k - 3, 4 * k - 2, 4 * k - 1, 4 * k}
      BY <1>6
    <3> QED  BY <3>1
  <2>2. Group(x, in, k) /\ Group(y, in, k)
    BY <1>1, <1>2, <1>4
  <2> QED  BY <2>1, <2>2 DEF Group
<1> QED  BY <1>5, <1>6, SeqEqual

\* Three bytes from four characters.
LEMMA BytesBack ==
    ASSUME NEW in1 \in Seq(Byte), NEW in2 \in Seq(Byte), NEW k \in Int,
           First(in1, k) = First(in2, k), Second(in1, k) = Second(in2, k)
    PROVE  /\ ByteAt(in1, 3 * k - 2) = ByteAt(in2, 3 * k - 2)
           /\ Third(in1, k) = Third(in2, k) => ByteAt(in1, 3 * k - 1) = ByteAt(in2, 3 * k - 1)
           /\ Third(in1, k) = Third(in2, k) /\ Fourth(in1, k) = Fourth(in2, k)
                => ByteAt(in1, 3 * k) = ByteAt(in2, 3 * k)
<1> DEFINE a1 == ByteAt(in1, 3 * k - 2)
           a2 == ByteAt(in2, 3 * k - 2)
           b1 == ByteAt(in1, 3 * k - 1)
           b2 == ByteAt(in2, 3 * k - 1)
           c1 == ByteAt(in1, 3 * k)
           c2 == ByteAt(in2, 3 * k)
<1>1. /\ a1 \in 0..255 /\ b1 \in 0..255 /\ c1 \in 0..255
      /\ a2 \in 0..255 /\ b2 \in 0..255 /\ c2 \in 0..255
  <2>1. \A j \in Int : ByteAt(in1, j) \in 0..255 /\ ByteAt(in2, j) \in 0..255
    BY ByteTypes
  <2>2. 3 * k - 2 \in Int /\ 3 * k - 1 \in Int /\ 3 * k \in Int
    OBVIOUS
  <2> QED  BY <2>1, <2>2
<1>2. a1 \div 4 = a2 \div 4 /\ (a1 % 4) * 16 + (b1 \div 16) = (a2 % 4) * 16 + (b2 \div 16)
  BY DEF First, Second
<1>3. Third(in1, k) = Third(in2, k) => (b1 % 16) * 4 + (c1 \div 64) = (b2 % 16) * 4 + (c2 \div 64)
  BY DEF Third
<1>4. Fourth(in1, k) = Fourth(in2, k) => c1 % 64 = c2 % 64
  BY DEF Fourth
<1> HIDE DEF a1, a2, b1, b2, c1, c2
<1>5. a1 = a2 /\ b1 \div 16 = b2 \div 16
  BY <1>1, <1>2
<1>6. Third(in1, k) = Third(in2, k) => b1 % 16 = b2 % 16 /\ c1 \div 64 = c2 \div 64
  <2> SUFFICES ASSUME (b1 % 16) * 4 + (c1 \div 64) = (b2 % 16) * 4 + (c2 \div 64)
               PROVE  b1 % 16 = b2 % 16 /\ c1 \div 64 = c2 \div 64
    BY <1>3
  <2> QED  BY <1>1
<1>7. Third(in1, k) = Third(in2, k) => b1 = b2
  BY <1>1, <1>5, <1>6
<1>8. Third(in1, k) = Third(in2, k) /\ Fourth(in1, k) = Fourth(in2, k) => c1 = c2
  <2> SUFFICES ASSUME c1 \div 64 = c2 \div 64, c1 % 64 = c2 % 64
               PROVE  c1 = c2
    BY <1>4, <1>6
  <2> QED  BY <1>1
<1> QED  BY <1>5, <1>7, <1>8 DEF a1, a2, b1, b2, c1, c2

\* And one sequence for a token: Base64 loses nothing.
LEMMA OneSequence ==
    ASSUME NEW in1 \in Seq(Byte), NEW in2 \in Seq(Byte), NEW x, IsToken(x, in1), IsToken(x, in2)
    PROVE  in1 = in2
<1> DEFINE N1 == Len(in1)
           N2 == Len(in2)
<1>1. PICK g \in Nat : 3 * g \in N1..(N1 + 2) /\ Len(x) = 4 * g /\ \A k \in 1..g : Group(x, in1, k)
  BY DEF IsToken
<1>2. PICK h \in Nat : 3 * h \in N2..(N2 + 2) /\ Len(x) = 4 * h /\ \A k \in 1..h : Group(x, in2, k)
  BY DEF IsToken
<1>3. N1 \in Nat /\ N2 \in Nat
  BY LenProperties
<1>4. g = h
  <2>1. 4 * g = 4 * h
    BY <1>1, <1>2
  <2> QED  BY <2>1
<1>5. 3 * g \in N1..(N1 + 2) /\ 3 * g \in N2..(N2 + 2)
  BY <1>1, <1>2, <1>4
<1>6. \A k \in 1..g :
        /\ k \in Int
        /\ First(in1, k) = First(in2, k) /\ Second(in1, k) = Second(in2, k)
        /\ (IF 3 * k - 1 > N1 THEN 64 ELSE Third(in1, k)) = (IF 3 * k - 1 > N2 THEN 64 ELSE Third(in2, k))
        /\ (IF 3 * k > N1 THEN 64 ELSE Fourth(in1, k)) = (IF 3 * k > N2 THEN 64 ELSE Fourth(in2, k))
  <2> TAKE k \in 1..g
  <2>1. Group(x, in1, k) /\ Group(x, in2, k)
    BY <1>1, <1>2, <1>4
  <2>2. k \in Int
    OBVIOUS
  <2> QED  BY <2>1, <2>2 DEF Group
<1>7. \A k \in Int : /\ Third(in1, k) # 64 /\ Third(in2, k) # 64
                     /\ Fourth(in1, k) # 64 /\ Fourth(in2, k) # 64
  <2> TAKE k \in Int
  <2>1. /\ Third(in1, k) \in 0..63 /\ Third(in2, k) \in 0..63
        /\ Fourth(in1, k) \in 0..63 /\ Fourth(in2, k) \in 0..63
    BY CharTypes
  <2>2. \A y \in 0..63 : y # 64
    OBVIOUS
  <2> QED  BY <2>1, <2>2
<1>8. N1 = N2
  <2>1. CASE g = 0
    <3> HIDE DEF N1, N2
    <3> QED  BY <1>3, <1>5, <2>1
  <2>2. CASE g # 0
    <3>1. g \in 1..g /\ g \in Int
      BY <2>2
    <3>2. (3 * g - 1 > N1) <=> (3 * g - 1 > N2)
      BY <1>6, <1>7, <3>1
    <3>3. (3 * g > N1) <=> (3 * g > N2)
      BY <1>6, <1>7, <3>1
    <3>4. 3 * g \in N1..(N1 + 2) /\ 3 * g \in N2..(N2 + 2)
      BY <1>5
    <3> HIDE DEF N1, N2
    <3>5. N1 \in Nat /\ N2 \in Nat /\ g \in Nat
      BY <1>3
    <3> QED  BY <3>2, <3>3, <3>4, <3>5
  <2> QED  BY <2>1, <2>2
<1>9. ASSUME NEW i \in 1..N1 PROVE in1[i] = in2[i]
  <2>1. PICK k \in 1..g : i \in {3 * k - 2, 3 * k - 1, 3 * k}
    <3> DEFINE k == (i + 2) \div 3
    <3>1. i \in Nat \ {0} /\ i <= N1
      BY <1>3, <1>9
    <3> HIDE DEF N1
    <3>2. k \in 1..g /\ i \in {3 * k - 2, 3 * k - 1, 3 * k}
      BY <1>3, <1>5, <3>1
    <3> QED  BY <3>2
  <2>2. k \in Int /\ i <= N1 /\ i <= N2 /\ i \in Int /\ N1 \in Int /\ N2 \in Int
    BY <1>3, <1>8, <1>9
  <2>3. First(in1, k) = First(in2, k) /\ Second(in1, k) = Second(in2, k)
    BY <1>6
  <2>4. i # 3 * k - 2 => Third(in1, k) = Third(in2, k)
    <3> SUFFICES ASSUME i # 3 * k - 2 PROVE Third(in1, k) = Third(in2, k)
      OBVIOUS
    <3>1. ~(3 * k - 1 > N1) /\ ~(3 * k - 1 > N2)
      <4> HIDE DEF N1, N2
      <4> QED  BY <2>1, <2>2
    <3> QED  BY <1>6, <3>1
  <2>5. i = 3 * k => Fourth(in1, k) = Fourth(in2, k)
    <3> SUFFICES ASSUME i = 3 * k PROVE Fourth(in1, k) = Fourth(in2, k)
      OBVIOUS
    <3>1. ~(3 * k > N1) /\ ~(3 * k > N2)
      <4> HIDE DEF N1, N2
      <4> QED  BY <2>2
    <3> QED  BY <1>6, <3>1
  <2>6. /\ ByteAt(in1, 3 * k - 2) = ByteAt(in2, 3 * k - 2)
        /\ Third(in1, k) = Third(in2, k) => ByteAt(in1, 3 * k - 1) = ByteAt(in2, 3 * k - 1)
        /\ Third(in1, k) = Third(in2, k) /\ Fourth(in1, k) = Fourth(in2, k)
             => ByteAt(in1, 3 * k) = ByteAt(in2, 3 * k)
    BY <2>2, <2>3, BytesBack
  <2>7. 3 * k # 3 * k - 2 /\ 3 * k - 1 # 3 * k - 2
    BY <2>2
  <2>8. ByteAt(in1, i) = ByteAt(in2, i)
    <3>1. CASE i = 3 * k - 2
      BY <2>6, <3>1
    <3>2. CASE i = 3 * k - 1
      BY <2>4, <2>6, <2>7, <3>2
    <3>3. CASE i = 3 * k
      BY <2>4, <2>5, <2>6, <2>7, <3>3
    <3> QED  BY <2>1, <3>1, <3>2, <3>3
  <2>9. i \in 1..Len(in1) /\ i \in 1..Len(in2)
    BY <1>8, <1>9
  <2> QED  BY <2>8, <2>9 DEF ByteAt
<1> QED  BY <1>8, <1>9, SeqEqual

\* So two tokens are compared as what they are made of.
LEMMA SameStrings ==
    ASSUME NEW in1 \in Seq(Byte), NEW in2 \in Seq(Byte)
    PROVE  Base64Encode(in1) = ClientToken(in2) <=> in1 = in2
<1>1. IsToken(Base64Encode(in1), in1) /\ IsToken(ClientToken(in2), in2)
  BY EncodeIsToken, ClientIsToken
<1>2. ASSUME Base64Encode(in1) = ClientToken(in2) PROVE in1 = in2
  <2>1. IsToken(ClientToken(in2), in1)
    BY <1>1, <1>2
  <2> QED  BY <1>1, <2>1, OneSequence
<1>3. ASSUME in1 = in2 PROVE Base64Encode(in1) = ClientToken(in2)
  <2>1. IsToken(ClientToken(in2), in1)
    BY <1>1, <1>3
  <2> QED  BY <1>1, <2>1, OneToken
<1> QED  BY <1>2, <1>3

\* Authenticate: the users of the configuration and nobody else.
LEMMA AuthenticateExact ==
    ASSUME NEW h \in HeaderType
    PROVE  Authenticate(h) <=>
             h.form = "token" /\ \E u \in Range(Users) : h.credentials = Concat(u)
<1>1. h.credentials \in Seq(Byte)
  BY DEF HeaderType
<1>2. Users \in Seq([name : Seq(Byte), passwd : Seq(Byte)])
  BY HttpAssumption
<1>3. DOMAIN Users = 1..Len(Users)
  BY <1>2, LenProperties
<1>4. ASSUME NEW i \in DOMAIN Users PROVE Concat(Users[i]) \in Seq(Byte)
  <2>1. Users[i] \in [name : Seq(Byte), passwd : Seq(Byte)]
    BY <1>2, <1>3, <1>4, ElementOfSeq
  <2>2. Users[i].name \in Seq(Byte) /\ Users[i].passwd \in Seq(Byte)
    BY <2>1
  <2>3. <<Colon>> \in Seq(Byte)
    <3>1. Colon \in Byte
      BY DEF Colon, Byte
    <3> QED  BY <3>1
  <2>4. Users[i].name \o <<Colon>> \in Seq(Byte)
    BY <2>2, <2>3, ConcatProperties
  <2>5. (Users[i].name \o <<Colon>>) \o Users[i].passwd \in Seq(Byte)
    BY <2>2, <2>4, ConcatProperties
  <2> QED  BY <2>5 DEF Concat
<1>5. \A i \in DOMAIN Users :
        Base64Encode(Concat(Users[i])) = ClientToken(h.credentials) <=> Concat(Users[i]) = h.credentials
  BY <1>1, <1>4, SameStrings
<1>6. Range(Users) = {Users[i] : i \in DOMAIN Users}
  BY DEF Range
<1> QED  BY <1>5, <1>6 DEF Authenticate

-----------------------------------------------------------------------------
(* What was decided of the last request is what Authenticate says of its   *)
(* header, as long as the session keeps the header.                        *)

AuthInv(s) ==
    s.pc \in {"deny", "reply"} =>
        (s.authorized[Len(s.authorized)] <=> Authenticate(s.header))

AllAuth == \A c \in Conn : AuthInv(session[c])

LEMMA GoesOnAuth ==
    ASSUME IInv, AllAuth, NEW c \in Conn, NEW pc, NEW s, GoesOn(c, pc, s), AuthInv(s)
    PROVE  AllAuth'
<1>1. session \in [Conn -> SessionType] /\ session' = [session EXCEPT ![c] = s]
  BY DEF IInv, TypeOK, GoesOn
<1>2. \A d \in Conn : session'[d] = session[d] \/ session'[d] = s
  BY <1>1
<1>3. \A d \in Conn : AuthInv(session'[d])
  BY <1>2 DEF AllAuth
<1> QED  BY <1>3 DEF AllAuth

\* A session that is not about to respond has decided nothing.
LEMMA SilentAuth ==
    ASSUME IInv, AllAuth, NEW c \in Conn, NEW pc, NEW s, GoesOn(c, pc, s),
           s.pc \notin {"deny", "reply"}
    PROVE  AllAuth'
<1>1. AuthInv(s)
  BY DEF AuthInv
<1> QED  BY <1>1, GoesOnAuth

LEMMA AtSilent ==
    ASSUME IInv, NEW c \in Conn, NEW pc \in {"read", "ended", "shutdown"}
    PROVE  At(c, pc).pc = pc /\ Unwritten(c, pc).pc = pc
<1>1. session[c] \in SessionType
  BY DEF IInv, TypeOK
<1>2. At(c, pc).pc = pc
  BY <1>1 DEF At, NewSession, SessionType
<1>3. Unwritten(c, pc).pc = At(c, pc).pc
  BY <1>1 DEF Unwritten, At, NewSession, SessionType
<1> QED  BY <1>2, <1>3

LEMMA ReadAuth ==
    ASSUME IInv, AllAuth, NEW c \in Conn, NEW h \in Header, NEW keepAlive \in BOOLEAN,
           Read(c, h, keepAlive)
    PROVE  AllAuth'
<1> DEFINE authorized == Authenticate(h)
           s == [session[c] EXCEPT !.close = @ \/ ~keepAlive,
                                   !.authorized = Append(@, authorized), !.header = h]
<1>1. session[c] \in SessionType
  BY DEF IInv, TypeOK
<1>2. /\ s.authorized = Append(session[c].authorized, authorized) /\ s.header = h
      /\ session[c].authorized \in Seq(BOOLEAN) /\ authorized \in BOOLEAN
  BY <1>1 DEF SessionType, Authenticate
<1>3. s.authorized[Len(s.authorized)] = authorized
  <2> HIDE DEF s, authorized
  <2> QED  BY <1>2, AppendProperties
<1>4. \A closes \in BOOLEAN : /\ Handle(s, closes).authorized = s.authorized
                              /\ Handle(s, closes).header = s.header
  BY <1>1 DEF Handle, SessionType
<1>5. Deny(s).authorized = s.authorized /\ Deny(s).header = s.header
  BY <1>1 DEF Deny, SessionType
<1>6. AuthInv(Deny(s)) /\ \A closes \in BOOLEAN : AuthInv(Handle(s, closes))
  <2>1. s.authorized[Len(s.authorized)] <=> Authenticate(s.header)
    BY <1>2, <1>3
  <2> HIDE DEF s
  <2> QED  BY <1>4, <1>5, <2>1 DEF AuthInv
<1>7. \/ \E closes \in BOOLEAN : GoesOn(c, "read", Handle(s, closes))
      \/ GoesOn(c, "read", Deny(s))
  BY DEF Read
<1> HIDE DEF s
<1> QED  BY <1>6, <1>7, GoesOnAuth

LEMMA DeniedAuth ==
    ASSUME IInv, AllAuth, NEW c \in Conn, Denied(c)
    PROVE  AllAuth'
<1> DEFINE s == session[c]
<1>1. s \in SessionType /\ AuthInv(s)
  BY DEF IInv, TypeOK, AllAuth
<1>2. PICK closes \in BOOLEAN : GoesOn(c, "deny", Handle(s, closes))
  BY DEF Denied
<1>3. Handle(s, closes).authorized = s.authorized /\ Handle(s, closes).header = s.header
  BY <1>1 DEF Handle, SessionType
<1>4. s.pc = "deny"
  BY <1>2 DEF GoesOn
<1>5. AuthInv(Handle(s, closes))
  BY <1>1, <1>3, <1>4 DEF AuthInv
<1> QED  BY <1>2, <1>5, GoesOnAuth

LEMMA NextAuth ==
    ASSUME IInv, AllAuth, [Next]_vars
    PROVE  AllAuth'
<1>1. ASSUME UNCHANGED session PROVE AllAuth'
  BY <1>1 DEF AllAuth
<1>2. ASSUME NEW c \in Conn, NEW pc \in {"waiting", "handshake", "read"},
             session' = [session EXCEPT ![c].pc = pc]
      PROVE  AllAuth'
  <2>1. session \in [Conn -> SessionType]
    BY DEF IInv, TypeOK
  <2>2. session'[c].pc = pc /\ \A d \in Conn \ {c} : session'[d] = session[d]
    BY <1>2, <2>1 DEF SessionType
  <2>3. pc \notin {"deny", "reply"}
    OBVIOUS
  <2> QED  BY <2>2, <2>3 DEF AllAuth, AuthInv
<1>3. ASSUME NEW c \in Conn, Accept(c) PROVE AllAuth'
  <2> DEFINE pc == IF tls THEN "handshake" ELSE "read"
  <2>1. pc \in {"waiting", "handshake", "read"} /\ session' = [session EXCEPT ![c].pc = pc]
    BY <1>3 DEF Accept
  <2> HIDE DEF pc
  <2> QED  BY <1>2, <2>1
<1>4. ASSUME NEW c \in Conn, Connect(c) PROVE AllAuth'
  BY <1>2, <1>4 DEF Connect
<1>5. ASSUME NEW c \in Conn, NEW from, NEW pc \in {"read", "ended", "shutdown"},
             GoesOn(c, from, At(c, pc)) \/ GoesOn(c, from, Unwritten(c, pc))
      PROVE  AllAuth'
  <2>1. At(c, pc).pc \notin {"deny", "reply"} /\ Unwritten(c, pc).pc \notin {"deny", "reply"}
    BY AtSilent
  <2> QED  BY <1>5, <2>1, SilentAuth
<1>6. ASSUME NEW c \in Conn, EndOfStream(c) \/ ShutDown(c) PROVE AllAuth'
  BY <1>5, <1>6 DEF EndOfStream, ShutDown
<1>7. ASSUME NEW c \in Conn, Handshake(c) \/ Replied(c) PROVE AllAuth'
  BY <1>5, <1>7 DEF Handshake, Replied, Loop
<1>8. ASSUME NEW c \in Conn, Fails(c) PROVE AllAuth'
  BY <1>5, <1>8 DEF Fails
<1>9. (\E ok \in BOOLEAN : SetUp(ok)) \/ AcceptFails \/ UNCHANGED vars => UNCHANGED session
  BY DEF SetUp, AcceptFails, vars
<1> QED  BY <1>1, <1>3, <1>4, <1>6, <1>7, <1>8, <1>9, ReadAuth, DeniedAuth DEF Next, Idle

-----------------------------------------------------------------------------
(* The theorems.                                                           *)

\* The inductive invariant holds in every reachable state, for any number of
\* connections and whatever clients send (DoSession, Listen).
THEOREM Invariance == Spec => []IInv
<1>1. Init => IInv
  BY InitKeeps
<1>2. IInv /\ [Next]_vars => IInv'
  BY NextKeeps
<1> QED  BY <1>1, <1>2, PTL DEF Spec

\* Every variable keeps its type, and the accept loop never counts beyond maxErrors.
THEOREM TypeCorrect == Spec => []TypeOK
<1>1. IInv => TypeOK
  BY DEF IInv
<1> QED  BY <1>1, Invariance, PTL

\* What the Connection headers say is what the server does, for any number of
\* pipelined requests, denials and failed writes (DoSession).
THEOREM HeaderIsKept == Spec => []ConnectionHeaderKept
<1>1. ASSUME IInv PROVE ConnectionHeaderKept
  <2> SUFFICES ASSUME NEW c \in Conn
               PROVE  LET out == session[c].out IN
                      /\ session[c].pc = "read" /\ out # << >> => Last(out).keepAlive
                      /\ session[c].pc = "reply" /\ session[c].close => ~Last(out).keepAlive
                      /\ \A i, j \in DOMAIN out :
                            i < j /\ ~out[i].keepAlive => out[j].request = out[i].request
    BY DEF ConnectionHeaderKept
  <2> DEFINE s == session[c]
  <2>1. /\ s \in SessionType /\ SessionInv(s) /\ s.out \in Seq(Response)
        /\ s.authorized \in Seq(BOOLEAN)
    BY <1>1 DEF IInv, TypeOK, SessionType
  <2>2. /\ DOMAIN s.out = 1..Len(s.out) /\ Len(s.out) \in Nat /\ Len(s.authorized) \in Nat
        /\ s.out # << >> => Len(s.out) \in DOMAIN s.out
    BY <2>1, LenProperties, EmptySeq
  <2>3. \A i \in DOMAIN s.out : s.out[i].request \in Nat
    <3>1. \A i \in DOMAIN s.out : s.out[i] \in Response
      BY <2>1, <2>2, ElementOfSeq
    <3>2. \A a \in Response : a.request \in Nat
      BY HttpAssumption DEF Response
    <3> QED  BY <3>1, <3>2
  <2> HIDE DEF s
  <2>4. s.pc = "read" /\ s.out # << >> => s.out[Len(s.out)].keepAlive
    BY <2>1, <2>2 DEF SessionInv, OutInv, ReadInv
  <2>5. s.pc = "reply" /\ s.close => ~s.out[Len(s.out)].keepAlive
    BY <2>1 DEF SessionInv, ReplyInv
  <2>6. ASSUME NEW i \in DOMAIN s.out, NEW j \in DOMAIN s.out, i < j, ~s.out[i].keepAlive
        PROVE  s.out[j].request = s.out[i].request
    <3>1. s.out[i].request = Len(s.authorized) /\ s.out[j].request <= Len(s.authorized)
      BY <2>1, <2>6 DEF SessionInv, OutInv
    <3>2. s.out[i].request <= s.out[j].request
      BY <2>1, <2>3, <2>6 DEF SessionInv, OutInv, InOrder
    <3> QED  BY <2>2, <2>3, <3>1, <3>2
  <2> QED  BY <2>4, <2>5, <2>6 DEF s, Last
<1> QED  BY <1>1, Invariance, PTL

\* No request is skipped, answered twice or answered out of turn (DoSession).
THEOREM RequestsAreAnswered == Spec => []EveryRequestAnswered
<1>1. IInv => EveryRequestAnswered
  BY DEF IInv, EveryRequestAnswered, SessionInv, OutInv, ReadInv
<1> QED  BY <1>1, Invariance, PTL

\* The accept loop gives up only after maxErrors errors in a row (Listen).
THEOREM GivesUpOnlyAfterRow == Spec => GivesUpAfterRow
<1> DEFINE A == endpoint = "accepting" /\ endpoint' = "stopped" => inRow' = MaxErrors
<1>1. ASSUME IInv, [Next]_vars PROVE [A]_vars
  <2>1. CASE UNCHANGED vars
    BY <2>1
  <2>2. ASSUME NEW ok \in BOOLEAN, SetUp(ok) PROVE A
    BY <2>2 DEF SetUp
  <2>3. CASE AcceptFails
    BY <1>1, <2>3, HttpAssumption DEF AcceptFails, Accepting, IInv, AcceptInv, TypeOK
  <2>4. ASSUME endpoint' = endpoint PROVE A
    BY <2>4
  <2>5. ASSUME NEW c \in Conn,
               \/ Connect(c) \/ Accept(c) \/ Handshake(c) \/ EndOfStream(c)
               \/ \E h \in Header, keepAlive \in BOOLEAN : Read(c, h, keepAlive)
               \/ Denied(c) \/ Replied(c) \/ ShutDown(c) \/ Fails(c)
        PROVE  endpoint' = endpoint
    BY <2>5 DEF Connect, Accept, Handshake, EndOfStream, Read, Denied, Replied, ShutDown,
                Fails, GoesOn
  <2> QED  BY <1>1, <2>1, <2>2, <2>3, <2>4, <2>5 DEF Next, Idle
<1> QED  BY <1>1, Invariance, PTL DEF Spec, GivesUpAfterRow

\* Whoever presents the name and the password of a user is authorized and nobody
\* else, whatever bytes names, passwords and credentials are made of and however long
\* they are: the token of Base64Encode, whose accumulator overflows, is that of
\* RFC 4648, of which there is one for each sequence of bytes (Authenticate).
THEOREM AuthorizationIsExact == Spec => []AuthorizedExactly
<1>1. Init => AllAuth
  BY DEF Init, NewSession, AllAuth, AuthInv
<1>2. IInv /\ AllAuth /\ [Next]_vars => AllAuth'
  BY NextAuth
<1>3. IInv /\ AllAuth => AuthorizedExactly
  <2> SUFFICES ASSUME IInv, AllAuth, NEW c \in Conn, session[c].pc \in {"deny", "reply"}
               PROVE  LET h == session[c].header IN
                      Last(session[c].authorized) <=>
                        h.form = "token" /\ \E u \in Range(Users) : h.credentials = Concat(u)
    BY DEF AuthorizedExactly
  <2> DEFINE h == session[c].header
  <2>1. h \in HeaderType
    BY DEF IInv, TypeOK, SessionType
  <2>2. Last(session[c].authorized) <=> Authenticate(h)
    BY DEF AllAuth, AuthInv, Last
  <2> HIDE DEF h
  <2>3. Authenticate(h) <=> h.form = "token" /\ \E u \in Range(Users) : h.credentials = Concat(u)
    BY <2>1, AuthenticateExact
  <2> QED  BY <2>2, <2>3 DEF h
<1> QED  BY <1>1, <1>2, <1>3, Invariance, PTL DEF Spec
=============================================================================
