----------------------------- MODULE HttpServer -----------------------------
(***************************************************************************)
(* HttpServer: one endpoint, its accept loop and the sessions that it      *)
(* starts, each a coroutine.  A step is what a coroutine does from the     *)
(* moment an asynchronous operation ends until it starts the next one.     *)
(* All sessions run in the thread of one pipeline, so the handler, which   *)
(* never yields, is a part of the step that calls it.                      *)
(*                                                                         *)
(* Clients and the network are free to do anything, or nothing.            *)
(***************************************************************************)
EXTENDS Integers, SequencesExt

CONSTANTS
    Conn,          \* the connections that clients may make
    Users,         \* config_.users: a sequence of [name, passwd], strings of bytes
    Header,        \* the Authorization headers that requests may have
    TlsChoice,     \* may the endpoint have a Tls configuration, may it not
    MaxErrors,     \* maxErrors: 64
    IntMod,        \* 2^w, w being the bits of an int
    MaxRequests    \* bound: how many requests a client sends on a connection

Byte == 0..255

\* `form' is what a request has of the header: none, one without a space, or one
\* with the token of `credentials'.
HeaderType == [form : {"none", "word", "token"}, credentials : Seq(Byte)]

ASSUME HttpAssumption ==
    /\ Users \in Seq([name : Seq(Byte), passwd : Seq(Byte)])
    /\ Header \subseteq HeaderType
    /\ TlsChoice \subseteq BOOLEAN
    /\ MaxErrors \in Nat \ {0}
    /\ IntMod \in Nat \ {0} /\ IntMod % 65536 = 0    \* an int has 16 bits at least
    /\ MaxRequests \in Nat

VARIABLES
    tls,       \* the endpoint's configuration
    endpoint,  \* "setup", "accepting" or "stopped"
    errorCnt,  \* of the accept loop
    inRow,     \* history: how many calls of async_accept failed since one did not
    session    \* the sessions, and the connections that have none yet

vars == <<tls, endpoint, errorCnt, inRow, session>>

\* Which operation a session waits for; `away' and `waiting' connections have none.
Pc == {"away", "waiting", "handshake", "read", "deny", "reply", "shutdown", "ended"}

\* A response on the wire: to which request, by whom, and its Connection header.
Response == [request : 1..MaxRequests, by : {"server", "handler"}, keepAlive : BOOLEAN]

(* The last three fields are history: what the client has received, which  *)
(* requests were authorized, and the header of the last one.               *)
SessionType ==
    [pc : Pc, close : BOOLEAN, out : Seq(Response), authorized : Seq(BOOLEAN), header : HeaderType]

-----------------------------------------------------------------------------
(* Base64Encode, as numbers in the alphabet of 64, 64 being the `='.  The  *)
(* state of the loop is val, which is never masked, valb and the output.   *)

\* The characters that the inner loop takes from val, valb bits being left over.
Pushed(val, valb) ==
    LET first == (val \div 2^valb) % 64
    IN  IF valb < 6 THEN <<first>> ELSE <<first, (val \div 2^(valb - 6)) % 64>>

EncodeByte(s, c) ==
    LET val  == (s.val * 256 + c) % IntMod
        valb == s.valb + 8
    IN  [val |-> val, valb |-> IF valb < 6 THEN valb - 6 ELSE valb - 12,
         out |-> s.out \o Pushed(val, valb)]

\* The loop over the bytes.
Encoded(in) ==
    LET at[i \in 0..Len(in)] ==
          IF i = 0 THEN [val |-> 0, valb |-> -6, out |-> << >>]
          ELSE EncodeByte(at[i - 1], in[i])
    IN  at[Len(in)]

\* Mutant: the bits that are left at the end are not shifted up.
Base64EncodeUnshifted(in) ==
    LET s    == Encoded(in)
        rest == IF s.valb > -6 THEN <<s.val % 64>> ELSE << >>
        out  == s.out \o rest
    IN  out \o [i \in 1..((4 - (Len(out) % 4)) % 4) |-> 64]

Base64Encode(in) ==
    LET s    == Encoded(in)
        last == ((s.val * 256) % IntMod) \div 2^(s.valb + 8)
        rest == IF s.valb > -6 THEN <<last % 64>> ELSE << >>
        out  == s.out \o rest
    IN  out \o [i \in 1..((4 - (Len(out) % 4)) % 4) |-> 64]

\* The token as a client makes it, by the book: 24 bits at a time, zeros added.
ClientToken(in) ==
    LET at(i)   == IF i <= Len(in) THEN in[i] ELSE 0
        group(k) == (at(3 * k - 2) * 256 + at(3 * k - 1)) * 256 + at(3 * k)
        char(k, j) == IF 3 * k - 4 + j > Len(in) THEN 64
                      ELSE (group(k) \div 64^(4 - j)) % 64
    IN  [m \in 1..(4 * ((Len(in) + 2) \div 3)) |-> char((m + 3) \div 4, 1 + ((m - 1) % 4))]

Colon == 58
Concat(user) == user.name \o <<Colon>> \o user.passwd

\* Authenticate: what stands before the space is not looked at.
Authenticate(h) ==
    /\ h.form = "token"
    /\ \E i \in DOMAIN Users : Base64Encode(Concat(Users[i])) = ClientToken(h.credentials)

-----------------------------------------------------------------------------
(* Listen: the endpoint.                                                   *)

NoHeader == [form |-> "none", credentials |-> << >>]
NewSession ==
    [pc |-> "away", close |-> FALSE, out |-> << >>, authorized |-> << >>, header |-> NoHeader]

Init ==
    /\ tls \in TlsChoice
    /\ endpoint = "setup"
    /\ errorCnt = 0
    /\ inRow = 0
    /\ session = [c \in Conn |-> NewSession]

\* Open, set the options, read the certificate and key, bind, listen: the first
\* error ends the coroutine.
SetUp(ok) ==
    /\ endpoint = "setup"
    /\ endpoint' = IF ok THEN "accepting" ELSE "stopped"
    /\ UNCHANGED <<tls, errorCnt, inRow, session>>

Connect(c) ==
    /\ session[c].pc = "away"
    /\ endpoint = "accepting"
    /\ session' = [session EXCEPT ![c].pc = "waiting"]
    /\ UNCHANGED <<tls, endpoint, errorCnt, inRow>>

Accepting == endpoint = "accepting" /\ errorCnt < MaxErrors

\* Mutant: errorCnt is not set back.
AcceptCounting(c) ==
    /\ Accepting
    /\ session[c].pc = "waiting"
    /\ inRow' = 0
    /\ session' = [session EXCEPT ![c].pc = IF tls THEN "handshake" ELSE "read"]
    /\ UNCHANGED <<tls, endpoint, errorCnt>>

\* Mutant: after an error the loop does not accept any more.
AcceptUntilError(c) ==
    /\ Accepting /\ errorCnt = 0
    /\ session[c].pc = "waiting"
    /\ inRow' = 0
    /\ session' = [session EXCEPT ![c].pc = IF tls THEN "handshake" ELSE "read"]
    /\ UNCHANGED <<tls, endpoint, errorCnt>>

\* A session is spawned, which starts with the handshake or with the first request.
Accept(c) ==
    /\ Accepting
    /\ session[c].pc = "waiting"
    /\ errorCnt' = 0
    /\ inRow' = 0
    /\ session' = [session EXCEPT ![c].pc = IF tls THEN "handshake" ELSE "read"]
    /\ UNCHANGED <<tls, endpoint>>

\* Mutant: the loop goes on whatever the count.
AcceptFailsForever ==
    /\ endpoint = "accepting" /\ errorCnt < 2 * MaxErrors
    /\ errorCnt' = errorCnt + 1
    /\ inRow' = inRow + 1
    /\ UNCHANGED <<tls, endpoint, session>>

AcceptFails ==
    /\ Accepting
    /\ errorCnt' = errorCnt + 1
    /\ inRow' = inRow + 1
    /\ endpoint' = IF errorCnt' < MaxErrors THEN endpoint ELSE "stopped"
    /\ UNCHANGED <<tls, session>>

-----------------------------------------------------------------------------
(* DoSession.  The session of c waits for an operation of the kind pc, and *)
(* goes on with s.                                                         *)

GoesOn(c, pc, s) ==
    /\ session[c].pc = pc
    /\ session' = [session EXCEPT ![c] = s]
    /\ UNCHANGED <<tls, endpoint, errorCnt, inRow>>

\* A session that has ended leaves nothing behind.
At(c, pc) ==
    IF pc = "ended" THEN [NewSession EXCEPT !.pc = "ended"]
    ELSE [session[c] EXCEPT !.pc = pc, !.header = NoHeader]

\* The top of the loop: remote_endpoint() throws if the client has gone meanwhile.
Loop == {"read", "ended"}

\* The end of a handshake: the loop begins.
Handshake(c) == \E pc \in Loop : GoesOn(c, "handshake", At(c, pc))

\* How many requests of c were read.
Requests(c) == Len(session[c].authorized)

Answer(n, by, close) == [request |-> n, by |-> by, keepAlive |-> ~close]

\* Mutant: the Connection header is decided before the handler is asked.
HandleLate(s, closes) ==
    [s EXCEPT !.pc = "reply", !.close = @ \/ closes,
              !.out = Append(@, Answer(Len(s.authorized), "handler", s.close))]

\* The handler is called, its reply `closes' or not, and the response is on its way.
Handle(s, closes) ==
    [s EXCEPT !.pc = "reply", !.close = @ \/ closes,
              !.out = Append(@, Answer(Len(s.authorized), "handler", s.close \/ closes))]

\* Access denied: a response of the server's own is on its way.
Deny(s) ==
    [s EXCEPT !.pc = "deny", !.out = Append(@, Answer(Len(s.authorized), "server", s.close))]

\* A request is read.
Read(c, h, keepAlive) ==
    LET authorized == Authenticate(h)
        s == [session[c] EXCEPT !.close = @ \/ ~keepAlive,
                                !.authorized = Append(@, authorized),
                                !.header = h]
    IN  /\ session[c].pc = "read"
        /\ Requests(c) < MaxRequests
        /\ \/ authorized /\ \E closes \in BOOLEAN : GoesOn(c, "read", Handle(s, closes))
           \/ ~authorized /\ GoesOn(c, "read", Deny(s))

EndOfStream(c) == GoesOn(c, "read", At(c, "shutdown"))

\* Access was denied; the request is handled all the same.
Denied(c) == \E closes \in BOOLEAN : GoesOn(c, "deny", Handle(session[c], closes))

\* The response has been written.
Replied(c) ==
    \/ session[c].close /\ GoesOn(c, "reply", At(c, "shutdown"))
    \/ ~session[c].close /\ \E pc \in Loop : GoesOn(c, "reply", At(c, pc))

\* The connection is shut down, by TLS or by TCP; errors are ignored.
ShutDown(c) == GoesOn(c, "shutdown", At(c, "ended"))

\* What a failed write has not written.
Unwritten(c, pc) == [At(c, pc) EXCEPT !.out = IF @ = << >> THEN @ ELSE Front(@)]

\* Mutant: a failed write of a response is not noticed.
FailsUnnoticed(c) ==
    \/ GoesOn(c, "handshake", At(c, "ended"))
    \/ GoesOn(c, "read", At(c, "ended"))
    \/ GoesOn(c, "deny", Unwritten(c, "shutdown"))
    \/ GoesOn(c, "reply", Unwritten(c, "read"))
    \/ tls /\ GoesOn(c, "shutdown", At(c, "ended"))

\* Mutant: no time limit is set for the handshake.
FailsLater(c) ==
    \/ GoesOn(c, "read", At(c, "ended"))
    \/ GoesOn(c, "deny", Unwritten(c, "shutdown"))
    \/ GoesOn(c, "reply", Unwritten(c, "ended"))
    \/ tls /\ GoesOn(c, "shutdown", At(c, "ended"))

(* An operation ends with an error, which is the timer's if nothing else   *)
(* happens: expires_after covers the handshake (5 s), the request and its  *)
(* responses (30 s), and the shutdown of TLS (30 s).                       *)
Fails(c) ==
    \/ GoesOn(c, "handshake", At(c, "ended"))
    \/ GoesOn(c, "read", At(c, "ended"))
    \/ GoesOn(c, "deny", Unwritten(c, "shutdown"))
    \/ GoesOn(c, "reply", Unwritten(c, "ended"))
    \/ tls /\ GoesOn(c, "shutdown", At(c, "ended"))

Idle ==
    /\ endpoint # "setup"
    /\ \A c \in Conn : session[c].pc \in {"away", "waiting", "ended"}
    /\ UNCHANGED vars

Next ==
    \/ \E ok \in BOOLEAN : SetUp(ok)
    \/ AcceptFails
    \/ \E c \in Conn :
        \/ Connect(c) \/ Accept(c) \/ Handshake(c) \/ EndOfStream(c)
        \/ \E h \in Header, keepAlive \in BOOLEAN : Read(c, h, keepAlive)
        \/ Denied(c) \/ Replied(c) \/ ShutDown(c) \/ Fails(c)
    \/ Idle

(* Every operation ends: a session's by its timer, except the shutdown of  *)
(* TCP, which does not wait; async_accept when a connection waits.  That a *)
(* client does anything is not assumed.                                    *)
Ends(c) == Fails(c) \/ (~tls /\ ShutDown(c))

Fairness == \A c \in Conn : WF_vars(Ends(c)) /\ WF_vars(Accept(c))

Spec == Init /\ [][Next]_vars /\ Fairness

-----------------------------------------------------------------------------
(* Properties.                                                             *)

\* The variables have the values their C++ types and the code allow; errors of the
\* accept loop never exceed maxErrors.
TypeOK ==
    /\ tls \in BOOLEAN
    /\ endpoint \in {"setup", "accepting", "stopped"}
    /\ errorCnt \in 0..MaxErrors
    /\ inRow \in Nat
    /\ session \in [Conn -> SessionType]

\* A client may rely on the Connection header: while the server reads on, the last
\* thing it said was "keep-alive"; if it closes the connection after a response,
\* that was "close", and no other request is answered after it; although the
\* request, a denial and the handler each have a say (DoSession).
ConnectionHeaderKept ==
    \A c \in Conn :
        LET out == session[c].out IN
        /\ session[c].pc = "read" /\ out # << >> => Last(out).keepAlive
        /\ session[c].pc = "reply" /\ session[c].close => ~Last(out).keepAlive
        /\ \A i, j \in DOMAIN out :
            i < j /\ ~out[i].keepAlive => out[j].request = out[i].request

\* Responses come in the order of their requests, at most one of a kind for each, and
\* a denial before what the handler says.
InOrder(out) ==
    \A i, j \in DOMAIN out : i < j =>
        \/ out[i].request < out[j].request
        \/ out[i].request = out[j].request /\ out[i].by = "server" /\ out[j].by = "handler"

\* What has been said to a client, and what its requests should have led to.
Said(out) == {<<out[i].request, out[i].by>> : i \in DOMAIN out}
Due(authorized) ==
    {<<n, "handler">> : n \in DOMAIN authorized} \cup
    {<<n, "server">> : n \in {n \in DOMAIN authorized : ~authorized[n]}}

\* When the server reads on, every request so far has the handler's response, once
\* and in order, after a denial if it was not authorized: the pipelined requests of
\* one connection never share or skip a response (DoSession).
EveryRequestAnswered ==
    \A c \in Conn :
        session[c].pc = "read" =>
            InOrder(session[c].out) /\ Said(session[c].out) = Due(session[c].authorized)

\* Who presents the name and password of a user is authorized, and nobody else:
\* Base64Encode, whose accumulator overflows, makes the token of RFC 4648 of every
\* length of credentials (Authenticate, Base64Encode).
AuthorizedExactly ==
    \A c \in Conn :
        session[c].pc \in {"deny", "reply"} =>
            LET h == session[c].header IN
            Last(session[c].authorized) <=>
                h.form = "token" /\ \E u \in Range(Users) : h.credentials = Concat(u)

\* An endpoint that was set up stops accepting only after maxErrors errors with no
\* connection between them (Listen: "allow `maxErrors` to occur before giving up").
GivesUpAfterRow ==
    [][endpoint = "accepting" /\ endpoint' = "stopped" => inRow' = MaxErrors]_vars

\* No client can hold a session for ever by being silent, at whatever point: once
\* accepted it ends, if only a bounded number of requests arrive (expires_after).
SessionsEnd ==
    \A c \in Conn : session[c].pc \notin {"away", "waiting"} ~> session[c].pc = "ended"

\* A connection that waits is accepted, or the endpoint has given up: an error of
\* async_accept does not end the loop (Listen).
ConnectionsServed ==
    \A c \in Conn : session[c].pc = "waiting" ~> session[c].pc # "waiting" \/ endpoint = "stopped"
=============================================================================
