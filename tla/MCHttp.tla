------------------------------- MODULE MCHttp -------------------------------
(***************************************************************************)
(* A small instance of HttpServer: two clients, and users whose            *)
(* credentials have every length modulo 3; the headers have the            *)
(* credentials of most of them, and some that are one byte off.            *)
(***************************************************************************)
EXTENDS HttpServer

CONSTANTS c1, c2

MCUsers == <<[name |-> <<97>>, passwd |-> <<255>>],
             [name |-> <<97, 98>>, passwd |-> << >>],
             [name |-> <<97, 98>>, passwd |-> <<7>>],
             [name |-> <<200, 201>>, passwd |-> <<129, 255>>]>>

T(bytes) == [form |-> "token", credentials |-> bytes]
OneWord  == [form |-> "word", credentials |-> << >>]

MCHeader ==
    {NoHeader, OneWord} \cup
    {T(b) : b \in {<<97, 58, 255>>, <<97, 98, 58, 7>>, <<200, 201, 58, 129, 255>>,
                   <<97, 98, 58>>, <<97, 98, 58, 1>>, << >>}}
=============================================================================
