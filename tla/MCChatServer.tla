---------------------------- MODULE MCChatServer ----------------------------
(***************************************************************************)
(* Instances of ChatServer for TLC: who is there, and what the clients     *)
(* send.                                                                   *)
(***************************************************************************)
EXTENDS ChatServerClaims, TLC

CONSTANTS c1, c2        \* connections
CONSTANTS ann, bob      \* user names

Of(types, names) == [type: types, sender: names]

\* Clients that only log in, that log in and chat, and that also send text
\* with a type tag the server does not know.
LoginRequests == Of({"login"}, {ann, bob})
ChatRequests  == Of({"login"}, {ann, bob}) \cup Of({"message"}, {NoName})
OneLogin      == Of({"login"}, {ann})
OddRequests   == Of(RequestType, {ann})

OneConn    == {c1}
TwoConns   == {c1, c2}
OneName    == {ann}
TwoNames   == {ann, bob}

\* The connections are interchangeable, and so are the names of a person.
Symmetry == Permutations(Conn) \cup Permutations(Name)
=============================================================================
