-------------------------- MODULE ChatServerClaims --------------------------
(***************************************************************************)
(* More properties of ChatServer: that it implements ChatRoom, that it     *)
(* loses no request, and what comments and documentation of the code say   *)
(* of it.                                                                  *)
(***************************************************************************)
EXTENDS ChatServer, Functions

(***************************************************************************)
(* The room is the vector of sockets.  A member is lost when its socket is *)
(* no longer open; a post is a queued response; the round is the number of *)
(* responses sendMessages is done with.                                    *)
(***************************************************************************)
Room == INSTANCE ChatRoom WITH
            members <- sockets,
            name    <- username,
            lost    <- sockets \ open,
            posted  <- enqueued,
            round   <- Done,
            heard   <- last

\* The two threads together implement the room: every step is one of its
\* steps, or changes nothing that a member can tell.
ImplementsRoom == Room!Spec

(***************************************************************************)
(* No request vanishes: as long as the server lives and no connection was  *)
(* aborted, each request written is queued for everybody, refused, being   *)
(* handled, or has its end still in an inbox.  json::from drops text after *)
(* the last brace and onSocket parses one request per read, so a text with *)
(* two requests must not be taken for one.                                 *)
(***************************************************************************)
Ends(text) ==
    { i \in 1 .. Len(text) : text[i].piece \in {"whole", "tail"} }

Unread == [c \in Conn |-> Cardinality(Ends(inbox[c]))]

InHand == pcL \in {"visitLogin", "associate", "enqueue", "reply"}

RequestsAccounted ==
    (fate = "running" /\ \A c \in Conn : peer[c] # "reset") =>
        sent = enqueued + refused + (IF InHand THEN 1 ELSE 0)
                    + SumFunction(Unread)

-----------------------------------------------------------------------------
(* What the code says of itself. *)

(***************************************************************************)
(* socket.hpp:141, of read(): "-1 if an error, 0 if disconnected and the   *)
(* amount of bytes read otherwise."  read() keeps to that; its caller, the *)
(* handler onSocket, should then parse only what was read: no request is   *)
(* malformed where clients send whole ones, one at a time.                 *)
(***************************************************************************)
ParsesOnlyText == fate # "parse"

(***************************************************************************)
(* server.cpp:105: "Find socket in client socket array that closed; remove *)
(* it and break".  An orderly close is an event the server handles, so it  *)
(* does not end the process.                                               *)
(***************************************************************************)
CloseIsHandled == fate \notin {"write_closed", "sigpipe"}
=============================================================================
