------------------------------ MODULE Sockets ------------------------------
(***************************************************************************)
(* The TCP connections of the chat server: what the classes                *)
(* networking::socket and networking::socket_server keep and return        *)
(* (socket.cpp, socket_server.cpp), and, as far as those calls depend on   *)
(* it, the kernel and the peer at the other end.                           *)
(*                                                                         *)
(* Operators whose name starts with Peer, and Connect, are steps of the    *)
(* environment; the others are the effects of the calls the server makes.  *)
(***************************************************************************)
EXTENDS Codec, FiniteSets

CONSTANTS
    Conn,           \* connections a peer may ever make, each used once
    Faults,         \* what the peers and the network may do: see below
    ListenBacklog,  \* pending connections the kernel keeps: 20 in the code
    SendBuffer,     \* responses a connection holds before a write blocks
    MaxFds,         \* descriptors the process may hold for connections
    MaxUnread,      \* a peer writes while fewer segments than this wait
    MaxSends        \* bound: requests all peers together write

(***************************************************************************)
(* "fin": a peer may close its socket.  "rst": a peer may abort, or close  *)
(* with responses unread, which the kernel turns into a reset.  "split":   *)
(* the network may deliver a request in two parts.                         *)
(***************************************************************************)
ASSUME FaultsAssumption == Faults \subseteq {"fin", "rst", "split"}

\* What the process holds of them can be counted.
ASSUME ConnAssumption == IsFiniteSet(Conn)

ASSUME BoundsAssumption ==
    /\ ListenBacklog \in Nat
    /\ SendBuffer \in Nat
    /\ MaxFds \in Nat
    /\ MaxUnread \in Nat
    /\ MaxSends \in Nat

VARIABLES
    open,       \* sockets whose _open flag is set
    held,       \* connections whose descriptor the process has not closed
    listening,  \* the listening socket has not been shut down
    backlog,    \* connections the kernel completed and nobody accepted
    peer,       \* state of the other end of each connection
    inbox,      \* text the peer wrote and the server has not read
    outbox,     \* number of responses written and not yet read by the peer
    sent        \* number of requests written so far

serverSideVars == <<open, held, listening, backlog>>
peerSideVars   == <<peer, inbox, outbox, sent>>
socketVars     == <<open, held, listening, backlog,
                    peer, inbox, outbox, sent>>

(***************************************************************************)
(* "absent": not connected yet.  "up": connected.  "closed": the peer has  *)
(* closed, its FIN is in the inbox after the last text.  "dead": closed,   *)
(* and a later response was answered by a reset.  "reset": aborted.        *)
(***************************************************************************)
PeerState == {"absent", "up", "closed", "dead", "reset"}

SocketsTypeOK ==
    /\ open \in SUBSET Conn
    /\ held \in SUBSET Conn
    /\ listening \in BOOLEAN
    /\ backlog \in SUBSET Conn
    /\ peer \in [Conn -> PeerState]
    /\ inbox \in [Conn -> Seq(Segment)]
    /\ outbox \in [Conn -> Nat]
    /\ sent \in Nat

SocketsInit ==
    /\ open = {}
    /\ held = {}
    /\ listening = TRUE
    /\ backlog = {}
    /\ peer = [c \in Conn |-> "absent"]
    /\ inbox = [c \in Conn |-> << >>]
    /\ outbox = [c \in Conn |-> 0]
    /\ sent = 0

-----------------------------------------------------------------------------
(* The environment. *)

\* A peer connects; the kernel completes the handshake by itself.
Connect(c) ==
    /\ peer[c] = "absent"
    /\ listening
    /\ Cardinality(backlog) < ListenBacklog
    /\ peer' = [peer EXCEPT ![c] = "up"]
    /\ backlog' = backlog \cup {c}
    /\ UNCHANGED <<open, held, listening, inbox, outbox, sent>>

\* The texts by which a request may travel.
Texts(r) == {Whole(r)} \cup (IF "split" \in Faults THEN Halves(r) ELSE {})

PeerSend(c) ==
    /\ peer[c] = "up"
    /\ sent < MaxSends
    /\ Len(inbox[c]) < MaxUnread
    /\ \E r \in Requests : \E text \in Texts(r) :
            inbox' = [inbox EXCEPT ![c] = @ \o text]
    /\ sent' = sent + 1
    /\ UNCHANGED <<serverSideVars, peer, outbox>>

PeerRead(c) ==
    /\ peer[c] = "up"
    /\ outbox[c] > 0
    /\ outbox' = [outbox EXCEPT ![c] = @ - 1]
    /\ UNCHANGED <<serverSideVars, peer, inbox, sent>>

\* An orderly close, with nothing left unread on the peer's side.
PeerClose(c) ==
    /\ "fin" \in Faults
    /\ peer[c] = "up"
    /\ outbox[c] = 0
    /\ peer' = [peer EXCEPT ![c] = "closed"]
    /\ UNCHANGED <<serverSideVars, inbox, outbox, sent>>

\* An abortive close: what the server has not received by then is lost.
PeerReset(c) ==
    /\ "rst" \in Faults
    /\ peer[c] = "up"
    /\ peer' = [peer EXCEPT ![c] = "reset"]
    /\ \E k \in 0 .. Len(inbox[c]) :
            inbox' = [inbox EXCEPT ![c] = SubSeq(@, 1, k)]
    /\ UNCHANGED <<serverSideVars, outbox, sent>>

PeerStep(c) ==
    \/ Connect(c)
    \/ PeerSend(c)
    \/ PeerRead(c)
    \/ PeerClose(c)
    \/ PeerReset(c)

-----------------------------------------------------------------------------
(* socket_server. *)

\* Mutant of AcceptFails: the limit is taken for one less than it is.
AcceptFails_OneEarly == Cardinality(held) + 1 >= MaxFds

\* accept() fails, and throws, when the process is out of descriptors.
AcceptFails == Cardinality(held) >= MaxFds

\* accept() returns a pending connection, wrapped in an open socket.
Accept(c) ==
    /\ ~AcceptFails
    /\ backlog' = backlog \ {c}
    /\ held' = held \cup {c}
    /\ open' = open \cup {c}

\* close() only shuts the listening socket down.
ShutDownServerSocket == listening' = FALSE

-----------------------------------------------------------------------------
(* socket::read, for a socket that is open. *)

Ended(c) == peer[c] \in {"closed", "dead"}

\* What select() reports: recv() would not block.
Readable(c) == inbox[c] # << >> \/ Ended(c) \/ peer[c] = "reset"

\* recv() returns text, as much as has arrived: any part but none.
ReadText(c, k) ==
    /\ k \in 1 .. Len(inbox[c])
    /\ inbox' = [inbox EXCEPT ![c] = SubSeq(@, k + 1, Len(@))]

\* recv() returns 0: the flag falls, the descriptor stays.
ReadEnd(c) ==
    /\ inbox[c] = << >>
    /\ Ended(c)
    /\ open' = open \ {c}

\* recv() returns -1.
ReadFails(c) ==
    /\ inbox[c] = << >>
    /\ peer[c] = "reset"

-----------------------------------------------------------------------------
(* socket::write, for a socket that is open. *)

(***************************************************************************)
(* Writing to a peer that closed succeeds; the peer answers with a reset,  *)
(* at once or later, and the write after that raises SIGPIPE, which        *)
(* nothing in the program blocks or handles.                               *)
(***************************************************************************)
WriteKills(c) == peer[c] = "dead"

\* write() blocks while the connection is up and its buffer is full.
WriteText(c) ==
    \/ /\ peer[c] = "up"
       /\ outbox[c] < SendBuffer
       /\ outbox' = [outbox EXCEPT ![c] = @ + 1]
       /\ UNCHANGED peer
    \/ /\ peer[c] = "closed"
       /\ \E answer \in {"closed", "dead"} :
                peer' = [peer EXCEPT ![c] = answer]
       /\ UNCHANGED outbox

\* Mutant of WriteFailure: a full buffer counts as an error as well.
WriteFailure_WouldBlock(c) ==
    /\ \/ peer[c] = "reset"
       \/ peer[c] = "up" /\ outbox[c] >= SendBuffer
    /\ open' = open \ {c}

\* write() returns -1 and the flag falls.
WriteFailure(c) ==
    /\ peer[c] = "reset"
    /\ open' = open \ {c}

-----------------------------------------------------------------------------
(* socket::close on every socket of a collection: those open are closed. *)
CloseAll(collection) ==
    /\ open' = open \ collection
    /\ held' = held \ (open \cap collection)
=============================================================================
