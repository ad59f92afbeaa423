-------------------------- MODULE ChatServerCrashes --------------------------
(***************************************************************************)
(* The process dies only of what peers or the operator did, for all values *)
(* of the constants.  A cause is seen long after it happened: a socket     *)
(* falls in one step, and the step that finds it fallen throws.  So the    *)
(* invariant says of every socket that is not open why it is not.          *)
(***************************************************************************)
EXTENDS ChatServerBroadcast, FiniteSetTheorems

Departed == {"closed", "dead", "reset"}

\* Accepted at some time; a connection is used once, so this never ends.
Accepted(c) == c \notin backlog /\ peer[c] # "absent"

\* What is open, being handled or being written to was accepted.
AcceptedInv ==
    /\ \A c \in open : Accepted(c)
    /\ cur # NoConn => Accepted(cur)
    /\ \A c \in todo : Accepted(c)

\* What was accepted and is not open has lost its peer, or stop() closed it.
FallenInv ==
    \A c \in Conn : Accepted(c) => c \in open \/ killed \/ peer[c] \in Departed

\* What select() watches and is not open fell in a write to a broken peer.
WatchedInv ==
    pcL = "select" => \A c \in watched : c \in open \/ peer[c] = "reset"

\* A descriptor is held for an accepted connection.
HeldInv == \A c \in held : Accepted(c)

CrashInv == AcceptedInv /\ FallenInv /\ WatchedInv /\ CrashHasCause

LEMMA CrashInvInit == Init => CrashInv
<1> SUFFICES ASSUME Init PROVE CrashInv
  OBVIOUS
<1> USE DEF Init, SocketsInit, FlexWaiterInit
<1>1. AcceptedInv
  BY DEF AcceptedInv
<1>2. FallenInv
  BY DEF FallenInv, Accepted
<1>3. WatchedInv
  BY DEF WatchedInv
<1>4. CrashHasCause
  BY DEF CrashHasCause
<1> QED
  BY <1>1, <1>2, <1>3, <1>4 DEF CrashInv

-----------------------------------------------------------------------------
(* Frames: what most of the steps leave alone. *)

\* A process that runs has not died yet.
LEMMA RunningHasNoCause ==
    ASSUME fate' = "running"
    PROVE  CrashHasCause'
  BY DEF CrashHasCause

\* The process dies: nothing else changes, so its cause is still there.
LEMMA CrashDie ==
    ASSUME CrashInv, NEW cause, Die(cause), CrashHasCause'
    PROVE  CrashInv'
  BY DEF Die, CrashInv, AcceptedInv, FallenInv, WatchedInv, Accepted,
     socketVars, waiterVars, vectorVars, queueVars, listenerVars, senderVars

\* What becomes of a peer that is not absent.
PeerMoves ==
    \A c \in Conn :
        \/ peer'[c] = peer[c]
        \/ peer[c] = "up" /\ peer'[c] \in {"closed", "reset"}
        \/ peer[c] = "closed" /\ peer'[c] = "dead"

\* No connection comes or is accepted, and a socket falls for a reason.
LEMMA CrashFrame ==
    ASSUME Inv, CrashInv, PeerMoves, backlog' = backlog, fate' = "running",
           killed => killed', cur' \in {cur, NoConn}, todo' \subseteq todo,
           open' \subseteq open,
           \A c \in open \ open' : killed' \/ peer'[c] \in Departed,
           pcL' = "select" =>
                /\ pcL = "select" /\ watched' = watched
                /\ \A c \in open \ open' : peer'[c] = "reset"
    PROVE  CrashInv'
<1>1. /\ open \subseteq Conn /\ todo \subseteq Conn /\ watched \subseteq Conn
      /\ cur \in Conn \cup {NoConn}
  BY DEF Inv, TypeOK, SocketsTypeOK, FlexWaiterTypeOK
<1>2. \A c \in Conn : Accepted(c)' <=> Accepted(c)
  BY DEF PeerMoves, Accepted
<1>3. AcceptedInv'
  BY <1>1, <1>2 DEF CrashInv, AcceptedInv
<1>4. FallenInv'
  <2> SUFFICES ASSUME NEW c \in Conn, Accepted(c)
               PROVE  c \in open' \/ killed' \/ peer'[c] \in Departed
    BY <1>2 DEF FallenInv
  <2> QED
    BY DEF CrashInv, FallenInv, PeerMoves, Departed
<1>5. WatchedInv'
  BY <1>1 DEF CrashInv, WatchedInv, PeerMoves
<1> QED
  BY <1>3, <1>4, <1>5, RunningHasNoCause DEF CrashInv

\* The steps that do not even concern the sockets.
LEMMA CrashQuietFrame ==
    ASSUME Inv, CrashInv, UNCHANGED <<peer, backlog, open, killed>>,
           fate' = "running", cur' \in {cur, NoConn}, todo' \subseteq todo,
           pcL' = "select" => pcL = "select" /\ watched' = watched
    PROVE  CrashInv'
  BY CrashFrame DEF PeerMoves

\* A write lets a socket fall only if its peer broke the connection.
LEMMA WriteMoves ==
    ASSUME Inv, NEW c \in Conn,
           \/ WriteText(c) /\ UNCHANGED open
           \/ WriteFailure(c) /\ UNCHANGED <<peer, outbox>>
    PROVE  /\ PeerMoves
           /\ open' \subseteq open
           /\ \A d \in open \ open' : peer'[d] = "reset"
<1>1. peer \in [Conn -> PeerState]
  BY DEF Inv, TypeOK, SocketsTypeOK
<1>2. CASE WriteFailure(c) /\ UNCHANGED <<peer, outbox>>
  BY <1>2 DEF WriteFailure, PeerMoves
<1>3. CASE WriteText(c) /\ UNCHANGED open
  BY <1>1, <1>3 DEF WriteText, PeerMoves
<1> QED
  BY <1>2, <1>3

-----------------------------------------------------------------------------
(* The peers. *)

LEMMA CrashEnvironment ==
    ASSUME Inv, CrashInv, Peers \/ Operator
    PROVE  CrashInv'
<1>1. CASE Operator
  BY <1>1, CrashQuietFrame DEF Operator, Type, socketVars, listenerVars,
     senderVars
<1>2. CASE Peers
  <2>1. PICK c \in Conn : PeerStep(c)
    BY <1>2 DEF Peers
  <2>2. /\ fate' = "running"
        /\ UNCHANGED <<killed, pcL, cur, todo, watched>>
        /\ peer \in [Conn -> PeerState]
    BY <1>2 DEF Peers, Inv, TypeOK, SocketsTypeOK, waiterVars, listenerVars,
       senderVars
  <2>3. CASE Connect(c)
    <3>1. /\ peer[c] = "absent" /\ peer' = [peer EXCEPT ![c] = "up"]
          /\ backlog' = backlog \cup {c} /\ open' = open
      BY <2>3 DEF Connect
    <3>2. /\ ~Accepted(c) /\ ~Accepted(c)'
          /\ \A d \in Conn \ {c} :
                peer'[d] = peer[d] /\ (Accepted(d)' <=> Accepted(d))
      BY <2>2, <3>1 DEF Accepted
    <3>3. /\ open \subseteq Conn /\ todo \subseteq Conn
          /\ watched \subseteq Conn /\ cur \in Conn \cup {NoConn}
      BY DEF Inv, TypeOK, SocketsTypeOK, FlexWaiterTypeOK
    <3>4. AcceptedInv'
      BY <2>2, <3>1, <3>2, <3>3 DEF CrashInv, AcceptedInv
    <3>5. FallenInv'
      BY <2>2, <3>1, <3>2 DEF CrashInv, FallenInv
    <3>6. WatchedInv'
      BY <2>2, <3>1, <3>2, <3>3 DEF CrashInv, WatchedInv
    <3> QED
      BY <2>2, <3>4, <3>5, <3>6, RunningHasNoCause DEF CrashInv
  <2>4. CASE PeerSend(c) \/ PeerRead(c)
    BY <2>2, <2>4, CrashQuietFrame DEF PeerSend, PeerRead, serverSideVars
  <2>5. CASE PeerClose(c) \/ PeerReset(c)
    <3>1. PeerMoves /\ UNCHANGED <<open, backlog>>
      BY <2>2, <2>5 DEF PeerClose, PeerReset, serverSideVars, PeerMoves
    <3> QED
      BY <2>2, <3>1, CrashFrame
  <2> QED
    BY <2>1, <2>3, <2>4, <2>5 DEF PeerStep
<1> QED
  BY <1>1, <1>2

-----------------------------------------------------------------------------
(* The listening thread. *)

\* At the limit, those that hold a descriptor and the one that is pending
\* are more peers than there are descriptors.
LEMMA LimitHasCause ==
    ASSUME Inv, HeldInv, AcceptFails, NEW c \in backlog, peer[c] # "absent"
    PROVE  Cardinality(Connected) > MaxFds
<1>1. Connected \subseteq Conn /\ held \subseteq Conn /\ c \in Conn
  BY DEF Connected, Inv, TypeOK, SocketsTypeOK
<1>2. held \cup {c} \subseteq Connected /\ c \notin held
  BY <1>1 DEF HeldInv, Accepted, Connected
<1>3. IsFiniteSet(Connected) /\ IsFiniteSet(held)
  BY <1>1, ConnAssumption, FS_Subset
<1>4. Cardinality(held \cup {c}) = Cardinality(held) + 1
  BY <1>2, <1>3, FS_AddElement
<1>5. Cardinality(held \cup {c}) <= Cardinality(Connected)
  BY <1>2, <1>3, FS_Subset
<1>6. Cardinality(held) \in Nat /\ Cardinality(Connected) \in Nat
  BY <1>3, FS_CardinalityType
<1> QED
  BY <1>4, <1>5, <1>6, BoundsAssumption DEF AcceptFails

LEMMA CrashAccept ==
    ASSUME Inv, BroadcastInv, HeldInv, CrashInv, fate = "running",
           OnSocketServer
    PROVE  CrashInv'
<1>1. CASE Die("accept_error")
  <2>1. PICK c \in backlog : TRUE
    BY DEF OnSocketServer, CallsOnSocketServer, MasterReady
  <2>2. CASE AcceptFails
    <3>1. Cardinality(Connected) > MaxFds
      BY <2>1, <2>2, LimitHasCause DEF BroadcastInv, ConnInv
    <3>2. Connected' = Connected /\ fate' = "accept_error"
      BY <1>1 DEF Die, socketVars, Connected
    <3>3. CrashHasCause'
      BY <3>1, <3>2 DEF CrashHasCause
    <3> QED
      BY <1>1, <3>3, CrashDie
  <2>3. CASE ~AcceptFails
    BY <1>1, <2>3 DEF OnSocketServer, Die
  <2> QED
    BY <2>2, <2>3
<1>2. CASE ~Die("accept_error")
  <2>1. PICK c \in backlog :
            /\ Accept(c)
            /\ pcL' = "adopt" /\ cur' = c
            /\ UNCHANGED <<peer, fate, killed, todo>>
    BY <1>2 DEF OnSocketServer, peerSideVars, senderVars
  <2>2. backlog' = backlog \ {c} /\ open' = open \cup {c}
    BY <2>1 DEF Accept
  <2>3. peer[c] # "absent" /\ c \in Conn
    BY DEF BroadcastInv, ConnInv, Inv, TypeOK, SocketsTypeOK
  <2>4. \A d : Accepted(d)' <=> Accepted(d) \/ d = c
    BY <2>1, <2>2, <2>3 DEF Accepted
  <2>5. AcceptedInv'
    BY <2>1, <2>2, <2>4 DEF CrashInv, AcceptedInv
  <2>6. FallenInv'
    BY <2>1, <2>2, <2>4 DEF CrashInv, FallenInv
  <2>7. WatchedInv'
    BY <2>1 DEF WatchedInv
  <2> QED
    BY <2>1, <2>5, <2>6, <2>7, RunningHasNoCause DEF CrashInv
<1> QED
  BY <1>1, <1>2

\* wait() looks at the flags of the sockets it is about to watch.
LEMMA CrashBeginWait ==
    ASSUME Inv, CrashInv, fate = "running", BeginWait
    PROVE  CrashInv'
<1>1. /\ watched' = waiterSockets \cap open
      /\ UNCHANGED <<peer, backlog, open, killed, cur, todo, fate>>
  BY DEF BeginWait, BuildFdSet, GoTo, socketVars, senderVars
<1>2. AcceptedInv' /\ FallenInv'
  BY <1>1 DEF CrashInv, AcceptedInv, FallenInv, Accepted
<1>3. WatchedInv'
  BY <1>1 DEF WatchedInv
<1> QED
  BY <1>1, <1>2, <1>3, RunningHasNoCause DEF CrashInv

\* A single request in one piece parses.
LEMMA WholeParses ==
    ASSUME NEW text \in Seq(Segment), Len(text) = 1, text[1].piece = "whole"
    PROVE  Parses(text)
  BY DEF Parses, Trimmed

\* Text that makes the process die is such that the peer is to blame.
LEMMA CrashText ==
    ASSUME Inv, CrashInv, fate = "running", NEW c \in Conn, pcL = "select",
           c \in open, OnSocketText(c)
    PROVE  CrashInv'
<1>1. PICK k \in 1 .. Len(inbox[c]) :
        LET text == SubSeq(inbox[c], 1, k)
        IN  \/ ~Parses(text) /\ Die("parse")
            \/ Incomplete(Parsed(text)) /\ Die("bad_object")
            \/ Unknown(Parsed(text)) /\ Die("null_response")
            \/ /\ pcL' \in {"visitLogin", "enqueue"} /\ cur' = c
               /\ UNCHANGED <<peer, open, backlog, killed, todo, fate>>
  BY DEF OnSocketText, AfterParse, serverSideVars, senderVars
<1> DEFINE text == SubSeq(inbox[c], 1, k)
<1>2. inbox[c] \in Seq(Segment)
  BY DEF Inv, TypeOK, SocketsTypeOK
<1>3. text \in Seq(Segment) /\ Len(text) = k /\ text[1] = inbox[c][1]
  BY <1>2
<1>4. CASE ~Parses(text) /\ Die("parse")
  <2>1. Len(inbox[c]) > 1 \/ inbox[c][1].piece # "whole"
    <3> SUFFICES ASSUME ~(Len(inbox[c]) > 1), inbox[c][1].piece = "whole"
                 PROVE  FALSE
      OBVIOUS
    <3>1. Len(text) = 1
      BY <1>2, <1>3
    <3> QED
      BY <1>3, <1>4, <3>1, WholeParses
  <2>2. inbox' = inbox /\ fate' = "parse" /\ 1 \in 1 .. Len(inbox[c])
    BY <1>2, <1>4 DEF Die, socketVars
  <2>3. CrashHasCause'
    BY <2>1, <2>2 DEF CrashHasCause
  <2> QED
    BY <1>4, <2>3, CrashDie
<1>5. CASE Incomplete(Parsed(text)) /\ Die("bad_object")
  <2>1. Incomplete(inbox[c][1].req)
    BY <1>3, <1>5 DEF Parsed
  <2>2. inbox' = inbox /\ fate' = "bad_object" /\ 1 \in 1 .. Len(inbox[c])
    BY <1>2, <1>5 DEF Die, socketVars
  <2>3. CrashHasCause'
    BY <2>1, <2>2 DEF CrashHasCause
  <2> QED
    BY <1>5, <2>3, CrashDie
<1>6. CASE Unknown(Parsed(text)) /\ Die("null_response")
  <2>1. Unknown(inbox[c][1].req)
    BY <1>3, <1>6 DEF Parsed
  <2>2. inbox' = inbox /\ fate' = "null_response" /\ 1 \in 1 .. Len(inbox[c])
    BY <1>2, <1>6 DEF Die, socketVars
  <2>3. CrashHasCause'
    BY <2>1, <2>2 DEF CrashHasCause
  <2> QED
    BY <1>6, <2>3, CrashDie
<1>7. CASE /\ pcL' \in {"visitLogin", "enqueue"} /\ cur' = c
           /\ UNCHANGED <<peer, open, backlog, killed, todo, fate>>
  <2>1. AcceptedInv' /\ FallenInv' /\ WatchedInv'
    BY <1>7 DEF CrashInv, AcceptedInv, FallenInv, WatchedInv, Accepted
  <2> QED
    BY <1>7, <2>1, RunningHasNoCause DEF CrashInv
<1> QED
  BY <1>1, <1>4, <1>5, <1>6, <1>7

LEMMA CrashOnSocket ==
    ASSUME Inv, CrashInv, fate = "running", NEW c \in Conn, OnSocket(c)
    PROVE  CrashInv'
<1>1. pcL = "select" /\ c \in watched
  BY DEF OnSocket, CallsOnSocket, ChildReady
<1>2. CASE c \notin open /\ Die("read_closed")
  <2>1. peer' = peer /\ peer[c] = "reset" /\ fate' = "read_closed"
    BY <1>1, <1>2 DEF CrashInv, WatchedInv, Die, socketVars
  <2>2. CrashHasCause'
    BY <2>1 DEF CrashHasCause, Left
  <2> QED
    BY <1>2, <2>2, CrashDie
<1>3. CASE c \in open /\ OnSocketText(c)
  BY <1>1, <1>3, CrashText
<1>4. CASE /\ c \in open /\ ReadEnd(c) /\ pcL' = "remove" /\ cur' = c
           /\ UNCHANGED <<backlog, peer, fate, killed, todo>>
  <2>1. open' = open \ {c} /\ peer[c] \in Departed
    BY <1>4 DEF ReadEnd, Ended, Departed
  <2>2. AcceptedInv' /\ FallenInv' /\ WatchedInv'
    BY <1>4, <2>1 DEF CrashInv, AcceptedInv, FallenInv, WatchedInv, Accepted
  <2> QED
    BY <1>4, <2>2, RunningHasNoCause DEF CrashInv
<1>5. CASE c \in open /\ ReadFails(c) /\ Die("parse")
  <2>1. peer' = peer /\ peer[c] = "reset" /\ fate' = "parse"
    BY <1>5 DEF ReadFails, Die, socketVars
  <2>2. CrashHasCause'
    BY <2>1 DEF CrashHasCause, Left
  <2> QED
    BY <1>5, <2>2, CrashDie
<1> QED
  BY <1>2, <1>3, <1>4, <1>5 DEF OnSocket, peerSideVars, senderVars

\* A write to a socket that was accepted and is not open has a cause.
LEMMA WriteClosedHasCause ==
    ASSUME CrashInv, NEW c \in Conn, Accepted(c), c \notin open,
           Die("write_closed")
    PROVE  CrashInv'
<1>1. killed \/ peer[c] \in Departed
  BY DEF CrashInv, FallenInv
<1>2. killed' = killed /\ peer' = peer /\ fate' = "write_closed"
  BY DEF Die, socketVars
<1>3. CrashHasCause'
  BY <1>1, <1>2 DEF CrashHasCause, Left, Departed
<1> QED
  BY <1>3, CrashDie

LEMMA SigpipeHasCause ==
    ASSUME CrashInv, NEW c \in Conn, WriteKills(c), Die("sigpipe")
    PROVE  CrashInv'
<1>1. peer' = peer /\ peer[c] = "dead" /\ fate' = "sigpipe"
  BY DEF WriteKills, Die, socketVars
<1>2. CrashHasCause'
  BY <1>1 DEF CrashHasCause, Left
<1> QED
  BY <1>2, CrashDie

LEMMA CrashReply ==
    ASSUME Inv, CrashInv, fate = "running", Reply
    PROVE  CrashInv'
<1>1. cur \in Conn /\ cur # NoConn
  BY NoConnAssumption DEF Reply, Inv, HandlerInv, Handling
<1>2. CASE cur \notin open /\ Die("write_closed")
  BY <1>1, <1>2, WriteClosedHasCause DEF CrashInv, AcceptedInv
<1>3. CASE WriteKills(cur) /\ Die("sigpipe")
  BY <1>1, <1>3, SigpipeHasCause
<1>4. CASE /\ \/ WriteText(cur) /\ UNCHANGED open
              \/ WriteFailure(cur) /\ UNCHANGED <<peer, outbox>>
           /\ pcL' = "listen" /\ cur' = NoConn
           /\ UNCHANGED <<backlog, killed, todo, fate>>
  <2>2. /\ PeerMoves /\ open' \subseteq open
        /\ \A d \in open \ open' : peer'[d] = "reset"
    BY <1>1, <1>4, WriteMoves
  <2> QED
    BY <1>4, <2>2, CrashFrame DEF Departed
<1> QED
  BY <1>2, <1>3, <1>4 DEF Reply, HandlerReturns, senderVars

\* stop() closes every socket, but after the flag was set.
LEMMA CrashShutdown ==
    ASSUME Inv, BroadcastInv, CrashInv, fate = "running",
           Stop \/ EndListen \/ DestroyServer \/ Exit
    PROVE  CrashInv'
<1>1. CASE Stop
  <2>1. /\ open' = open \ sockets /\ killed /\ killed' = killed
        /\ pcL' = "listen" /\ cur' = NoConn
        /\ UNCHANGED <<peer, backlog, todo, fate>>
    BY <1>1 DEF Stop, CloseAll, HandlerReturns, peerSideVars, senderVars,
       BroadcastInv, StopInv
  <2> QED
    BY <2>1, CrashFrame DEF PeerMoves
<1>2. CASE EndListen \/ DestroyServer
  BY <1>2, CrashQuietFrame DEF EndListen, DestroyServer, GoTo, socketVars,
     senderVars
<1>3. CASE Exit
  BY <1>3, CrashDie DEF Exit, Die, CrashHasCause
<1> QED
  BY <1>1, <1>2, <1>3

\* The other steps of the listening thread leave every socket as it is.
LEMMA CrashQuiet ==
    ASSUME Inv, CrashInv, fate = "running",
           \/ Timeout \/ OnStdin \/ ListenerLocksSockets \/ ListenerLocksQueue
           \/ Adopt \/ RemoveEnded \/ VisitLogin \/ Associate \/ Enqueue
    PROVE  CrashInv'
<1> USE DEF socketVars, waiterVars, listenerVars, senderVars, GoTo,
        HandlerReturns
<1>1. CASE Timeout
  BY <1>1, CrashQuietFrame DEF Timeout
<1>2. CASE OnStdin
  <2>1. /\ UNCHANGED <<peer, backlog, open, cur, todo, fate>>
        /\ killed => killed'
        /\ pcL' \in {"stop", "listen"}
    BY <1>2, Zenon DEF OnStdin
  <2> QED
    BY <2>1, CrashFrame DEF PeerMoves
<1>3. CASE ListenerLocksSockets \/ ListenerLocksQueue
  BY <1>3, CrashQuietFrame DEF ListenerLocksSockets, ListenerLocksQueue
<1>4. CASE Adopt \/ RemoveEnded
  BY <1>4, CrashQuietFrame DEF Adopt, RemoveEnded
<1>5. CASE VisitLogin \/ Associate \/ Enqueue
  BY <1>5, CrashQuietFrame DEF VisitLogin, Associate, Enqueue
<1> QED
  BY <1>1, <1>2, <1>3, <1>4, <1>5

LEMMA CrashListener ==
    ASSUME Inv, BroadcastInv, HeldInv, CrashInv, Listener
    PROVE  CrashInv'
  BY CrashAccept, CrashBeginWait, CrashOnSocket, CrashReply, CrashShutdown,
     CrashQuiet DEF Listener

-----------------------------------------------------------------------------
(* The sending thread. *)

LEMMA CrashWrites ==
    ASSUME Inv, CrashInv, fate = "running", NEW c \in Conn, SenderWrites(c)
    PROVE  CrashInv'
<1>1. Accepted(c)
  BY DEF SenderWrites, CrashInv, AcceptedInv
<1>2. CASE c \notin open /\ Die("write_closed")
  BY <1>1, <1>2, WriteClosedHasCause
<1>3. CASE WriteKills(c) /\ Die("sigpipe")
  BY <1>3, SigpipeHasCause
<1>4. CASE /\ \/ WriteText(c) /\ UNCHANGED open
              \/ WriteFailure(c) /\ UNCHANGED <<peer, outbox>>
           /\ todo' = todo \ {c}
           /\ UNCHANGED <<backlog, killed, fate, pcL, cur, watched>>
  <2>2. /\ PeerMoves /\ open' \subseteq open
        /\ \A d \in open \ open' : peer'[d] = "reset"
    BY <1>4, WriteMoves
  <2> QED
    BY <1>4, <2>2, CrashFrame DEF Departed
<1> QED
  BY <1>2, <1>3, <1>4 DEF SenderWrites, listenerVars, waiterVars

LEMMA CrashSender ==
    ASSUME Inv, BroadcastInv, CrashInv, Sender
    PROVE  CrashInv'
<1> USE DEF socketVars, waiterVars, listenerVars
<1>0. fate = "running"
  BY DEF Sender
<1>1. CASE SenderTest \/ SenderLocksQueue
  BY <1>0, <1>1, CrashQuietFrame DEF SenderTest, SenderLocksQueue
<1>2. CASE SenderLocksSockets
  <2>1. /\ todo' = sockets
        /\ UNCHANGED <<peer, backlog, open, killed, fate, pcL, cur, watched>>
    BY <1>2 DEF SenderLocksSockets
  <2>2. \A c \in sockets : Accepted(c)
    BY DEF BroadcastInv, ConnInv, Accepted
  <2>3. AcceptedInv' /\ FallenInv' /\ WatchedInv'
    BY <2>1, <2>2 DEF CrashInv, AcceptedInv, FallenInv, WatchedInv, Accepted
  <2> QED
    BY <1>0, <2>1, <2>3, RunningHasNoCause DEF CrashInv
<1>3. CASE SenderUnlocksSockets \/ SenderClears
  BY <1>0, <1>3, CrashQuietFrame DEF SenderUnlocksSockets, SenderClears
<1>4. CASE SenderOutlivesServer
  <2>1. CASE Die("used_after_end")
    <3>1. killed /\ killed' = killed /\ fate' = "used_after_end"
      BY <1>4, <2>1 DEF SenderOutlivesServer, BroadcastInv, StopInv, Die
    <3>2. CrashHasCause'
      BY <3>1 DEF CrashHasCause
    <3> QED
      BY <2>1, <3>2, CrashDie
  <2>2. CASE ~Die("used_after_end")
    BY <1>0, <1>4, <2>2, CrashQuietFrame DEF SenderOutlivesServer
  <2> QED
    BY <2>1, <2>2
<1>5. ASSUME NEW c \in Conn, SenderWrites(c)
      PROVE  CrashInv'
  BY <1>0, <1>5, CrashWrites
<1> QED
  BY <1>1, <1>2, <1>3, <1>4, <1>5 DEF Sender

-----------------------------------------------------------------------------
(* What is held. *)

\* A connection that holds a descriptor was accepted, and stays so.
LEMMA HeldFrame ==
    ASSUME Inv, HeldInv, held' \subseteq held, backlog' = backlog, PeerMoves
    PROVE  HeldInv'
<1>1. held \subseteq Conn
  BY DEF Inv, TypeOK, SocketsTypeOK
<1> QED
  BY <1>1 DEF HeldInv, Accepted, PeerMoves

LEMMA HeldEnvironment ==
    ASSUME Inv, HeldInv, Peers \/ Operator
    PROVE  HeldInv'
<1>0. held \subseteq Conn /\ peer \in [Conn -> PeerState]
  BY DEF Inv, TypeOK, SocketsTypeOK
<1>1. CASE Operator
  BY <1>1, HeldFrame DEF Operator, Type, socketVars, PeerMoves
<1>2. ASSUME NEW c \in Conn, PeerStep(c)
      PROVE  HeldInv'
  <2>1. CASE Connect(c)
    BY <1>0, <2>1 DEF Connect, HeldInv, Accepted
  <2>2. CASE PeerSend(c) \/ PeerRead(c)
    BY <2>2, HeldFrame DEF PeerSend, PeerRead, serverSideVars, PeerMoves
  <2>3. CASE PeerClose(c) \/ PeerReset(c)
    BY <1>0, <2>3, HeldFrame
       DEF PeerClose, PeerReset, serverSideVars, PeerMoves
  <2> QED
    BY <1>2, <2>1, <2>2, <2>3 DEF PeerStep
<1> QED
  BY <1>1, <1>2 DEF Peers

LEMMA HeldWrites ==
    ASSUME Inv, HeldInv, NEW c \in Conn,
           \/ WriteText(c) /\ UNCHANGED open
           \/ WriteFailure(c) /\ UNCHANGED <<peer, outbox>>,
           UNCHANGED <<held, backlog>>
    PROVE  HeldInv'
  BY HeldFrame, WriteMoves

LEMMA HeldDie ==
    ASSUME Inv, HeldInv, NEW cause, Die(cause)
    PROVE  HeldInv'
  BY HeldFrame DEF Die, socketVars, PeerMoves

LEMMA HeldListener ==
    ASSUME Inv, BroadcastInv, HeldInv, Listener
    PROVE  HeldInv'
<1> USE DEF socketVars, peerSideVars, serverSideVars
<1>1. CASE OnSocketServer
  <2>1. ASSUME NEW c \in backlog, Accept(c), UNCHANGED peer
        PROVE  HeldInv'
    BY <2>1 DEF Accept, HeldInv, Accepted, BroadcastInv, ConnInv
  <2> QED
    BY <1>1, <2>1, HeldDie DEF OnSocketServer
<1>2. ASSUME NEW c \in Conn, OnSocket(c)
      PROVE  HeldInv'
  <2>1. CASE OnSocketText(c)
    BY <2>1, HeldDie, HeldFrame DEF OnSocketText, PeerMoves
  <2>2. CASE ~OnSocketText(c)
    BY <1>2, <2>2, HeldDie, HeldFrame DEF OnSocket, PeerMoves
  <2> QED
    BY <2>1, <2>2
<1>3. CASE Reply
  <2>1. cur \in Conn
    BY <1>3, NoConnAssumption DEF Reply, Inv, HandlerInv, Handling
  <2> QED
    BY <1>3, <2>1, HeldDie, HeldWrites DEF Reply
<1>4. CASE Stop
  BY <1>4, HeldFrame DEF Stop, CloseAll, PeerMoves
<1>5. CASE Exit
  BY <1>5, HeldDie DEF Exit
<1>6. CASE \/ BeginWait \/ Timeout \/ OnStdin \/ ListenerLocksSockets
           \/ ListenerLocksQueue \/ Adopt \/ RemoveEnded \/ VisitLogin
           \/ Associate \/ Enqueue \/ EndListen \/ DestroyServer
  <2>1. UNCHANGED <<held, backlog, peer>>
    BY <1>6, Zenon
       DEF BeginWait, Timeout, OnStdin, ListenerLocksSockets,
           ListenerLocksQueue, Adopt, RemoveEnded, VisitLogin, Associate,
           Enqueue, EndListen, DestroyServer
  <2> QED
    BY <2>1, HeldFrame DEF PeerMoves
<1> QED
  BY <1>1, <1>2, <1>3, <1>4, <1>5, <1>6 DEF Listener

LEMMA HeldSender ==
    ASSUME Inv, HeldInv, Sender
    PROVE  HeldInv'
<1>1. ASSUME NEW c \in Conn, SenderWrites(c)
      PROVE  HeldInv'
  BY <1>1, HeldDie, HeldWrites DEF SenderWrites
<1>2. CASE SenderOutlivesServer
  BY <1>2, HeldDie, HeldFrame DEF SenderOutlivesServer, socketVars, PeerMoves
<1>3. CASE \/ SenderTest \/ SenderLocksQueue \/ SenderLocksSockets
           \/ SenderUnlocksSockets \/ SenderClears
  <2>1. UNCHANGED socketVars
    BY <1>3, Zenon DEF SenderTest, SenderLocksQueue, SenderLocksSockets,
       SenderUnlocksSockets, SenderClears
  <2> QED
    BY <2>1, HeldFrame DEF socketVars, PeerMoves
<1> QED
  BY <1>1, <1>2, <1>3 DEF Sender

LEMMA HeldInvNext ==
    Inv /\ BroadcastInv /\ HeldInv /\ [Next]_vars => HeldInv'
<1> SUFFICES ASSUME Inv, BroadcastInv, HeldInv, [Next]_vars PROVE HeldInv'
  OBVIOUS
<1>1. CASE UNCHANGED vars
  BY <1>1, HeldFrame DEF vars, socketVars, PeerMoves
<1> QED
  BY <1>1, HeldListener, HeldSender, HeldEnvironment DEF Next, Gone

-----------------------------------------------------------------------------
LEMMA CrashInvNext ==
    Inv /\ BroadcastInv /\ HeldInv /\ CrashInv /\ [Next]_vars => CrashInv'
<1> SUFFICES ASSUME Inv, BroadcastInv, HeldInv, CrashInv, [Next]_vars
             PROVE  CrashInv'
  OBVIOUS
<1>1. CASE UNCHANGED vars
  BY <1>1 DEF vars, CrashInv, AcceptedInv, FallenInv, WatchedInv, Accepted,
     CrashHasCause, Left, Connected, socketVars, waiterVars, vectorVars, queueVars,
     listenerVars, senderVars
<1> QED
  BY <1>1, CrashListener, CrashSender, CrashEnvironment DEF Next, Gone

(***************************************************************************)
(* Nothing but a departed peer, a bad request, exit or more peers than     *)
(* there are descriptors brings the process down, whatever the two threads *)
(* do in between.                                                          *)
(***************************************************************************)
THEOREM DeathHasCause == Spec => []CrashHasCause
<1>1. CrashInv => CrashHasCause
  BY DEF CrashInv
<1>2. Init => HeldInv
  BY DEF Init, SocketsInit, HeldInv
<1> QED
  BY <1>1, <1>2, InvInit, InvNext, BroadcastInvInit, BroadcastInvNext,
     HeldInvNext, CrashInvInit, CrashInvNext, PTL DEF Spec
=============================================================================
