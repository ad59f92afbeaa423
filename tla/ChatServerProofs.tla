-------------------------- MODULE ChatServerProofs --------------------------
(***************************************************************************)
(* Theorems about ChatServer, for all values of its constants.             *)
(***************************************************************************)
EXTENDS ChatServer, TLAPS

-----------------------------------------------------------------------------
(* What the operators of the codec return. *)

\* The text of a request is a sequence of segments, whole or cut in two.
LEMMA TextsType ==
    ASSUME NEW r \in Requests
    PROVE  Texts(r) \subseteq Seq(Segment)
<1>1. r \in Request
  BY RequestsAssumption
<1>2. ASSUME NEW p \in {"whole", "head", "brace", "tail"}
      PROVE  Piece(r, p) \in Segment
  BY <1>1, <1>2 DEF Piece, Segment
<1>3. Whole(r) \in Seq(Segment)
  BY <1>2 DEF Whole
<1>4. Halves(r) \subseteq Seq(Segment)
  <2>1. Piece(r, "tail") \in Segment
    BY <1>2
  <2>2. ASSUME NEW p \in {"head", "brace"}
        PROVE  << Piece(r, p), Piece(r, "tail") >> \in Seq(Segment)
    <3>1. Piece(r, p) \in Segment
      BY <1>2, <2>2
    <3> QED
      BY <2>1, <3>1
  <2> QED
    BY <2>2 DEF Halves
<1> QED
  BY <1>3, <1>4 DEF Texts

\* A read takes a front of the inbox off and leaves a sequence of segments;
\* what it parses out of the front is a request.
LEMMA ReadType ==
    ASSUME NEW s \in Seq(Segment), NEW k \in 1 .. Len(s)
    PROVE  /\ SubSeq(s, k + 1, Len(s)) \in Seq(Segment)
           /\ Parsed(SubSeq(s, 1, k)) \in Request
<1>1. SubSeq(s, k + 1, Len(s)) \in Seq(Segment)
  OBVIOUS
<1>2. SubSeq(s, 1, k)[1] = s[1] /\ s[1] \in Segment
  OBVIOUS
<1> QED
  BY <1>1, <1>2 DEF Parsed, Segment

-----------------------------------------------------------------------------
(* Type correctness, one lemma for each party that takes steps. *)

\* What a write that returns does to the connection, error or not.
LEMMA WriteType ==
    ASSUME SocketsTypeOK, NEW c \in Conn,
           \/ WriteText(c) /\ UNCHANGED open
           \/ WriteFailure(c) /\ UNCHANGED <<peer, outbox>>
    PROVE  /\ open' \in SUBSET Conn
           /\ peer' \in [Conn -> PeerState]
           /\ outbox' \in [Conn -> Nat]
<1> USE DEF SocketsTypeOK
<1>1. CASE WriteFailure(c) /\ UNCHANGED <<peer, outbox>>
  BY <1>1 DEF WriteFailure
<1>2. CASE WriteText(c) /\ UNCHANGED open
  <2>1. CASE outbox' = [outbox EXCEPT ![c] = @ + 1] /\ UNCHANGED peer
    BY <1>2, <2>1
  <2>2. ASSUME NEW answer \in {"closed", "dead"},
               peer' = [peer EXCEPT ![c] = answer],
               UNCHANGED outbox
        PROVE  /\ peer' \in [Conn -> PeerState]
               /\ outbox' \in [Conn -> Nat]
    BY <2>2 DEF PeerState
  <2> QED
    BY <1>2, <2>1, <2>2 DEF WriteText
<1> QED
  BY <1>1, <1>2

LEMMA PeerStepType ==
    ASSUME SocketsTypeOK, NEW c \in Conn, PeerStep(c)
    PROVE  SocketsTypeOK'
<1> USE DEF SocketsTypeOK, PeerState
<1>1. CASE Connect(c)
  BY <1>1 DEF Connect
<1>2. CASE PeerSend(c)
  <2>0. PICK r \in Requests : \E text \in Texts(r) :
            inbox' = [inbox EXCEPT ![c] = @ \o text]
    BY <1>2 DEF PeerSend
  <2>1. PICK text \in Texts(r) : inbox' = [inbox EXCEPT ![c] = @ \o text]
    BY <2>0
  <2>2. inbox[c] \o text \in Seq(Segment)
    BY <2>1, TextsType
  <2>3. inbox' \in [Conn -> Seq(Segment)]
    BY <2>1, <2>2
  <2> QED
    BY <1>2, <2>3 DEF PeerSend, serverSideVars
<1>3. CASE PeerRead(c)
  BY <1>3 DEF PeerRead, serverSideVars
<1>4. CASE PeerClose(c)
  BY <1>4 DEF PeerClose, serverSideVars
<1>5. CASE PeerReset(c)
  <2>1. PICK k \in 0 .. Len(inbox[c]) :
            inbox' = [inbox EXCEPT ![c] = SubSeq(@, 1, k)]
    BY <1>5 DEF PeerReset
  <2>2. SubSeq(inbox[c], 1, k) \in Seq(Segment)
    BY <2>1
  <2>3. inbox' \in [Conn -> Seq(Segment)]
    BY <2>1, <2>2
  <2> QED
    BY <1>5, <2>3 DEF PeerReset, serverSideVars
<1> QED
  BY <1>1, <1>2, <1>3, <1>4, <1>5 DEF PeerStep

-----------------------------------------------------------------------------
(* The inductive invariant. *)

Handling == {"adopt", "remove", "visitLogin", "associate", "enqueue", "reply"}

\* The locals of the handlers: a socket, and a request that came from it.
HandlerInv ==
    /\ pcL \in Handling => cur \in Conn
    /\ pcL = "associate" => req.type = "login"
    /\ pcL = "visitLogin" => req.type = "login"
    /\ pcL = "enqueue" => req.type \in {"login", "message"}

(***************************************************************************)
(* A thread owns a mutex only at the places of its scope, and the sending  *)
(* thread owns both wherever it has them.  Once the server is destroyed    *)
(* the sending thread may end with its mutexes locked.                     *)
(***************************************************************************)
LockInv ==
    /\ socketsLock = "listener" => pcL \in HoldsSockets
    /\ messageQueueLock = "listener" => pcL = "enqueue"
    /\ pcS = "writing" => socketsLock = "sender"
    /\ pcS \in {"sending", "writing"} => messageQueueLock = "sender"
    /\ socketsLock = "sender" => pcS = "writing" \/ pcL = "destroyed"
    /\ messageQueueLock = "sender" =>
            pcS \in {"sending", "writing"} \/ pcL = "destroyed"

\* The index of the sending thread, and the numbers of what is queued.
QueueInv ==
    /\ pcS \in {"loop", "asleep"} => mi = 0
    /\ pcS = "sending" => mi \in 1 .. Len(messageQueue) + 1
    /\ pcS = "writing" => mi \in 1 .. Len(messageQueue)
    /\ Len(messageQueue) <= enqueued
    /\ \A i \in 1 .. Len(messageQueue) :
            messageQueue[i].number = enqueued - Len(messageQueue) + i

Inv == TypeOK /\ HandlerInv /\ LockInv /\ QueueInv

LEMMA DoneType ==
    ASSUME Inv
    PROVE  Done \in Nat
  BY DEF Inv, TypeOK, QueueInv, Done

LEMMA InvInit == Init => Inv
<1> SUFFICES ASSUME Init PROVE Inv
  OBVIOUS
<1>1. TypeOK
  <2>1. SocketsTypeOK /\ FlexWaiterTypeOK
    BY DEF Init, SocketsInit, FlexWaiterInit, SocketsTypeOK, FlexWaiterTypeOK,
       PeerState
  <2>2. NoRequest \in Request
    BY DEF NoRequest, Request, RequestType, Names
  <2>3. messageQueue \in Seq(Response)
    BY DEF Init
  <2>6. killed \in BOOLEAN
    BY Zenon DEF Init
  <2>4. username \in [Conn -> Names] /\ last \in [Conn -> Nat]
    BY DEF Init, Names
  <2>5. fate \in Fate /\ pcL \in ListenerPlace /\ pcS \in SenderPlace
    BY DEF Init, Fate, ListenerPlace, SenderPlace
  <2> QED
    BY <2>1, <2>2, <2>3, <2>4, <2>5, <2>6 DEF Init, TypeOK
<1>2. HandlerInv /\ LockInv /\ QueueInv
  BY DEF Init, HandlerInv, LockInv, QueueInv, Handling
<1> QED
  BY <1>1, <1>2 DEF Inv

\* A step that ends the process changes nothing else.
LEMMA DieInv ==
    ASSUME Inv, NEW cause \in Fate, Die(cause)
    PROVE  Inv'
  BY DEF Die, Inv, TypeOK, SocketsTypeOK, FlexWaiterTypeOK, HandlerInv,
     LockInv, QueueInv, socketVars, waiterVars, vectorVars, queueVars,
     lockVars, listenerVars, senderVars

\* The steps up to the locks of the handlers.
LEMMA InvWait ==
    ASSUME Inv, BeginWait \/ Timeout \/ OnStdin \/ OnSocketServer
    PROVE  Inv'
<1> USE DEF Inv, socketVars, peerSideVars, waiterVars, vectorVars, queueVars,
        lockVars, listenerVars, senderVars, GoTo
<1>1. CASE BeginWait
  <2>1. TypeOK'
    BY <1>1 DEF BeginWait, BuildFdSet, TypeOK, SocketsTypeOK,
       FlexWaiterTypeOK, ListenerPlace
  <2>2. HandlerInv' /\ LockInv' /\ QueueInv'
    BY <1>1 DEF BeginWait, HandlerInv, LockInv, QueueInv, HoldsSockets,
       Handling
  <2> QED
    BY <2>1, <2>2
<1>2. CASE Timeout
  <2>1. TypeOK'
    BY <1>2 DEF Timeout, TypeOK, SocketsTypeOK, FlexWaiterTypeOK, ListenerPlace
  <2>2. HandlerInv' /\ LockInv' /\ QueueInv'
    BY <1>2 DEF Timeout, HandlerInv, LockInv, QueueInv, HoldsSockets, Handling
  <2> QED
    BY <2>1, <2>2
<1>3. CASE OnStdin
  <2>1. SocketsTypeOK' /\ FlexWaiterTypeOK'
    <3>1. TakeInput /\ watched' = {}
      BY <1>3, Zenon DEF OnStdin
    <3>2. UNCHANGED socketVars /\ UNCHANGED waiterSockets
      BY <1>3, Zenon DEF OnStdin
    <3> QED
      BY <3>1, <3>2 DEF TakeInput, TypeOK, SocketsTypeOK, FlexWaiterTypeOK
  <2>2. killed' \in BOOLEAN
    BY <1>3, Zenon DEF OnStdin, TypeOK
  <2>3. pcL' \in ListenerPlace
    BY <1>3 DEF OnStdin, ListenerPlace, HoldsSockets
  <2>4. TypeOK'
    BY <1>3, <2>1, <2>2, <2>3 DEF OnStdin, TypeOK
  <2>5. HandlerInv' /\ LockInv' /\ QueueInv'
    BY <1>3 DEF OnStdin, HandlerInv, LockInv, QueueInv, HoldsSockets, Handling
  <2> QED
    BY <2>4, <2>5
<1>4. CASE OnSocketServer
  <2>1. CASE Die("accept_error")
    BY <2>1, DieInv DEF Fate, Crash
  <2>2. CASE ~Die("accept_error")
    <3>1. PICK c \in backlog :
            /\ Accept(c)
            /\ watched' = {}
            /\ pcL' = "adopt"
            /\ cur' = c
            /\ UNCHANGED <<listening, peerSideVars, waiterSockets, stdin, fate,
                           killed, vectorVars, queueVars, lockVars, req,
                           senderVars, last>>
      BY <1>4, <2>2 DEF OnSocketServer
    <3>2. c \in Conn
      BY DEF TypeOK, SocketsTypeOK
    <3>3. TypeOK'
      BY <3>1, <3>2 DEF Accept, TypeOK, SocketsTypeOK, FlexWaiterTypeOK,
         ListenerPlace, HoldsSockets
    <3>4. pcL = "select"
      BY <1>4 DEF OnSocketServer
    <3>5. HandlerInv' /\ LockInv' /\ QueueInv'
      BY <3>1, <3>2, <3>4 DEF HandlerInv, LockInv, QueueInv, HoldsSockets,
         Handling
    <3> QED
      BY <3>3, <3>5
  <2> QED
    BY <2>1, <2>2
<1> QED
  BY <1>1, <1>2, <1>3, <1>4

LEMMA InvOnSocket ==
    ASSUME Inv, NEW c \in Conn, OnSocket(c)
    PROVE  Inv'
<1> USE DEF Inv, socketVars, serverSideVars, peerSideVars, waiterVars,
        vectorVars, queueVars, lockVars, listenerVars, senderVars
<1>1. pcL = "select"
  BY DEF OnSocket
<1>2. CASE \E cause \in Crash : Die(cause)
  BY <1>2, DieInv DEF Fate
<1>3. CASE \A cause \in Crash : ~Die(cause)
  <2>1. /\ ~Die("read_closed") /\ ~Die("parse")
        /\ ~Die("bad_object") /\ ~Die("null_response")
    BY <1>3 DEF Crash
  <2>2. CASE OnSocketText(c)
    <3>1. PICK k \in 1 .. Len(inbox[c]) :
            LET r == Parsed(SubSeq(inbox[c], 1, k))
            IN  /\ ~Incomplete(r) /\ ~Unknown(r)
                /\ ReadText(c, k)
                /\ pcL' = AfterParse(r)
                /\ cur' = c
                /\ req' = r
                /\ watched' = {}
                /\ UNCHANGED <<serverSideVars, peer, outbox, sent,
                               waiterSockets, stdin, fate, killed, vectorVars,
                               queueVars, lockVars, senderVars, last>>
      BY <2>1, <2>2 DEF OnSocketText
    <3> DEFINE r == Parsed(SubSeq(inbox[c], 1, k))
    <3>2. /\ SubSeq(inbox[c], k + 1, Len(inbox[c])) \in Seq(Segment)
          /\ r \in Request
      BY ReadType DEF TypeOK, SocketsTypeOK
    <3> HIDE DEF r
    <3>3. /\ r.type \in {"login", "message"}
          /\ pcL' = IF r.type = "login" THEN "visitLogin" ELSE "enqueue"
          /\ req' = r /\ cur' = c
      BY <3>1, <3>2 DEF r, Request, RequestType, AfterParse, Incomplete,
         Unknown
    <3>4. inbox' \in [Conn -> Seq(Segment)]
      BY <3>1, <3>2 DEF ReadText, TypeOK, SocketsTypeOK
    <3>5. TypeOK'
      BY <3>1, <3>2, <3>3, <3>4 DEF TypeOK, SocketsTypeOK, FlexWaiterTypeOK,
         ListenerPlace, HoldsSockets
    <3>6. HandlerInv' /\ LockInv' /\ QueueInv'
      BY <1>1, <3>1, <3>3 DEF HandlerInv, LockInv, QueueInv, HoldsSockets,
         Handling
    <3> QED
      BY <3>5, <3>6
  <2>3. CASE ~OnSocketText(c)
    <3>1. /\ open' = open \ {c}
          /\ pcL' = "remove"
          /\ cur' = c
          /\ watched' = {}
          /\ UNCHANGED <<held, listening, backlog, peerSideVars,
                         waiterSockets, stdin, fate, killed, vectorVars,
                         queueVars, lockVars, req, senderVars, last>>
      BY <2>1, <2>3 DEF OnSocket, ReadEnd
    <3>2. TypeOK'
      BY <3>1 DEF TypeOK, SocketsTypeOK, FlexWaiterTypeOK, ListenerPlace,
         HoldsSockets
    <3>3. HandlerInv' /\ LockInv' /\ QueueInv'
      BY <1>1, <3>1 DEF HandlerInv, LockInv, QueueInv, HoldsSockets, Handling
    <3> QED
      BY <3>2, <3>3
  <2> QED
    BY <2>2, <2>3
<1> QED
  BY <1>2, <1>3

\* The steps of the handlers at and under their locks, and the shutdown.
LEMMA InvHandlers ==
    ASSUME Inv,
           \/ ListenerLocksSockets \/ ListenerLocksQueue
           \/ Adopt \/ RemoveEnded \/ VisitLogin \/ Associate \/ Enqueue
           \/ Reply \/ Stop \/ EndListen \/ DestroyServer \/ Exit
    PROVE  Inv'
<1> USE DEF Inv, socketVars, peerSideVars, waiterVars, vectorVars, queueVars,
        lockVars, listenerVars, senderVars, GoTo, HandlerReturns,
        UnlockSockets, UnlockQueue
<1>0. NoRequest \in Request
  BY DEF NoRequest, Request, RequestType, Names
<1>1. CASE ListenerLocksSockets \/ ListenerLocksQueue
  <2>1. TypeOK'
    BY <1>1 DEF ListenerLocksSockets, ListenerLocksQueue, TypeOK,
       SocketsTypeOK, FlexWaiterTypeOK, Thread
  <2>2. HandlerInv' /\ LockInv' /\ QueueInv'
    BY <1>1 DEF ListenerLocksSockets, ListenerLocksQueue, HandlerInv, LockInv,
       QueueInv
  <2> QED
    BY <2>1, <2>2
<1>2. CASE Adopt
  <2>1. cur \in Conn
    BY <1>2 DEF Adopt, HandlerInv, Handling
  <2>2. username' \in [Conn -> Names] /\ last' \in [Conn -> Nat]
    BY <1>2, DoneType DEF Adopt, TypeOK, Names
  <2>3. TypeOK'
    BY <1>0, <1>2, <2>1, <2>2 DEF Adopt, AddSocket, TypeOK, SocketsTypeOK,
       FlexWaiterTypeOK, ListenerPlace
  <2>4. HandlerInv' /\ LockInv' /\ QueueInv'
    BY <1>2 DEF Adopt, HandlerInv, LockInv, QueueInv, Handling
  <2> QED
    BY <2>3, <2>4
<1>3. CASE RemoveEnded
  <2>1. username' \in [Conn -> Names] /\ last' \in [Conn -> Nat]
    BY <1>3 DEF RemoveEnded, TypeOK, Names
  <2>2. TypeOK'
    BY <1>0, <1>3, <2>1 DEF RemoveEnded, RemoveSocket, TypeOK, SocketsTypeOK,
       FlexWaiterTypeOK, ListenerPlace
  <2>3. HandlerInv' /\ LockInv' /\ QueueInv'
    BY <1>3 DEF RemoveEnded, HandlerInv, LockInv, QueueInv, Handling
  <2> QED
    BY <2>2, <2>3
<1>4. CASE VisitLogin
  <2>1. TypeOK'
    BY <1>4 DEF VisitLogin, TypeOK, SocketsTypeOK, FlexWaiterTypeOK,
       ListenerPlace, HoldsSockets
  <2>2. HandlerInv' /\ LockInv' /\ QueueInv'
    BY <1>4 DEF VisitLogin, HandlerInv, LockInv, QueueInv, Handling,
       HoldsSockets
  <2> QED
    BY <2>1, <2>2
<1>5. CASE Associate
  <2>1. username' \in [Conn -> Names]
    BY <1>5 DEF Associate, TypeOK, Request
  <2>2. TypeOK'
    BY <1>5, <2>1 DEF Associate, TypeOK, SocketsTypeOK, FlexWaiterTypeOK,
       ListenerPlace
  <2>3. HandlerInv' /\ LockInv' /\ QueueInv'
    BY <1>5 DEF Associate, HandlerInv, LockInv, QueueInv, Handling,
       HoldsSockets
  <2> QED
    BY <2>2, <2>3
<1>6. CASE Enqueue
  <2> DEFINE new == [type   |-> req.type,
                     who    |-> req.sender,
                     number |-> enqueued + 1]
  <2>1. new \in Response
    BY <1>6 DEF Enqueue, HandlerInv, TypeOK, Request, Response
  <2>2. new.number = enqueued + 1
    OBVIOUS
  <2>3. messageQueue' = Append(messageQueue, new) /\ enqueued' = enqueued + 1
    BY <1>6 DEF Enqueue
  <2> HIDE DEF new
  <2>4. /\ messageQueue' \in Seq(Response)
        /\ Len(messageQueue') = Len(messageQueue) + 1
        /\ \A i \in 1 .. Len(messageQueue) : messageQueue'[i] = messageQueue[i]
        /\ messageQueue'[Len(messageQueue) + 1] = new
    BY <2>1, <2>3 DEF TypeOK
  <2>5. TypeOK'
    <3>1. enqueued' \in Nat /\ messageQueueLock' = "free"
      BY <1>6, <2>3 DEF Enqueue, TypeOK
    <3>2. /\ pcL' = "listen" /\ cur' = NoConn /\ req' = NoRequest
          /\ UNCHANGED <<socketVars, waiterVars, fate, killed, vectorVars,
                         socketsLock, refused, senderVars, last>>
      BY <1>6 DEF Enqueue
    <3>3. SocketsTypeOK' /\ FlexWaiterTypeOK'
      BY <3>2 DEF TypeOK, SocketsTypeOK, FlexWaiterTypeOK
    <3> QED
      BY <1>0, <2>4, <3>1, <3>2, <3>3 DEF TypeOK, ListenerPlace
  <2>6. HandlerInv' /\ LockInv'
    BY <1>6 DEF Enqueue, HandlerInv, LockInv, Handling, HoldsSockets
  <2>7. pcS \notin {"sending", "writing"} /\ UNCHANGED <<pcS, mi>>
    BY <1>6 DEF Enqueue, LockInv
  <2>8. \A i \in 1 .. Len(messageQueue') :
            messageQueue'[i].number = enqueued' - Len(messageQueue') + i
    <3>1. /\ Len(messageQueue) \in Nat /\ enqueued \in Nat
          /\ \A i \in 1 .. Len(messageQueue) :
                messageQueue[i].number = enqueued - Len(messageQueue) + i
      BY DEF TypeOK, QueueInv
    <3>2. /\ Len(messageQueue') = Len(messageQueue) + 1
          /\ enqueued' - Len(messageQueue') = enqueued - Len(messageQueue)
      BY <2>3, <2>4, <3>1
    <3>3. ASSUME NEW i \in 1 .. Len(messageQueue')
          PROVE  messageQueue'[i].number = enqueued' - Len(messageQueue') + i
      <4>1. CASE i = Len(messageQueue) + 1
        <5>1. messageQueue'[i].number = enqueued - Len(messageQueue) + i
          BY <2>2, <2>4, <3>1, <4>1
        <5> QED
          BY <3>2, <5>1
      <4>2. CASE i \in 1 .. Len(messageQueue)
        <5>1. messageQueue'[i].number = enqueued - Len(messageQueue) + i
          BY <2>4, <3>1, <4>2
        <5> QED
          BY <3>2, <5>1
      <4> QED
        BY <3>1, <3>2, <4>1, <4>2
    <3> QED
      BY <3>3
  <2>9. QueueInv'
    BY <2>3, <2>4, <2>7, <2>8 DEF QueueInv, TypeOK
  <2> QED
    BY <2>5, <2>6, <2>9
<1>7. CASE Reply
  <2>1. CASE \E cause \in Crash : Die(cause)
    BY <2>1, DieInv DEF Fate
  <2>2. CASE \A cause \in Crash : ~Die(cause)
    <3>1. /\ \/ WriteText(cur) /\ UNCHANGED open
             \/ WriteFailure(cur) /\ UNCHANGED <<peer, outbox>>
          /\ refused' = refused + 1
          /\ HandlerReturns
          /\ UNCHANGED <<held, listening, backlog, inbox, sent, waiterVars,
                         fate, killed, vectorVars, messageQueue, enqueued,
                         lockVars, senderVars, last>>
      BY <1>7, <2>2 DEF Reply, Crash
    <3>2. /\ open' \in SUBSET Conn
          /\ peer' \in [Conn -> PeerState]
          /\ outbox' \in [Conn -> Nat]
      <4>1. cur \in Conn
        BY <1>7 DEF Reply, HandlerInv, Handling
      <4> QED
        BY <3>1, <4>1, WriteType DEF TypeOK
    <3>3. TypeOK'
      <4>1. /\ refused' \in Nat
            /\ pcL' = "listen" /\ cur' = NoConn /\ req' = NoRequest
        BY <3>1 DEF TypeOK
      <4>2. SocketsTypeOK' /\ FlexWaiterTypeOK'
        BY <3>1, <3>2 DEF TypeOK, SocketsTypeOK, FlexWaiterTypeOK
      <4> QED
        BY <1>0, <3>1, <4>1, <4>2 DEF TypeOK, ListenerPlace
    <3>4. pcL = "reply"
      BY <1>7 DEF Reply
    <3>5. HandlerInv' /\ LockInv' /\ QueueInv'
      BY <3>1, <3>4 DEF HandlerInv, LockInv, QueueInv, Handling, HoldsSockets
    <3> QED
      BY <3>3, <3>5
  <2> QED
    BY <2>1, <2>2
<1>8. CASE Stop
  <2>1. TypeOK'
    BY <1>0, <1>8 DEF Stop, CloseAll, ShutDownServerSocket, TypeOK,
       SocketsTypeOK, FlexWaiterTypeOK, ListenerPlace
  <2>2. HandlerInv' /\ LockInv' /\ QueueInv'
    BY <1>8 DEF Stop, HandlerInv, LockInv, QueueInv, Handling, HoldsSockets
  <2> QED
    BY <2>1, <2>2
<1>9. CASE EndListen \/ DestroyServer
  <2>1. TypeOK'
    BY <1>9 DEF EndListen, DestroyServer, TypeOK, SocketsTypeOK,
       FlexWaiterTypeOK, ListenerPlace
  <2>2. HandlerInv' /\ LockInv' /\ QueueInv'
    BY <1>9 DEF EndListen, DestroyServer, HandlerInv, LockInv, QueueInv,
       Handling, HoldsSockets
  <2> QED
    BY <2>1, <2>2
<1>10. CASE Exit
  BY <1>10, DieInv DEF Exit, Fate
<1> QED
  BY <1>1, <1>2, <1>3, <1>4, <1>5, <1>6, <1>7, <1>8, <1>9, <1>10

\* One write of the sending thread.
LEMMA InvSenderWrites ==
    ASSUME Inv, NEW c \in Conn, SenderWrites(c)
    PROVE  Inv'
<1> USE DEF Inv, socketVars, waiterVars, vectorVars, queueVars, lockVars,
        listenerVars, senderVars
<1>1. CASE \E cause \in Crash : Die(cause)
  BY <1>1, DieInv DEF Fate
<1>2. CASE \A cause \in Crash : ~Die(cause)
  <2>1. /\ \/ /\ WriteText(c)
              /\ last' = [last EXCEPT ![c] = messageQueue[mi].number]
              /\ UNCHANGED open
           \/ /\ WriteFailure(c)
              /\ UNCHANGED <<peer, outbox, last>>
        /\ todo' = todo \ {c}
        /\ UNCHANGED <<held, listening, backlog, inbox, sent, waiterVars,
                       fate, killed, vectorVars, queueVars, lockVars,
                       listenerVars, pcS, mi>>
    BY <1>2 DEF SenderWrites, Crash
  <2>2. messageQueue[mi].number \in Nat
    BY DEF SenderWrites, QueueInv, TypeOK, Response
  <2>3. last' \in [Conn -> Nat]
    BY <2>1, <2>2 DEF TypeOK
  <2>4. /\ open' \in SUBSET Conn
        /\ peer' \in [Conn -> PeerState]
        /\ outbox' \in [Conn -> Nat]
    BY <2>1, WriteType DEF TypeOK
  <2>5. TypeOK'
    BY <2>1, <2>3, <2>4 DEF TypeOK, SocketsTypeOK, FlexWaiterTypeOK
  <2>6. HandlerInv' /\ LockInv' /\ QueueInv'
    BY <2>1 DEF HandlerInv, LockInv, QueueInv
  <2> QED
    BY <2>5, <2>6
<1> QED
  BY <1>1, <1>2

LEMMA InvSender ==
    ASSUME Inv,
           \/ SenderTest \/ SenderLocksQueue \/ SenderLocksSockets
           \/ SenderUnlocksSockets \/ SenderClears \/ SenderOutlivesServer
    PROVE  Inv'
<1> USE DEF Inv, socketVars, waiterVars, vectorVars, queueVars, lockVars,
        listenerVars, UnlockSockets, UnlockQueue
<1>1. CASE SenderTest
  <2>1. TypeOK'
    BY <1>1 DEF SenderTest, TypeOK, SocketsTypeOK, FlexWaiterTypeOK,
       SenderPlace
  <2>2. HandlerInv' /\ LockInv' /\ QueueInv'
    BY <1>1 DEF SenderTest, HandlerInv, LockInv, QueueInv
  <2> QED
    BY <2>1, <2>2
<1>2. CASE SenderLocksQueue
  <2>1. TypeOK'
    BY <1>2 DEF SenderLocksQueue, TypeOK, SocketsTypeOK, FlexWaiterTypeOK,
       SenderPlace, Thread
  <2>2. HandlerInv' /\ LockInv'
    BY <1>2 DEF SenderLocksQueue, HandlerInv, LockInv
  <2>3. QueueInv'
    BY <1>2 DEF SenderLocksQueue, QueueInv, TypeOK
  <2> QED
    BY <2>1, <2>2, <2>3
<1>3. CASE SenderLocksSockets
  <2>1. TypeOK'
    BY <1>3 DEF SenderLocksSockets, TypeOK, SocketsTypeOK, FlexWaiterTypeOK,
       SenderPlace, Thread
  <2>2. HandlerInv' /\ LockInv'
    BY <1>3 DEF SenderLocksSockets, HandlerInv, LockInv
  <2>3. QueueInv'
    BY <1>3 DEF SenderLocksSockets, QueueInv, TypeOK
  <2> QED
    BY <2>1, <2>2, <2>3
<1>4. CASE SenderUnlocksSockets
  <2>1. TypeOK'
    BY <1>4 DEF SenderUnlocksSockets, TypeOK, SocketsTypeOK, FlexWaiterTypeOK,
       SenderPlace
  <2>2. HandlerInv' /\ LockInv'
    BY <1>4 DEF SenderUnlocksSockets, HandlerInv, LockInv
  <2>3. QueueInv'
    BY <1>4 DEF SenderUnlocksSockets, QueueInv, TypeOK
  <2> QED
    BY <2>1, <2>2, <2>3
<1>5. CASE SenderClears
  <2>1. messageQueue' = << >> /\ Len(messageQueue') = 0
    BY <1>5 DEF SenderClears
  <2>2. TypeOK'
    BY <1>5 DEF SenderClears, TypeOK, SocketsTypeOK, FlexWaiterTypeOK,
       SenderPlace
  <2>3. HandlerInv' /\ LockInv'
    BY <1>5 DEF SenderClears, HandlerInv, LockInv
  <2>4. QueueInv'
    BY <1>5, <2>1 DEF SenderClears, QueueInv, TypeOK
  <2> QED
    BY <2>2, <2>3, <2>4
<1>6. CASE SenderOutlivesServer
  <2>1. CASE Die("used_after_end")
    BY <2>1, DieInv DEF Fate, Crash
  <2>2. CASE ~Die("used_after_end")
    <3>1. TypeOK'
      BY <1>6, <2>2 DEF SenderOutlivesServer, TypeOK, SocketsTypeOK,
         FlexWaiterTypeOK, SenderPlace
    <3>2. HandlerInv' /\ LockInv' /\ QueueInv'
      BY <1>6, <2>2 DEF SenderOutlivesServer, HandlerInv, LockInv, QueueInv
    <3> QED
      BY <3>1, <3>2
  <2> QED
    BY <2>1, <2>2
<1> QED
  BY <1>1, <1>2, <1>3, <1>4, <1>5, <1>6

LEMMA InvEnvironment ==
    ASSUME Inv, Peers \/ Operator
    PROVE  Inv'
<1> USE DEF Inv, socketVars, waiterVars, vectorVars, queueVars, lockVars,
        listenerVars, senderVars
<1>1. CASE Peers
  <2>1. SocketsTypeOK'
    BY <1>1, PeerStepType DEF Peers, TypeOK
  <2>2. TypeOK'
    BY <1>1, <2>1 DEF Peers, TypeOK, FlexWaiterTypeOK
  <2>3. HandlerInv' /\ LockInv' /\ QueueInv'
    BY <1>1 DEF Peers, HandlerInv, LockInv, QueueInv
  <2> QED
    BY <2>2, <2>3
<1>2. CASE Operator
  <2>1. TypeOK'
    BY <1>2, StdinAssumption DEF Operator, Type, TypeOK, SocketsTypeOK,
       FlexWaiterTypeOK
  <2>2. HandlerInv' /\ LockInv' /\ QueueInv'
    BY <1>2 DEF Operator, HandlerInv, LockInv, QueueInv
  <2> QED
    BY <2>1, <2>2
<1> QED
  BY <1>1, <1>2

LEMMA InvStutter ==
    ASSUME Inv, UNCHANGED vars
    PROVE  Inv'
  BY DEF vars, Inv, TypeOK, SocketsTypeOK, FlexWaiterTypeOK, HandlerInv,
     LockInv, QueueInv, socketVars, waiterVars, vectorVars, queueVars,
     lockVars, listenerVars, senderVars

LEMMA InvNext == Inv /\ [Next]_vars => Inv'
  BY InvWait, InvOnSocket, InvHandlers, InvSenderWrites, InvSender,
     InvEnvironment, InvStutter DEF Next, Listener, Sender, Gone

(***************************************************************************)
(* Every variable keeps its type: in particular the sending thread never   *)
(* indexes the queue outside its bounds and no handler runs without a      *)
(* socket.                                                                 *)
(***************************************************************************)
THEOREM TypeCorrect == Spec => []TypeOK
<1>1. Inv => TypeOK
  BY DEF Inv
<1> QED
  BY <1>1, InvInit, InvNext, PTL DEF Spec

-----------------------------------------------------------------------------
(* The two mutexes. *)

(***************************************************************************)
(* Of the inductive invariant TypeOK and LockInv are what the mutexes      *)
(* need: whoever waits for a mutex has none that the other waits for.      *)
(***************************************************************************)
LEMMA NoWaitCycleInv == Inv => NoWaitCycle
<1> SUFFICES ASSUME Inv, NEW m \in Mutex, NEW n \in Mutex,
                    m \in Awaits("listener"), Owner[m] = "sender",
                    n \in Awaits("sender"), Owner[n] = "listener"
             PROVE  FALSE
  BY DEF NoWaitCycle
<1> USE DEF Inv, LockInv, Mutex, Owner, HoldsSockets
<1>1. CASE n = "socketsLock"
  <2>1. m = "socketsLock"
    BY <1>1 DEF Awaits
  <2> QED
    BY <1>1, <2>1
<1>2. CASE n = "messageQueueLock"
  <2>1. m = "messageQueueLock"
    BY <1>2 DEF Awaits
  <2> QED
    BY <1>2, <2>1
<1> QED
  BY <1>1, <1>2

(***************************************************************************)
(* The listening thread and the sending thread never wait for each other:  *)
(* onSocket leaves the scope of socketsLock before it asks for             *)
(* messageQueueLock, so sendMessages may nest the two.                     *)
(***************************************************************************)
THEOREM MutexesNeverDeadlock == Spec => []NoWaitCycle
  BY InvInit, InvNext, NoWaitCycleInv, PTL DEF Spec

Iterating ==
    /\ pcS = "writing" => UNCHANGED vectorVars
    /\ pcS \in {"sending", "writing"} =>
          UNCHANGED messageQueue \/ (pcS' = "loop" /\ messageQueue' = << >>)

\* Where a step of the listening thread changes the vector or the queue it
\* owns the mutex, and by LockInv the sending thread does not iterate.
LEMMA ListenerIterating == Inv /\ Listener => Iterating
<1> SUFFICES ASSUME Inv, Listener PROVE Iterating
  OBVIOUS
<1> USE DEF vectorVars, queueVars
<1>1. CASE \E cause \in Fate : Die(cause)
  BY <1>1 DEF Die, Iterating
<1>2. CASE ~\E cause \in Fate : Die(cause)
  <2>1. CASE Adopt \/ RemoveEnded \/ Associate
    <3>1. pcS # "writing"
      BY <2>1 DEF Adopt, RemoveEnded, Associate, Inv, LockInv
    <3>2. UNCHANGED messageQueue
      BY <2>1 DEF Adopt, RemoveEnded, Associate
    <3> QED
      BY <3>1, <3>2 DEF Iterating
  <2>2. CASE Enqueue
    <3>1. pcS \notin {"sending", "writing"}
      BY <2>2 DEF Enqueue, Inv, LockInv
    <3> QED
      BY <3>1 DEF Iterating
  <2>3. CASE BeginWait \/ Timeout \/ OnStdin \/ OnSocketServer
    BY <1>2, <2>3 DEF BeginWait, Timeout, OnStdin, OnSocketServer, Iterating,
       Fate, Crash
  <2>4. ASSUME NEW c \in Conn, OnSocket(c)
        PROVE  Iterating
    BY <1>2, <2>4 DEF OnSocket, OnSocketText, Iterating, Fate, Crash
  <2>5. CASE ListenerLocksSockets \/ ListenerLocksQueue \/ VisitLogin \/ Reply
    BY <1>2, <2>5 DEF ListenerLocksSockets, ListenerLocksQueue, VisitLogin,
       Reply, Iterating, Fate, Crash
  <2>6. CASE Stop \/ EndListen \/ DestroyServer \/ Exit
    BY <1>2, <2>6 DEF Stop, EndListen, DestroyServer, Exit, Iterating, Fate
  <2> QED
    BY <2>1, <2>2, <2>3, <2>4, <2>5, <2>6 DEF Listener
<1> QED
  BY <1>1, <1>2

LEMMA SenderIterating == Inv /\ Sender => Iterating
<1> SUFFICES ASSUME Inv, Sender PROVE Iterating
  OBVIOUS
<1> USE DEF vectorVars, queueVars, Iterating
<1>1. CASE SenderTest \/ SenderLocksQueue \/ SenderLocksSockets
  BY <1>1 DEF SenderTest, SenderLocksQueue, SenderLocksSockets
<1>2. ASSUME NEW c \in Conn, SenderWrites(c)
      PROVE  Iterating
  BY <1>2 DEF SenderWrites, Die
<1>3. CASE SenderUnlocksSockets \/ SenderClears
  BY <1>3 DEF SenderUnlocksSockets, SenderClears
<1>4. CASE SenderOutlivesServer
  BY <1>4 DEF SenderOutlivesServer, Die
<1> QED
  BY <1>1, <1>2, <1>3, <1>4 DEF Sender

(***************************************************************************)
(* While sendMessages iterates over the vector of sockets or over the      *)
(* queue, no step of anybody invalidates its iterators.                    *)
(***************************************************************************)
THEOREM IteratorsStayValid == Spec => IterationsStable
<1>1. Inv /\ [Next]_vars => [Iterating]_vars
  <2> SUFFICES ASSUME Inv, [Next]_vars PROVE [Iterating]_vars
    OBVIOUS
  <2>1. CASE Peers \/ Operator
    BY <2>1 DEF Peers, Operator, vectorVars, queueVars, Iterating
  <2>2. CASE UNCHANGED vars
    BY <2>2
  <2> QED
    BY <2>1, <2>2, ListenerIterating, SenderIterating DEF Next, Gone
<1>2. Spec => [][Iterating]_vars
  BY <1>1, InvInit, InvNext, PTL DEF Spec
<1> QED
  BY <1>2, PTL DEF IterationsStable, Iterating

-----------------------------------------------------------------------------
(***************************************************************************)
(* Names.  The name is checked in visitLogin and stored in onSocket, under *)
(* two acquisitions of socketsLock, so uniqueness alone is not inductive:  *)
(* what the check established must hold until the store.                   *)
(***************************************************************************)


\* Between the check and the store nobody carries the requested name.
NameInv ==
    /\ UsernamesUnique
    /\ pcL = "associate" => \A c \in sockets : username[c] # req.sender

LEMMA NameInvInit == Init => NameInv
  BY DEF Init, NameInv, UsernamesUnique

\* Steps that leave the vector alone and do not end the check.
LEMMA NameFrame ==
    ASSUME NameInv, UNCHANGED vectorVars,
           pcL' # "associate" \/ UNCHANGED listenerVars
    PROVE  NameInv'
  BY DEF NameInv, UsernamesUnique, vectorVars, listenerVars

\* The four steps of the listening thread that have to do with names.
LEMMA NameInvHandlers ==
    ASSUME Inv, NameInv, Adopt \/ RemoveEnded \/ VisitLogin \/ Associate
    PROVE  NameInv'
<1> USE DEF NameInv, UsernamesUnique, GoTo, HandlerReturns
<1>1. CASE Adopt
  <2>1. /\ sockets' = sockets \cup {cur}
        /\ username' = [username EXCEPT ![cur] = NoName]
        /\ pcL' = "listen"
    BY <1>1 DEF Adopt
  <2>2. cur \in Conn
    BY <1>1 DEF Adopt, Inv, HandlerInv, Handling
  <2> QED
    BY <2>1, <2>2 DEF Inv, TypeOK
<1>2. CASE RemoveEnded
  <2>1. /\ sockets' = sockets \ {cur}
        /\ username' = [username EXCEPT ![cur] = NoName]
        /\ pcL' = "listen"
    BY <1>2 DEF RemoveEnded
  <2> QED
    BY <2>1 DEF Inv, TypeOK
<1>3. CASE VisitLogin
  <2>1. /\ pcL' = IF InUse(req.sender) THEN "reply" ELSE "associate"
        /\ UNCHANGED <<sockets, username, req>>
    BY <1>3 DEF VisitLogin, vectorVars
  <2> QED
    BY <2>1 DEF InUse
<1>4. CASE Associate
  <2>1. /\ username' = [c \in Conn |-> IF c \in sockets /\ c = cur
                                         THEN req.sender ELSE username[c]]
        /\ sockets' = sockets
        /\ pcL = "associate" /\ pcL' = "enqueue"
    BY <1>4 DEF Associate
  <2>2. ASSUME NEW c \in sockets, NEW d \in sockets, c # d,
               username'[c] = username'[d]
        PROVE  username'[c] = NoName
    <3>1. c \in Conn /\ d \in Conn
      BY <2>2 DEF Inv, TypeOK
    <3>2. c # cur /\ d # cur
      BY <2>1, <2>2, <3>1
    <3> QED
      BY <2>1, <2>2, <3>1, <3>2
  <2> QED
    BY <2>1, <2>2
<1> QED
  BY <1>1, <1>2, <1>3, <1>4

LEMMA NameInvListener ==
    ASSUME Inv, NameInv, Listener
    PROVE  NameInv'
<1> USE DEF vectorVars, listenerVars, GoTo, HandlerReturns
<1>1. CASE \E cause \in Fate : Die(cause)
  BY <1>1, NameFrame DEF Die
<1>2. CASE ~\E cause \in Fate : Die(cause)
  <2>1. CASE BeginWait \/ Timeout \/ OnStdin \/ OnSocketServer
    BY <1>2, <2>1, NameFrame DEF BeginWait, Timeout, OnStdin, OnSocketServer,
       Fate, Crash
  <2>2. ASSUME NEW c \in Conn, OnSocket(c)
        PROVE  NameInv'
    BY <1>2, <2>2, NameFrame DEF OnSocket, OnSocketText, AfterParse, Fate,
       Crash
  <2>3. CASE ListenerLocksSockets \/ ListenerLocksQueue
    BY <2>3, NameFrame DEF ListenerLocksSockets, ListenerLocksQueue
  <2>4. CASE Enqueue \/ Reply \/ Stop
    BY <1>2, <2>4, NameFrame DEF Enqueue, Reply, Stop, Fate, Crash
  <2>5. CASE EndListen \/ DestroyServer \/ Exit
    BY <1>2, <2>5, NameFrame DEF EndListen, DestroyServer, Exit, Fate
  <2> QED
    BY <2>1, <2>2, <2>3, <2>4, <2>5, NameInvHandlers DEF Listener
<1> QED
  BY <1>1, <1>2

\* The sending thread reads the vector and never writes it.
LEMMA NameInvSender ==
    ASSUME NameInv, Sender
    PROVE  NameInv'
<1>1. UNCHANGED vectorVars /\ UNCHANGED listenerVars
  BY DEF Sender, SenderTest, SenderLocksQueue, SenderLocksSockets,
     SenderWrites, SenderUnlocksSockets, SenderClears, SenderOutlivesServer,
     Die
<1> QED
  BY <1>1, NameFrame

LEMMA NameInvNext == Inv /\ NameInv /\ [Next]_vars => NameInv'
<1> SUFFICES ASSUME Inv, NameInv, [Next]_vars PROVE NameInv'
  OBVIOUS
<1>1. CASE Peers \/ Operator \/ UNCHANGED vars
  <2>1. UNCHANGED vectorVars /\ UNCHANGED listenerVars
    BY <1>1 DEF Peers, Operator, vars
  <2> QED
    BY <2>1, NameFrame
<1> QED
  BY <1>1, NameInvListener, NameInvSender DEF Next, Gone

(***************************************************************************)
(* visitLogin and onSocket: two sockets never carry the same name, though  *)
(* the check and the store of a name are two critical sections.            *)
(***************************************************************************)
THEOREM NamesStayUnique == Spec => []UsernamesUnique
<1>1. NameInv => UsernamesUnique
  BY DEF NameInv
<1> QED
  BY <1>1, InvInit, InvNext, NameInvInit, NameInvNext, PTL DEF Spec
=============================================================================
