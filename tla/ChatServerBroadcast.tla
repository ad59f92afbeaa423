------------------------- MODULE ChatServerBroadcast -------------------------
(***************************************************************************)
(* Every open socket hears every response once and in order, for all       *)
(* values of the constants.  What the statement needs beside Inv: that a   *)
(* connection passes from the backlog to the vector once (ConnInv), and    *)
(* that after stop() no socket of the vector is open (StopInv), for then   *)
(* the sending thread may end in the middle of a round.                    *)
(***************************************************************************)
EXTENDS ChatServerProofs

\* A connection is pending, being adopted or in the vector, one at a time.
ConnInv ==
    /\ \A c \in sockets \cup backlog : peer[c] # "absent"
    /\ sockets \cap backlog = {}
    /\ pcL = "adopt" => cur \notin backlog /\ peer[cur] # "absent"

\* Where the listening thread can be once the flag is set.
StopInv ==
    /\ killed => pcL \in {"stop", "listen", "returned", "destroyed"}
    /\ pcL \in {"stop", "returned", "destroyed"} => killed
    /\ killed /\ pcL # "stop" => sockets \cap open = {}

BroadcastInv == ConnInv /\ StopInv /\ BroadcastComplete

LEMMA BroadcastInvInit == Init => BroadcastInv
<1> SUFFICES ASSUME Init PROVE BroadcastInv
  OBVIOUS
<1> USE DEF Init, SocketsInit
<1>1. ConnInv
  BY DEF ConnInv
<1>2. StopInv
  BY DEF StopInv
<1>3. BroadcastComplete
  BY DEF BroadcastComplete
<1> QED
  BY <1>1, <1>2, <1>3 DEF BroadcastInv

-----------------------------------------------------------------------------
(* Frames: what most of the steps leave alone. *)

LEMMA BroadcastDie ==
    ASSUME BroadcastInv, NEW cause, Die(cause)
    PROVE  BroadcastInv'
  BY DEF Die, BroadcastInv, ConnInv, StopInv, BroadcastComplete, Done,
     socketVars, vectorVars, queueVars, listenerVars, senderVars

\* A peer never becomes absent again, and the rest of ConnInv stays.
LEMMA ConnFrame ==
    ASSUME ConnInv, UNCHANGED <<sockets, backlog>>,
           \A c \in Conn : peer[c] # "absent" => peer'[c] # "absent",
           sockets \cup backlog \subseteq Conn,
           pcL' # "adopt" \/ UNCHANGED <<pcL, cur>>,
           pcL = "adopt" => cur \in Conn
    PROVE  ConnInv'
  BY DEF ConnInv

\* Sockets may fall, never rise; the vector and the flag stay.
LEMMA StopFrame ==
    ASSUME StopInv, UNCHANGED <<sockets, killed>>, open' \subseteq open,
           \/ UNCHANGED pcL
           \/ ~killed /\ pcL' \notin {"stop", "returned", "destroyed"}
    PROVE  StopInv'
  BY DEF StopInv

\* Nothing that BroadcastComplete counts changes, but sockets that fall.
LEMMA BroadcastFrame ==
    ASSUME BroadcastComplete, open' \subseteq open,
           UNCHANGED <<sockets, last, messageQueue, enqueued, mi, todo, pcS>>
    PROVE  BroadcastComplete'
  BY DEF BroadcastComplete, Done

\* The three frames together.
LEMMA FrameInv ==
    ASSUME Inv, BroadcastInv, open' \subseteq open,
           \A c \in Conn : peer[c] # "absent" => peer'[c] # "absent",
           UNCHANGED <<killed, sockets, backlog, last, messageQueue, enqueued,
                       mi, todo, pcS>>,
           \/ UNCHANGED <<pcL, cur>>
           \/ ~killed /\ pcL' \notin {"adopt", "stop", "returned", "destroyed"}
    PROVE  BroadcastInv'
<1>1. /\ sockets \cup backlog \subseteq Conn
      /\ pcL = "adopt" => cur \in Conn
  BY DEF Inv, TypeOK, SocketsTypeOK, HandlerInv, Handling
<1>2. ConnInv'
  BY <1>1, ConnFrame DEF BroadcastInv
<1>3. StopInv' /\ BroadcastComplete'
  BY StopFrame, BroadcastFrame DEF BroadcastInv
<1> QED
  BY <1>2, <1>3 DEF BroadcastInv

\* A write, error or not, lets sockets fall and makes no peer absent.
LEMMA WriteFrame ==
    ASSUME Inv, NEW c \in Conn,
           \/ WriteText(c) /\ UNCHANGED open
           \/ WriteFailure(c) /\ UNCHANGED <<peer, outbox>>
    PROVE  /\ open' \subseteq open
           /\ \A d \in Conn : peer[d] # "absent" => peer'[d] # "absent"
<1>1. peer \in [Conn -> PeerState]
  BY DEF Inv, TypeOK, SocketsTypeOK
<1>2. CASE WriteFailure(c) /\ UNCHANGED <<peer, outbox>>
  BY <1>2 DEF WriteFailure
<1>3. CASE WriteText(c) /\ UNCHANGED open
  BY <1>1, <1>3 DEF WriteText
<1> QED
  BY <1>2, <1>3

-----------------------------------------------------------------------------
(* The peers. *)

LEMMA BroadcastEnvironment ==
    ASSUME Inv, BroadcastInv, Peers \/ Operator \/ UNCHANGED vars
    PROVE  BroadcastInv'
<1> USE DEF vectorVars, queueVars, listenerVars, senderVars, socketVars
<1>1. CASE Operator \/ UNCHANGED vars
  BY <1>1, FrameInv DEF Operator, Type, vars
<1>2. CASE Peers
  <2>1. PICK c \in Conn : PeerStep(c)
    BY <1>2 DEF Peers
  <2>2. /\ UNCHANGED <<killed, sockets, last, messageQueue, enqueued, mi,
                       todo, pcS, pcL, cur>>
        /\ peer \in [Conn -> PeerState]
    BY <1>2 DEF Peers, Inv, TypeOK, SocketsTypeOK
  <2>3. CASE Connect(c)
    <3>1. ConnInv'
      <4>1. /\ backlog' = backlog \cup {c}
            /\ peer[c] = "absent" /\ peer' = [peer EXCEPT ![c] = "up"]
        BY <2>3 DEF Connect
      <4>2. c \notin sockets /\ (pcL = "adopt" => cur # c /\ cur \in Conn)
        BY <4>1 DEF BroadcastInv, ConnInv, Inv, HandlerInv, Handling
      <4> QED
        BY <2>2, <4>1, <4>2 DEF BroadcastInv, ConnInv, Inv, TypeOK,
           SocketsTypeOK
    <3>2. StopInv' /\ BroadcastComplete'
      BY <2>2, <2>3, StopFrame, BroadcastFrame DEF Connect, BroadcastInv
    <3> QED
      BY <3>1, <3>2 DEF BroadcastInv
  <2>4. CASE PeerSend(c) \/ PeerRead(c)
    BY <2>2, <2>4, FrameInv DEF PeerSend, PeerRead, serverSideVars
  <2>5. CASE PeerClose(c) \/ PeerReset(c)
    <3>1. /\ UNCHANGED <<open, backlog>>
          /\ \E state \in {"closed", "reset"} :
                peer' = [peer EXCEPT ![c] = state]
      BY <2>5 DEF PeerClose, PeerReset, serverSideVars
    <3>2. \A d \in Conn : peer[d] # "absent" => peer'[d] # "absent"
      BY <2>2, <3>1
    <3> QED
      BY <2>2, <3>1, <3>2, FrameInv
  <2> QED
    BY <2>1, <2>3, <2>4, <2>5 DEF PeerStep
<1> QED
  BY <1>1, <1>2

-----------------------------------------------------------------------------
(* The listening thread. *)

\* exit is typed: select is left for the place where stop() asks its lock.
LEMMA BroadcastOnStdin ==
    ASSUME Inv, BroadcastInv, OnStdin
    PROVE  BroadcastInv'
<1>1. /\ pcL = "select"
      /\ pcL' = IF stdin = "exit" THEN "stop" ELSE "listen"
  BY DEF OnStdin, GoTo
<1>2. /\ UNCHANGED <<open, sockets, backlog, peer, last, messageQueue>>
      /\ UNCHANGED <<enqueued, mi, todo, pcS>>
  BY DEF OnStdin, socketVars, vectorVars, queueVars, senderVars
<1>3. ~killed
  BY <1>1 DEF BroadcastInv, StopInv
<1>4. killed' <=> stdin = "exit"
  BY <1>3, Zenon DEF OnStdin
<1>5. ConnInv'
  BY <1>1, <1>2 DEF BroadcastInv, ConnInv
<1>6. StopInv'
  BY <1>1, <1>4 DEF StopInv
<1>7. BroadcastComplete'
  BY <1>2, BroadcastFrame DEF BroadcastInv
<1> QED
  BY <1>5, <1>6, <1>7 DEF BroadcastInv

\* A connection leaves the backlog; nobody else has it.
LEMMA BroadcastAccept ==
    ASSUME Inv, BroadcastInv, OnSocketServer
    PROVE  BroadcastInv'
<1>1. CASE Die("accept_error")
  BY <1>1, BroadcastDie
<1>2. CASE ~Die("accept_error")
  <2>1. PICK c \in backlog :
            /\ Accept(c)
            /\ pcL' = "adopt"
            /\ cur' = c
            /\ UNCHANGED <<peerSideVars, killed, vectorVars, queueVars,
                           senderVars, last>>
    BY <1>2 DEF OnSocketServer
  <2>2. pcL = "select" /\ ~killed /\ c \notin sockets
    BY DEF OnSocketServer, BroadcastInv, StopInv, ConnInv
  <2>3. ConnInv'
    BY <2>1, <2>2 DEF Accept, BroadcastInv, ConnInv, peerSideVars, vectorVars
  <2>4. StopInv'
    BY <2>1, <2>2 DEF StopInv
  <2>5. BroadcastComplete'
    BY <2>1, <2>2 DEF Accept, BroadcastInv, BroadcastComplete, Done,
       vectorVars, queueVars, senderVars
  <2> QED
    BY <2>3, <2>4, <2>5 DEF BroadcastInv
<1> QED
  BY <1>1, <1>2

\* A socket joins between two rounds or two writes, owing nothing.
LEMMA BroadcastAdopt ==
    ASSUME Inv, BroadcastInv, Adopt
    PROVE  BroadcastInv'
<1>1. /\ pcL = "adopt" /\ pcL' = "listen"
      /\ socketsLock = "listener"
      /\ sockets' = sockets \cup {cur}
      /\ last' = [last EXCEPT ![cur] = Done]
      /\ UNCHANGED <<open, backlog, peer, killed, messageQueue, enqueued, mi,
                     todo, pcS>>
  BY DEF Adopt, HandlerReturns, socketVars, queueVars, senderVars
<1>2. cur \in Conn /\ last \in [Conn -> Nat] /\ sockets \subseteq Conn
  BY <1>1 DEF Inv, TypeOK, HandlerInv, Handling
<1>3. pcS # "writing"
  BY <1>1 DEF Inv, LockInv
<1>4. ConnInv'
  BY <1>1 DEF BroadcastInv, ConnInv
<1>5. StopInv'
  BY <1>1 DEF BroadcastInv, StopInv
<1>6. BroadcastComplete'
  <2>1. Done' = Done /\ Done \in Nat
    BY <1>1, DoneType DEF Done
  <2> QED
    BY <1>1, <1>2, <1>3, <2>1 DEF BroadcastInv, BroadcastComplete
<1> QED
  BY <1>4, <1>5, <1>6 DEF BroadcastInv

LEMMA BroadcastRemove ==
    ASSUME Inv, BroadcastInv, RemoveEnded
    PROVE  BroadcastInv'
<1>1. /\ pcL = "remove" /\ pcL' = "listen"
      /\ sockets' = sockets \ {cur}
      /\ last' = [last EXCEPT ![cur] = 0]
      /\ UNCHANGED <<open, backlog, peer, killed, messageQueue, enqueued, mi,
                     todo, pcS>>
  BY DEF RemoveEnded, HandlerReturns, socketVars, queueVars, senderVars
<1>2. last \in [Conn -> Nat] /\ sockets \subseteq Conn
  BY DEF Inv, TypeOK
<1>3. ConnInv'
  BY <1>1 DEF BroadcastInv, ConnInv
<1>4. StopInv'
  BY <1>1 DEF BroadcastInv, StopInv
<1>5. BroadcastComplete'
  BY <1>1, <1>2 DEF BroadcastInv, BroadcastComplete, Done
<1> QED
  BY <1>3, <1>4, <1>5 DEF BroadcastInv

\* The queue grows by a response nobody has been told, and Done stays.
LEMMA BroadcastEnqueue ==
    ASSUME Inv, BroadcastInv, Enqueue
    PROVE  BroadcastInv'
<1>1. /\ pcL = "enqueue" /\ pcL' = "listen"
      /\ enqueued' = enqueued + 1
      /\ UNCHANGED <<sockets, last, open, backlog, peer, killed, mi, todo,
                     pcS>>
  BY DEF Enqueue, HandlerReturns, socketVars, vectorVars, senderVars
<1>2. Len(messageQueue') = Len(messageQueue) + 1
  BY DEF Enqueue, Inv, TypeOK
<1>3. Done' = Done
  BY <1>1, <1>2 DEF Done, Inv, TypeOK
<1>4. ConnInv'
  BY <1>1 DEF BroadcastInv, ConnInv
<1>5. StopInv'
  BY <1>1 DEF BroadcastInv, StopInv
<1>6. BroadcastComplete'
  BY <1>1, <1>3 DEF BroadcastInv, BroadcastComplete
<1> QED
  BY <1>4, <1>5, <1>6 DEF BroadcastInv

\* stop() under its lock, and the way out of listen() and main.
LEMMA BroadcastShutdown ==
    ASSUME Inv, BroadcastInv, Stop \/ EndListen \/ DestroyServer \/ Exit
    PROVE  BroadcastInv'
<1>1. CASE Exit
  BY <1>1, BroadcastDie DEF Exit
<1>2. CASE Stop \/ EndListen \/ DestroyServer
  <2>1. /\ UNCHANGED <<sockets, backlog, peer, killed, last, messageQueue,
                       enqueued, mi, todo, pcS>>
        /\ \/ /\ pcL = "stop" /\ pcL' = "listen"
              /\ open' = open \ sockets
           \/ pcL = "listen" /\ killed /\ pcL' = "returned" /\ open' = open
           \/ pcL = "returned" /\ pcL' = "destroyed" /\ open' = open
    BY <1>2 DEF Stop, EndListen, DestroyServer, CloseAll, GoTo,
       HandlerReturns, socketVars, peerSideVars, vectorVars, queueVars,
       senderVars
  <2>2. ConnInv'
    BY <2>1 DEF BroadcastInv, ConnInv
  <2>3. StopInv'
    BY <2>1 DEF BroadcastInv, StopInv
  <2>4. BroadcastComplete'
    BY <2>1, BroadcastFrame DEF BroadcastInv
  <2> QED
    BY <2>2, <2>3, <2>4 DEF BroadcastInv
<1> QED
  BY <1>1, <1>2

\* Steps that leave the vector, the queue and the sending thread alone.
LEMMA BroadcastQuiet ==
    ASSUME Inv, BroadcastInv,
           \/ BeginWait \/ Timeout \/ \E c \in Conn : OnSocket(c)
           \/ ListenerLocksSockets \/ ListenerLocksQueue
           \/ VisitLogin \/ Associate \/ Reply
    PROVE  BroadcastInv'
<1> USE DEF socketVars, serverSideVars, peerSideVars, vectorVars, queueVars,
        listenerVars, senderVars, GoTo, HandlerReturns
<1>1. CASE \E cause \in Fate : Die(cause)
  BY <1>1, BroadcastDie
<1>2. CASE ~\E cause \in Fate : Die(cause)
  <2>1. CASE ListenerLocksSockets \/ ListenerLocksQueue
    BY <2>1, FrameInv DEF ListenerLocksSockets, ListenerLocksQueue
  <2>2. CASE BeginWait \/ Timeout
    BY <2>2, FrameInv DEF BeginWait, Timeout, BroadcastInv, StopInv
  <2>3. ASSUME NEW c \in Conn, OnSocket(c)
        PROVE  BroadcastInv'
    <3>1. /\ open' \subseteq open
          /\ UNCHANGED <<killed, sockets, backlog, peer, last, messageQueue,
                         enqueued, mi, todo, pcS>>
      BY <1>2, <2>3 DEF OnSocket, OnSocketText, ReadEnd, Fate, Crash
    <3>2. pcL = "select" /\ pcL' \in {"visitLogin", "enqueue", "remove"}
      BY <1>2, <2>3 DEF OnSocket, OnSocketText, AfterParse, Fate, Crash
    <3> QED
      BY <3>1, <3>2, FrameInv DEF BroadcastInv, StopInv
  <2>4. CASE VisitLogin \/ Associate
    BY <2>4, FrameInv DEF VisitLogin, Associate, BroadcastInv, StopInv
  <2>5. CASE Reply
    <3>1. /\ \/ WriteText(cur) /\ UNCHANGED open
             \/ WriteFailure(cur) /\ UNCHANGED <<peer, outbox>>
          /\ pcL = "reply" /\ pcL' = "listen"
          /\ UNCHANGED <<killed, sockets, backlog, last, messageQueue,
                         enqueued, mi, todo, pcS>>
      BY <1>2, <2>5 DEF Reply, Fate, Crash
    <3>2. cur \in Conn
      BY <3>1 DEF Inv, HandlerInv, Handling
    <3>3. /\ open' \subseteq open
          /\ \A d \in Conn : peer[d] # "absent" => peer'[d] # "absent"
      BY <3>1, <3>2, WriteFrame
    <3> QED
      BY <3>1, <3>3, FrameInv DEF BroadcastInv, StopInv
  <2> QED
    BY <2>1, <2>2, <2>3, <2>4, <2>5
<1> QED
  BY <1>1, <1>2

-----------------------------------------------------------------------------
(* The sending thread. *)

\* ConnInv and StopInv hold as long as it only writes to sockets.
LEMMA SenderFrame ==
    ASSUME Inv, BroadcastInv, UNCHANGED <<killed, sockets, backlog, pcL, cur>>,
           open' \subseteq open,
           \A c \in Conn : peer[c] # "absent" => peer'[c] # "absent"
    PROVE  ConnInv' /\ StopInv'
<1>1. /\ sockets \cup backlog \subseteq Conn
      /\ pcL = "adopt" => cur \in Conn
  BY DEF Inv, TypeOK, SocketsTypeOK, HandlerInv, Handling
<1> QED
  BY <1>1, ConnFrame, StopFrame DEF BroadcastInv

(***************************************************************************)
(* The arithmetic of a batch: the response at mi is the first after those  *)
(* that are done, Done moves on with mi, and clearing the queue keeps it.  *)
(***************************************************************************)
LEMMA BroadcastLocks ==
    ASSUME Inv, BroadcastInv,
           SenderTest \/ SenderLocksQueue \/ SenderLocksSockets
    PROVE  BroadcastInv'
<1> USE DEF socketVars, vectorVars, queueVars, listenerVars
<1>1. ConnInv' /\ StopInv'
  BY SenderFrame DEF SenderTest, SenderLocksQueue, SenderLocksSockets
<1>2. CASE SenderTest
  BY <1>1, <1>2 DEF SenderTest, BroadcastInv, BroadcastComplete, Done
<1>3. CASE SenderLocksQueue
  <2>1. mi = 0 /\ mi' = 1
    BY <1>3 DEF SenderLocksQueue, Inv, QueueInv
  <2>2. Done' = Done
    BY <1>3, <2>1 DEF SenderLocksQueue, Done, Inv, TypeOK
  <2> QED
    BY <1>1, <1>3, <2>2 DEF SenderLocksQueue, BroadcastInv, BroadcastComplete
<1>4. CASE SenderLocksSockets
  <2>1. Done' = Done /\ Done \in Nat
    BY <1>4, DoneType DEF SenderLocksSockets, Done
  <2> QED
    BY <1>1, <1>4, <2>1 DEF SenderLocksSockets, BroadcastInv,
       BroadcastComplete
<1> QED
  BY <1>2, <1>3, <1>4

LEMMA BroadcastWrites ==
    ASSUME Inv, BroadcastInv, NEW c \in Conn, SenderWrites(c)
    PROVE  BroadcastInv'
<1> USE DEF socketVars, vectorVars, queueVars, listenerVars
<1>1. CASE \E cause \in Fate : Die(cause)
  BY <1>1, BroadcastDie
<1>2. CASE ~\E cause \in Fate : Die(cause)
  <2>1. /\ pcS = "writing" /\ c \in todo
        /\ \/ /\ WriteText(c)
              /\ last' = [last EXCEPT ![c] = messageQueue[mi].number]
              /\ UNCHANGED open
           \/ /\ WriteFailure(c)
              /\ UNCHANGED <<peer, outbox, last>>
        /\ todo' = todo \ {c}
        /\ UNCHANGED <<backlog, killed, sockets, messageQueue, enqueued, pcL,
                       cur, pcS, mi>>
    BY <1>2 DEF SenderWrites, Fate, Crash
  <2>2. /\ open' \subseteq open
        /\ \A d \in Conn : peer[d] # "absent" => peer'[d] # "absent"
    BY <2>1, WriteFrame
  <2>3. ConnInv' /\ StopInv'
    BY <2>1, <2>2, SenderFrame
  <2>4. Done' = Done
    BY <2>1 DEF Done
  <2>5. messageQueue[mi].number = Done + 1
    BY <2>1 DEF Done, Inv, TypeOK, QueueInv
  <2>6. BroadcastComplete'
    <3>1. CASE WriteFailure(c)
      BY <2>1, <2>4, <3>1 DEF WriteFailure, WriteText, BroadcastInv,
         BroadcastComplete
    <3>2. CASE ~WriteFailure(c)
      BY <2>1, <2>4, <2>5, <3>2 DEF BroadcastInv, BroadcastComplete, Inv,
         TypeOK
    <3> QED
      BY <3>1, <3>2
  <2> QED
    BY <2>3, <2>6 DEF BroadcastInv
<1> QED
  BY <1>1, <1>2

LEMMA BroadcastEnds ==
    ASSUME Inv, BroadcastInv, SenderUnlocksSockets \/ SenderClears
    PROVE  BroadcastInv'
<1> USE DEF socketVars, vectorVars, queueVars, listenerVars
<1>1. ConnInv' /\ StopInv'
  BY SenderFrame DEF SenderUnlocksSockets, SenderClears
<1>2. CASE SenderUnlocksSockets
  <2>1. mi' = mi + 1 /\ mi \in 1 .. Len(messageQueue)
    BY <1>2 DEF SenderUnlocksSockets, Inv, QueueInv
  <2>2. Done' = Done + 1 /\ Done \in Nat
    BY <1>2, <2>1, DoneType DEF SenderUnlocksSockets, Done, Inv, TypeOK
  <2> QED
    BY <1>1, <1>2, <2>2 DEF SenderUnlocksSockets, BroadcastInv,
       BroadcastComplete
<1>3. CASE SenderClears
  <2>1. mi = Len(messageQueue) + 1 /\ mi' = 0 /\ messageQueue' = << >>
    BY <1>3 DEF SenderClears, Inv, TypeOK, QueueInv
  <2>2. Done' = Done
    BY <1>3, <2>1 DEF SenderClears, Done, Inv, TypeOK
  <2> QED
    BY <1>1, <1>3, <2>2 DEF SenderClears, BroadcastInv, BroadcastComplete
<1> QED
  BY <1>2, <1>3

\* The thread may end in mid-round, but then no socket of the vector is open.
LEMMA BroadcastOutlives ==
    ASSUME Inv, BroadcastInv, SenderOutlivesServer
    PROVE  BroadcastInv'
<1> USE DEF socketVars, vectorVars, queueVars, listenerVars
<1>1. CASE Die("used_after_end")
  BY <1>1, BroadcastDie
<1>2. CASE ~Die("used_after_end")
  <2>1. /\ pcL = "destroyed"
        /\ UNCHANGED <<killed, sockets, backlog, pcL, cur, open, peer>>
    BY <1>2 DEF SenderOutlivesServer
  <2>2. ConnInv' /\ StopInv'
    BY <2>1, SenderFrame
  <2>3. sockets \cap open = {}
    BY <2>1 DEF BroadcastInv, StopInv
  <2> QED
    BY <2>1, <2>2, <2>3 DEF BroadcastInv, BroadcastComplete
<1> QED
  BY <1>1, <1>2

-----------------------------------------------------------------------------
LEMMA BroadcastInvNext == Inv /\ BroadcastInv /\ [Next]_vars => BroadcastInv'
<1> SUFFICES ASSUME Inv, BroadcastInv, [Next]_vars PROVE BroadcastInv'
  OBVIOUS
<1>1. CASE Listener
  BY <1>1, BroadcastOnStdin, BroadcastAccept, BroadcastAdopt, BroadcastRemove,
     BroadcastEnqueue, BroadcastShutdown, BroadcastQuiet DEF Listener
<1>2. CASE Sender
  BY <1>2, BroadcastLocks, BroadcastWrites, BroadcastEnds, BroadcastOutlives
     DEF Sender
<1> QED
  BY <1>1, <1>2, BroadcastEnvironment DEF Next, Gone

(***************************************************************************)
(* sendMessages: every open socket of the vector has been written each     *)
(* response since it joined exactly once, and in the order of the queue.   *)
(***************************************************************************)
THEOREM EveryoneHearsEverything == Spec => []BroadcastComplete
<1>1. BroadcastInv => BroadcastComplete
  BY DEF BroadcastInv
<1> QED
  BY <1>1, InvInit, InvNext, BroadcastInvInit, BroadcastInvNext, PTL DEF Spec
=============================================================================
