----------------------------- MODULE ChatServer -----------------------------
(***************************************************************************)
(* The chat server (server.cpp, main.cpp): the listening thread, which     *)
(* waits in flex_waiter::wait and handles one event at a time, and the     *)
(* sending thread, which writes the queued responses to every socket.      *)
(* They share the vector of sockets, the message queue, one mutex for      *)
(* each, the flag that stops both, and the flags of the sockets.           *)
(*                                                                         *)
(* A handler is split where the other thread can come between: at the      *)
(* acquisition of a mutex, and at each write to a socket.  A step that     *)
(* needs a mutex has it acquired by a step of its own before, and releases *)
(* it together with the last thing done under it.                          *)
(***************************************************************************)
EXTENDS FlexWaiter

CONSTANT NoConn     \* no socket is being handled

ASSUME NoConnAssumption == NoConn \notin Conn

VARIABLES
    fate,               \* whether the process runs, and how it ended
    killed,             \* server::killed
    sockets,            \* the sockets in server::sockets
    username,           \* the name paired with each of them
    messageQueue,       \* server::messageQueue
    messageQueueLock,   \* the thread that holds the mutex of that name
    socketsLock,        \* likewise
    pcL,                \* where the listening thread is
    cur,                \* the socket its handler was called with
    req,                \* the request it parsed
    pcS,                \* where the sending thread is
    mi,                 \* index of the response being sent
    todo,               \* the sockets it has yet to be written to
    enqueued,           \* history: number of responses ever queued
    refused,            \* history: number of logins ever refused
    last                \* history: number of the last one written to a socket

listenerVars == <<pcL, cur, req>>
senderVars   == <<pcS, mi, todo>>
lockVars     == <<messageQueueLock, socketsLock>>
vectorVars   == <<sockets, username>>
queueVars    == <<messageQueue, enqueued, refused>>

vars == <<socketVars, waiterVars, fate, killed, vectorVars, queueVars,
          lockVars, listenerVars, senderVars, last>>

(***************************************************************************)
(* Why the process ended: main returned, or an exception nobody catches,   *)
(* named after the call that throws it, a null pointer, SIGPIPE, or a      *)
(* thread that uses the server object after its end.                       *)
(***************************************************************************)
Crash == {"accept_error", "read_closed", "parse", "bad_object",
          "null_response", "write_closed", "sigpipe", "used_after_end"}

Fate == {"running", "exited"} \cup Crash

\* Places of the listening thread; in those of HoldsSockets its next step
\* is done under socketsLock, in "enqueue" under messageQueueLock.
HoldsSockets  == {"adopt", "remove", "visitLogin", "associate", "stop"}
ListenerPlace == {"listen", "select", "enqueue", "reply",
                  "returned", "destroyed"} \cup HoldsSockets

SenderPlace == {"loop", "asleep", "sending", "writing", "ended"}

Thread == {"listener", "sender"}

\* A response that goes to everybody, and its number in the queue's history.
Response == [type: {"login", "message"}, who: Names, number: Nat]

NoRequest == [type |-> "other", sender |-> NoName]

TypeOK ==
    /\ SocketsTypeOK
    /\ FlexWaiterTypeOK
    /\ fate \in Fate
    /\ killed \in BOOLEAN
    /\ sockets \in SUBSET Conn
    /\ username \in [Conn -> Names]
    /\ messageQueue \in Seq(Response)
    /\ messageQueueLock \in Thread \cup {"free"}
    /\ socketsLock \in Thread \cup {"free"}
    /\ pcL \in ListenerPlace
    /\ cur \in Conn \cup {NoConn}
    /\ req \in Request
    /\ pcS \in SenderPlace
    /\ mi \in Nat
    /\ todo \in SUBSET Conn
    /\ enqueued \in Nat
    /\ refused \in Nat
    /\ last \in [Conn -> Nat]

\* server::start has created the waiter and the sending thread.
Init ==
    /\ SocketsInit
    /\ FlexWaiterInit
    /\ fate = "running"
    /\ killed = FALSE
    /\ sockets = {}
    /\ username = [c \in Conn |-> NoName]
    /\ messageQueue = << >>
    /\ messageQueueLock = "free"
    /\ socketsLock = "free"
    /\ pcL = "listen"
    /\ cur = NoConn
    /\ req = NoRequest
    /\ pcS = "loop"
    /\ mi = 0
    /\ todo = {}
    /\ enqueued = 0
    /\ refused = 0
    /\ last = [c \in Conn |-> 0]

\* Responses that every socket present has been written to, but for the one
\* in progress: the queue holds those numbered from there on.
Done == enqueued - Len(messageQueue) + (IF mi > 0 THEN mi - 1 ELSE 0)

-----------------------------------------------------------------------------
(* Building blocks of the steps. *)

\* The process dies at once, with both its threads.
Die(cause) ==
    /\ fate' = cause
    /\ UNCHANGED <<socketVars, waiterVars, killed, vectorVars, queueVars,
                   lockVars, listenerVars, senderVars, last>>

\* The handler goes on, or returns and with it wait().
GoTo(place) == pcL' = place /\ UNCHANGED <<cur, req>>
HandlerReturns == pcL' = "listen" /\ cur' = NoConn /\ req' = NoRequest

UnlockSockets == socketsLock' = "free" /\ UNCHANGED messageQueueLock
UnlockQueue   == messageQueueLock' = "free" /\ UNCHANGED socketsLock

-----------------------------------------------------------------------------
(* The listening thread: server::listen and flex_waiter::wait. *)

\* Mutant of BeginWait: the loop does not look at the flag.
BeginWait_Always ==
    /\ pcL = "listen"
    /\ BuildFdSet
    /\ GoTo("select")
    /\ UNCHANGED <<socketVars, waiterSockets, stdin, fate, killed, vectorVars,
                   queueVars, lockVars, senderVars, last>>

\* while (!killed) waiter->wait(...): wait() up to its call of select().
BeginWait ==
    /\ pcL = "listen"
    /\ ~killed
    /\ BuildFdSet
    /\ GoTo("select")
    /\ UNCHANGED <<socketVars, waiterSockets, stdin, fate, killed, vectorVars,
                   queueVars, lockVars, senderVars, last>>

\* The second is over and nothing happened.
Timeout ==
    /\ pcL = "select"
    /\ TimesOut
    /\ watched' = {}
    /\ GoTo("listen")
    /\ UNCHANGED <<socketVars, waiterSockets, stdin, fate, killed, vectorVars,
                   queueVars, lockVars, senderVars, last>>

\* onSTDIN; for "exit" it calls stop(), which sets the flag first.
OnStdin ==
    /\ pcL = "select"
    /\ CallsOnStdin
    /\ TakeInput
    /\ watched' = {}
    /\ killed' = (killed \/ stdin = "exit")
    /\ GoTo(IF stdin = "exit" THEN "stop" ELSE "listen")
    /\ UNCHANGED <<socketVars, waiterSockets, fate, vectorVars, queueVars,
                   lockVars, senderVars, last>>

\* onSocketServer up to its lock.
OnSocketServer ==
    /\ pcL = "select"
    /\ CallsOnSocketServer
    /\ \/ /\ AcceptFails
          /\ Die("accept_error")
       \/ \E c \in backlog :
            /\ Accept(c)
            /\ watched' = {}
            /\ pcL' = "adopt"
            /\ cur' = c
            /\ UNCHANGED <<listening, peerSideVars, waiterSockets, stdin, fate,
                           killed, vectorVars, queueVars, lockVars, req,
                           senderVars, last>>

\* The handler's next step after a request has been parsed and visited:
\* visitLogin locks first, visitMessage just builds the response.
AfterParse(r) == IF r.type = "login" THEN "visitLogin" ELSE "enqueue"

(***************************************************************************)
(* onSocket up to its first lock: read, and unless the read returned 0,    *)
(* parse and visit.  A read that failed leaves the buffer empty, and that  *)
(* is parsed as well.  An object without all its properties throws; the    *)
(* null pointer for an unknown type is dereferenced.                       *)
(***************************************************************************)
OnSocketText(c) ==
    \E k \in 1 .. Len(inbox[c]) :
        LET text == SubSeq(inbox[c], 1, k)
            r    == Parsed(text)
        IN  \/ /\ ~Parses(text)
               /\ Die("parse")
            \/ /\ Parses(text)
               /\ Incomplete(r)
               /\ Die("bad_object")
            \/ /\ Parses(text)
               /\ Unknown(r)
               /\ Die("null_response")
            \/ /\ Parses(text)
               /\ ~Incomplete(r) /\ ~Unknown(r)
               /\ ReadText(c, k)
               /\ pcL' = AfterParse(r)
               /\ cur' = c
               /\ req' = r
               /\ watched' = {}
               /\ UNCHANGED <<serverSideVars, peer, outbox, sent,
                              waiterSockets, stdin, fate, killed, vectorVars,
                              queueVars, lockVars, senderVars, last>>

OnSocket(c) ==
    /\ pcL = "select"
    /\ CallsOnSocket(c)
    /\ \/ /\ c \notin open
          /\ Die("read_closed")
       \/ /\ c \in open
          /\ OnSocketText(c)
       \/ /\ c \in open
          /\ ReadEnd(c)
          /\ pcL' = "remove"
          /\ cur' = c
          /\ watched' = {}
          /\ UNCHANGED <<held, listening, backlog, peerSideVars,
                         waiterSockets, stdin, fate, killed, vectorVars,
                         queueVars, lockVars, req, senderVars, last>>
       \/ /\ c \in open
          /\ ReadFails(c)
          /\ Die("parse")

-----------------------------------------------------------------------------
(* The listening thread: what the handlers do under a lock. *)

ListenerLocksSockets ==
    /\ pcL \in HoldsSockets
    /\ socketsLock = "free"
    /\ socketsLock' = "listener"
    /\ UNCHANGED <<socketVars, waiterVars, fate, killed, vectorVars, queueVars,
                   messageQueueLock, listenerVars, senderVars, last>>

ListenerLocksQueue ==
    /\ pcL = "enqueue"
    /\ messageQueueLock = "free"
    /\ messageQueueLock' = "listener"
    /\ UNCHANGED <<socketVars, waiterVars, fate, killed, vectorVars, queueVars,
                   socketsLock, listenerVars, senderVars, last>>

\* Mutant of Adopt: the socket is not given to the waiter.
Adopt_Unwatched ==
    /\ pcL = "adopt"
    /\ socketsLock = "listener"
    /\ sockets' = sockets \cup {cur}
    /\ username' = [username EXCEPT ![cur] = NoName]
    /\ last' = [last EXCEPT ![cur] = Done]
    /\ UnlockSockets
    /\ HandlerReturns
    /\ UNCHANGED <<socketVars, waiterVars, fate, killed, queueVars, senderVars>>

\* Mutant of Adopt: the vector grows whoever holds the lock.
Adopt_NoLock ==
    /\ pcL = "adopt"
    /\ sockets' = sockets \cup {cur}
    /\ username' = [username EXCEPT ![cur] = NoName]
    /\ AddSocket(cur)
    /\ last' = [last EXCEPT ![cur] = Done]
    /\ socketsLock' = (IF socketsLock = "listener" THEN "free" ELSE socketsLock)
    /\ UNCHANGED messageQueueLock
    /\ HandlerReturns
    /\ UNCHANGED <<socketVars, watched, stdin, fate, killed, queueVars,
                   senderVars>>

\* onSocketServer: the new socket has no name yet.
Adopt ==
    /\ pcL = "adopt"
    /\ socketsLock = "listener"
    /\ sockets' = sockets \cup {cur}
    /\ username' = [username EXCEPT ![cur] = NoName]
    /\ AddSocket(cur)
    /\ last' = [last EXCEPT ![cur] = Done]
    /\ UnlockSockets
    /\ HandlerReturns
    /\ UNCHANGED <<socketVars, watched, stdin, fate, killed, queueVars,
                   senderVars>>

\* Mutant of RemoveEnded: the vector shrinks whoever holds the lock.
RemoveEnded_NoLock ==
    /\ pcL = "remove"
    /\ sockets' = sockets \ {cur}
    /\ username' = [username EXCEPT ![cur] = NoName]
    /\ RemoveSocket(cur)
    /\ last' = [last EXCEPT ![cur] = 0]
    /\ socketsLock' = (IF socketsLock = "listener" THEN "free" ELSE socketsLock)
    /\ UNCHANGED messageQueueLock
    /\ HandlerReturns
    /\ UNCHANGED <<socketVars, watched, stdin, fate, killed, queueVars,
                   senderVars>>

\* Mutant of RemoveEnded: only the waiter forgets the socket.
RemoveEnded_KeepsPair ==
    /\ pcL = "remove"
    /\ socketsLock = "listener"
    /\ RemoveSocket(cur)
    /\ UnlockSockets
    /\ HandlerReturns
    /\ UNCHANGED <<socketVars, watched, stdin, fate, killed, vectorVars,
                   queueVars, senderVars, last>>

\* onSocket, the branch for a socket that ended.
RemoveEnded ==
    /\ pcL = "remove"
    /\ socketsLock = "listener"
    /\ sockets' = sockets \ {cur}
    /\ username' = [username EXCEPT ![cur] = NoName]
    /\ RemoveSocket(cur)
    /\ last' = [last EXCEPT ![cur] = 0]
    /\ UnlockSockets
    /\ HandlerReturns
    /\ UNCHANGED <<socketVars, watched, stdin, fate, killed, queueVars,
                   senderVars>>

\* Mutant of InUse: only the names of open sockets count.
InUse_OpenOnly(name) == \E c \in sockets \cap open : username[c] = name

\* visitLogin compares with every name, that of a nameless socket included.
InUse(name) == \E c \in sockets : username[c] = name

VisitLogin ==
    /\ pcL = "visitLogin"
    /\ socketsLock = "listener"
    /\ GoTo(IF InUse(req.sender) THEN "reply" ELSE "associate")
    /\ UnlockSockets
    /\ UNCHANGED <<socketVars, waiterVars, fate, killed, vectorVars,
                   queueVars, senderVars, last>>

\* Mutant of Associate: the lock's scope is the rest of the handler.
Associate_KeepsLock ==
    /\ pcL = "associate"
    /\ socketsLock = "listener"
    /\ username' = [c \in Conn |->
                        IF c \in sockets /\ c = cur THEN req.sender
                                                    ELSE username[c]]
    /\ GoTo("enqueue")
    /\ UNCHANGED <<socketVars, waiterVars, fate, killed, sockets, queueVars,
                   lockVars, senderVars, last>>

\* onSocket: the name goes to the socket of the request.
Associate ==
    /\ pcL = "associate"
    /\ socketsLock = "listener"
    /\ username' = [c \in Conn |->
                        IF c \in sockets /\ c = cur THEN req.sender
                                                    ELSE username[c]]
    /\ GoTo("enqueue")
    /\ UnlockSockets
    /\ UNCHANGED <<socketVars, waiterVars, fate, killed, sockets, queueVars,
                   senderVars, last>>

\* onSocket: the response of a login or of a message is queued.
Enqueue ==
    /\ pcL = "enqueue"
    /\ messageQueueLock = "listener"
    /\ messageQueue' = Append(messageQueue,
                              [type   |-> req.type,
                               who    |-> req.sender,
                               number |-> enqueued + 1])
    /\ enqueued' = enqueued + 1
    /\ UnlockQueue
    /\ HandlerReturns
    /\ UNCHANGED <<socketVars, waiterVars, fate, killed, vectorVars,
                   refused, senderVars, last>>

\* onSocket: an error goes back to the socket of the request, without a lock.
Reply ==
    /\ pcL = "reply"
    /\ \/ /\ cur \notin open
          /\ Die("write_closed")
       \/ /\ cur \in open
          /\ WriteKills(cur)
          /\ Die("sigpipe")
       \/ /\ cur \in open
          /\ \/ WriteText(cur) /\ UNCHANGED open
             \/ WriteFailure(cur) /\ UNCHANGED <<peer, outbox>>
          /\ refused' = refused + 1
          /\ HandlerReturns
          /\ UNCHANGED <<held, listening, backlog, inbox, sent, waiterVars,
                         fate, killed, vectorVars, messageQueue, enqueued,
                         lockVars, senderVars, last>>

\* stop() after the lock.  sockets.empty() only asks: the vector stays.
Stop ==
    /\ pcL = "stop"
    /\ socketsLock = "listener"
    /\ CloseAll(sockets)
    /\ ShutDownServerSocket
    /\ UnlockSockets
    /\ HandlerReturns
    /\ UNCHANGED <<backlog, peerSideVars, waiterVars, fate, killed, vectorVars,
                   queueVars, senderVars, last>>

\* The loop ends, listen() and start() return to main.
EndListen ==
    /\ pcL = "listen"
    /\ killed
    /\ GoTo("returned")
    /\ UNCHANGED <<socketVars, waiterVars, fate, killed, vectorVars, queueVars,
                   lockVars, senderVars, last>>

\* main drops the last reference to the server; the thread is not joined.
DestroyServer ==
    /\ pcL = "returned"
    /\ GoTo("destroyed")
    /\ UNCHANGED <<socketVars, waiterVars, fate, killed, vectorVars, queueVars,
                   lockVars, senderVars, last>>

\* main returns, and the process ends.
Exit ==
    /\ pcL = "destroyed"
    /\ Die("exited")

Listener ==
    /\ fate = "running"
    /\ \/ BeginWait \/ Timeout \/ OnStdin \/ OnSocketServer
       \/ \E c \in Conn : OnSocket(c)
       \/ ListenerLocksSockets \/ ListenerLocksQueue
       \/ Adopt \/ RemoveEnded \/ VisitLogin \/ Associate \/ Enqueue \/ Reply
       \/ Stop \/ EndListen \/ DestroyServer \/ Exit

-----------------------------------------------------------------------------
(* The sending thread: server::sendMessages. *)

\* while (!killed), and the sleep that begins the body.
SenderTest ==
    /\ pcS = "loop"
    /\ pcS' = (IF killed THEN "ended" ELSE "asleep")
    /\ UNCHANGED <<socketVars, waiterVars, fate, killed, vectorVars, queueVars,
                   lockVars, listenerVars, mi, todo, last>>

SenderLocksQueue ==
    /\ pcS = "asleep"
    /\ messageQueueLock = "free"
    /\ messageQueueLock' = "sender"
    /\ mi' = 1
    /\ pcS' = "sending"
    /\ UNCHANGED <<socketVars, waiterVars, fate, killed, vectorVars, queueVars,
                   socketsLock, listenerVars, todo, last>>

\* Mutant of SenderLocksSockets: sockets without a name are passed over.
SenderLocksSockets_NamedOnly ==
    /\ pcS = "sending"
    /\ mi <= Len(messageQueue)
    /\ socketsLock = "free"
    /\ socketsLock' = "sender"
    /\ todo' = { c \in sockets : username[c] # NoName }
    /\ pcS' = "writing"
    /\ UNCHANGED <<socketVars, waiterVars, fate, killed, vectorVars, queueVars,
                   messageQueueLock, listenerVars, mi, last>>

\* The body of the loop over the queue, up to its loop over the sockets.
SenderLocksSockets ==
    /\ pcS = "sending"
    /\ mi <= Len(messageQueue)
    /\ socketsLock = "free"
    /\ socketsLock' = "sender"
    /\ todo' = sockets
    /\ pcS' = "writing"
    /\ UNCHANGED <<socketVars, waiterVars, fate, killed, vectorVars, queueVars,
                   messageQueueLock, listenerVars, mi, last>>

(***************************************************************************)
(* One write to one socket.  The vector's order is left open: nothing      *)
(* stated here depends on which of two sockets is written to first.        *)
(***************************************************************************)
SenderWrites(c) ==
    /\ pcS = "writing"
    /\ c \in todo
    /\ \/ /\ c \notin open
          /\ Die("write_closed")
       \/ /\ c \in open
          /\ WriteKills(c)
          /\ Die("sigpipe")
       \/ /\ c \in open
          /\ \/ /\ WriteText(c)
                /\ last' = [last EXCEPT ![c] = messageQueue[mi].number]
                /\ UNCHANGED open
             \/ /\ WriteFailure(c)
                /\ UNCHANGED <<peer, outbox, last>>
          /\ todo' = todo \ {c}
          /\ UNCHANGED <<held, listening, backlog, inbox, sent, waiterVars,
                         fate, killed, vectorVars, queueVars, lockVars,
                         listenerVars, pcS, mi>>

\* The loop over the sockets ends, and with it the scope of socketsLock.
SenderUnlocksSockets ==
    /\ pcS = "writing"
    /\ todo = {}
    /\ UnlockSockets
    /\ mi' = mi + 1
    /\ pcS' = "sending"
    /\ UNCHANGED <<socketVars, waiterVars, fate, killed, vectorVars, queueVars,
                   listenerVars, todo, last>>

\* Mutant of SenderClears: the loop may end one response early.
SenderClears_OffByOne ==
    /\ pcS = "sending"
    /\ mi >= Len(messageQueue)
    /\ messageQueue' = << >>
    /\ mi' = 0
    /\ UnlockQueue
    /\ pcS' = "loop"
    /\ UNCHANGED <<socketVars, waiterVars, fate, killed, vectorVars, enqueued,
                   refused, listenerVars, todo, last>>

\* All responses are sent, or there was none: the queue is cleared.
SenderClears ==
    /\ pcS = "sending"
    /\ mi > Len(messageQueue)
    /\ messageQueue' = << >>
    /\ mi' = 0
    /\ UnlockQueue
    /\ pcS' = "loop"
    /\ UNCHANGED <<socketVars, waiterVars, fate, killed, vectorVars, enqueued,
                   refused, listenerVars, todo, last>>

(***************************************************************************)
(* Once main has destroyed the server, whatever the thread does next uses  *)
(* freed memory, which is undefined: the process may die, or the thread    *)
(* may read a flag that ends its loop.                                     *)
(***************************************************************************)
SenderOutlivesServer ==
    /\ pcL = "destroyed"
    /\ pcS # "ended"
    /\ \/ Die("used_after_end")
       \/ /\ pcS' = "ended"
          /\ UNCHANGED <<socketVars, waiterVars, fate, killed, vectorVars,
                         queueVars, lockVars, listenerVars, mi, todo, last>>

Sender ==
    /\ fate = "running"
    /\ \/ /\ pcL # "destroyed"
          /\ \/ SenderTest \/ SenderLocksQueue \/ SenderLocksSockets
             \/ \E c \in Conn : SenderWrites(c)
             \/ SenderUnlocksSockets \/ SenderClears
       \/ SenderOutlivesServer

-----------------------------------------------------------------------------
Peers ==
    /\ fate = "running"
    /\ \E c \in Conn : PeerStep(c)
    /\ UNCHANGED <<waiterVars, fate, killed, vectorVars, queueVars, lockVars,
                   listenerVars, senderVars, last>>

Operator ==
    /\ fate = "running"
    /\ Type
    /\ UNCHANGED <<fate, killed, vectorVars, queueVars, lockVars,
                   listenerVars, senderVars, last>>

\* The process is gone: nothing more happens.
Gone == fate # "running" /\ UNCHANGED vars

Next == Listener \/ Sender \/ Peers \/ Operator \/ Gone

Spec == Init /\ [][Next]_vars

(***************************************************************************)
(* Fairness.  Both threads run whenever they can, and a peer that is       *)
(* connected goes on reading.  A mutex wakes a waiter when it is free long *)
(* enough, which is what strong fairness says: sendMessages sleeps 100 ms  *)
(* in each round without either mutex, so the listening thread gets both.  *)
(* The sending thread needs no more than weak fairness: a finite number of *)
(* requests makes the listening thread lock a finite number of times.      *)
(***************************************************************************)
Reads(c) ==
    /\ fate = "running"
    /\ PeerRead(c)
    /\ UNCHANGED <<waiterVars, fate, killed, vectorVars, queueVars, lockVars,
                   listenerVars, senderVars, last>>

ListenerLocks ==
    fate = "running" /\ (ListenerLocksSockets \/ ListenerLocksQueue)

ThreadFairness ==
    WF_vars(Listener) /\ WF_vars(Sender) /\ SF_vars(ListenerLocks)
ReaderFairness == \A c \in Conn : WF_vars(Reads(c))

FairSpec == Spec /\ ThreadFairness /\ ReaderFairness

-----------------------------------------------------------------------------
(* Safety. *)

(***************************************************************************)
(* No two sockets of the vector carry the same name.  visitLogin checks    *)
(* the name under socketsLock, releases it, and onSocket stores the name   *)
(* under a second acquisition: nothing may take the name in between.       *)
(***************************************************************************)
UsernamesUnique ==
    \A c, d \in sockets :
        c # d /\ username[c] = username[d] => username[c] = NoName

(***************************************************************************)
(* The two threads never wait for each other's mutex.  sendMessages takes  *)
(* socketsLock while it holds messageQueueLock, so onSocket must have left *)
(* the scope of socketsLock when it asks for messageQueueLock.             *)
(***************************************************************************)
Mutex == {"messageQueueLock", "socketsLock"}

Owner == [m \in Mutex |-> IF m = "socketsLock" THEN socketsLock
                                               ELSE messageQueueLock]

Awaits(t) ==
    IF t = "listener"
    THEN (IF pcL \in HoldsSockets THEN {"socketsLock"} ELSE {}) \cup
         (IF pcL = "enqueue" THEN {"messageQueueLock"} ELSE {})
    ELSE (IF pcS = "sending" /\ mi <= Len(messageQueue)
            THEN {"socketsLock"} ELSE {}) \cup
         (IF pcS = "asleep" THEN {"messageQueueLock"} ELSE {})

NoWaitCycle ==
    \A m, n \in Mutex :
        ~ /\ m \in Awaits("listener") /\ Owner[m] = "sender"
          /\ n \in Awaits("sender")   /\ Owner[n] = "listener"

(***************************************************************************)
(* Every open socket of the vector has been written each response exactly  *)
(* once, in the order in which they were queued, from the ones it joined   *)
(* on: all that are done, and the one in progress if its turn is over.     *)
(***************************************************************************)
BroadcastComplete ==
    \A c \in sockets \cap open :
        last[c] = Done + (IF pcS = "writing" /\ c \notin todo THEN 1 ELSE 0)

(***************************************************************************)
(* The process dies only of what the peers or the operator did: a clean    *)
(* session, in which every peer stays, sends one whole request of a known  *)
(* type at a time and reads, nobody types exit, and no more peers connect  *)
(* than there are descriptors, cannot bring it down.  Those who left count *)
(* as well, since the descriptor of an ended connection stays in use.      *)
(***************************************************************************)
Left(states) == \E c \in Conn : peer[c] \in states

Connected == { c \in Conn : peer[c] # "absent" }

CrashHasCause ==
    /\ fate = "accept_error" => Cardinality(Connected) > MaxFds
    /\ fate = "write_closed" => killed \/ Left({"closed", "dead", "reset"})
    /\ fate = "sigpipe" => Left({"dead"})
    /\ fate = "read_closed" => Left({"reset"})
    /\ fate = "parse" =>
            Left({"reset"}) \/ \E c \in Conn : Len(inbox[c]) > 1
                            \/ \E i \in 1 .. Len(inbox[c]) :
                                    inbox[c][i].piece # "whole"
    /\ fate = "bad_object" =>
            \E c \in Conn : \E i \in 1 .. Len(inbox[c]) :
                Incomplete(inbox[c][i].req)
    /\ fate = "null_response" =>
            \E c \in Conn : \E i \in 1 .. Len(inbox[c]) :
                Unknown(inbox[c][i].req)
    /\ fate = "used_after_end" => killed

(***************************************************************************)
(* sendMessages iterates over the vector and over the queue with iterators *)
(* that an insertion or an erasure would invalidate: while it does, no     *)
(* step changes either, but for its own clearing of the queue at the end.  *)
(***************************************************************************)
IterationsStable ==
    [][ /\ pcS = "writing" => UNCHANGED vectorVars
        /\ pcS \in {"sending", "writing"} =>
              UNCHANGED messageQueue \/ (pcS' = "loop" /\ messageQueue' = << >>)
      ]_vars

-----------------------------------------------------------------------------
(* Liveness, of FairSpec. *)

Over == killed \/ fate # "running"

\* sendMessages: a response that is queued is in the end written to every
\* socket that was there and stays open.
EventuallyTold ==
    \A n \in 1 .. MaxSends : \A c \in Conn :
        (enqueued >= n /\ c \in sockets \cap open)
            ~> (last[c] >= n \/ c \notin sockets \cap open \/ Over)

(***************************************************************************)
(* wait() handles one event in each call, always the first that is ready   *)
(* in a fixed order, with standard input and the listening socket before   *)
(* every connection.  As long as others are ready again each time, a       *)
(* connection is passed over: nothing more is promised to it then.         *)
(***************************************************************************)
PassedOver(c) ==
    []<><<fate = "running" /\ (\/ OnStdin \/ OnSocketServer
                               \/ \E d \in Conn \ {c} : OnSocket(d))>>_vars

\* flex_waiter::wait and onSocket: text that arrived is read in the end,
\* unless others are handled before it again and again for ever.
EventuallyRead ==
    \A c \in Conn :
        \/ PassedOver(c)
        \/ (inbox[c] # << >>)
              ~> (inbox[c] = << >> \/ peer[c] = "reset" \/ Over)

\* onSocket: the socket of a peer that closed leaves the vector in the end,
\* unless others are handled before it again and again for ever.
EventuallyRemoved ==
    \A c \in Conn :
        \/ PassedOver(c)
        \/ (c \in sockets /\ Ended(c)) ~> (c \notin sockets \/ Over)

\* onSTDIN, stop: once exit was typed the process ends.
EventuallyStops == killed ~> (fate # "running")
=============================================================================
