--------------------------- MODULE NetworkLibrary ---------------------------
(***************************************************************************)
(* The networking library of the server, se3313::networking, as any        *)
(* program may use it: socket, socket_server and flex_waiter over the      *)
(* descriptor table of the process.  Sockets and FlexWaiter have the calls *)
(* the chat server makes; here are all of them, with the numbers that the  *)
(* kernel gives out, takes back and gives out again.                       *)
(*                                                                         *)
(* One thread waits, calls the handlers from there, reads and accepts.     *)
(* Others connect, write to, close and destroy sockets and call kill() at  *)
(* any moment; the calls on one object are made one at a time.             *)
(***************************************************************************)
EXTENDS Integers

CONSTANTS
    Sock,       \* socket objects a program may construct, each once
    Fd          \* the descriptor numbers it may have beside the standard ones

ASSUME FdAssumption == Fd \subseteq Nat

\* What is neither a socket nor the connection of one.
ASSUME SockAssumption ==
    Sock \cap {"free", "listener", "event", "nobody"} = {}

NoFd == -1

VARIABLES
    table,      \* what each number names: the kernel's side
    life,       \* whether an object was constructed and is not destroyed
    fd,         \* socket::_socketFD
    open,       \* the objects with socket::_open
    stream,     \* what a read of the connection would find
    serverFd,   \* socket_server::_socketFD
    server      \* whether it listens, and somebody waits to be accepted

VARIABLES
    alive,      \* the flex_waiter has not been destroyed
    sockets,    \* flex_waiter::_sockets
    master,     \* flex_waiter::_master is set
    killFd,     \* flex_waiter::_killEventFD
    signal,     \* the event was written and not read
    pc,         \* where the waiting thread is
    fdSet,      \* the numbers in theSet of the current wait()
    forever,    \* it was called without a timeout
    cur,        \* the socket onSocket was called with
    meddled     \* history: a number in theSet was closed after it was built

socketVars == <<life, fd, open, stream>>
serverVars == <<serverFd, server>>
setVars    == <<sockets, master, alive>>
waitVars   == <<pc, fdSet, forever, cur>>
vars == <<table, socketVars, serverVars, setVars, killFd, signal, waitVars,
          meddled>>

\* What a number may name beside the connection of a socket.
Other == {"free", "listener", "event"}

Nobody == "nobody"

TypeOK ==
    /\ table \in [Fd -> Sock \cup Other]
    /\ life \in [Sock -> {"unborn", "live", "gone"}]
    /\ fd \in [Sock -> Fd \cup {NoFd}]
    /\ open \in SUBSET Sock
    /\ stream \in [Sock -> {"quiet", "text", "end"}]
    /\ serverFd \in Fd \cup {NoFd}
    /\ server \in {"none", "listens", "pending", "down"}
    /\ alive \in BOOLEAN
    /\ sockets \in SUBSET Sock
    /\ master \in BOOLEAN
    /\ killFd \in Fd \cup {NoFd}
    /\ signal \in BOOLEAN
    /\ pc \in {"idle", "built", "blocked", "handling", "threw"}
    /\ fdSet \in SUBSET Fd
    /\ forever \in BOOLEAN
    /\ cur \in Sock \cup {Nobody}
    /\ meddled \in BOOLEAN

Init ==
    /\ table = [f \in Fd |-> "free"]
    /\ life = [s \in Sock |-> "unborn"]
    /\ fd = [s \in Sock |-> NoFd]
    /\ open = {}
    /\ stream = [s \in Sock |-> "quiet"]
    /\ serverFd = NoFd
    /\ server = "none"
    /\ alive = TRUE
    /\ sockets = {}
    /\ master = FALSE
    /\ killFd = NoFd
    /\ signal = FALSE
    /\ pc = "idle"
    /\ fdSet = {}
    /\ forever = FALSE
    /\ cur = Nobody
    /\ meddled = FALSE

-----------------------------------------------------------------------------
(* The kernel: the lowest free number is the next. *)

Free == { f \in Fd : table[f] = "free" }

Allocate(owner, f) ==
    /\ f \in Free
    /\ \A g \in Free : f <= g
    /\ table' = [table EXCEPT ![f] = owner]

\* ::close, which takes the number whatever it names by now.
CloseNumber(f) ==
    /\ table' = [table EXCEPT ![f] = "free"]
    /\ meddled' = (meddled \/ (pc = "built" /\ f \in fdSet))

\* Something arrives, ends or breaks a connection, or asks for one.
Peer ==
    /\ \/ /\ \E s \in open :
                /\ stream[s] # "end"
                /\ \E now \in {"text", "end"} :
                        stream' = [stream EXCEPT ![s] = now]
          /\ UNCHANGED server
       \/ server = "listens" /\ server' = "pending" /\ UNCHANGED stream
    /\ UNCHANGED <<table, life, fd, open, serverFd, setVars, killFd, signal,
                   waitVars, meddled>>

-----------------------------------------------------------------------------
(* socket. *)

NoneOfSockets == UNCHANGED <<socketVars, serverVars>>
NoneOfWaiter  == UNCHANGED <<setVars, killFd, signal, waitVars>>

\* An object around a number the kernel gave out.
Construct(s, f) ==
    /\ Allocate(s, f)
    /\ life' = [life EXCEPT ![s] = "live"]
    /\ fd' = [fd EXCEPT ![s] = f]
    /\ open' = open \cup {s}
    /\ UNCHANGED stream

\* The constructor that connects.  If it throws there is no object, and the
\* number, if it got one, is not given back.
Connect(s) ==
    /\ life[s] = "unborn"
    /\ \/ \E f \in Fd : Construct(s, f)
       \/ /\ \/ \E f \in Fd : Allocate(s, f)
             \/ Free = {} /\ UNCHANGED table
          /\ life' = [life EXCEPT ![s] = "gone"]
          /\ stream' = [stream EXCEPT ![s] = "end"]
          /\ UNCHANGED <<fd, open>>
    /\ UNCHANGED <<serverVars, meddled>>
    /\ NoneOfWaiter

\* Either read, of an open socket, when it does not block.  On one that is
\* not open they change nothing: one throws, the other returns -1.
Read(s) ==
    /\ s \in open
    /\ \/ /\ stream[s] = "text"
          /\ stream' = [stream EXCEPT ![s] = "quiet"]
          /\ UNCHANGED open
       \/ /\ stream[s] = "end"
          /\ open' = open \ {s}
          /\ UNCHANGED stream
    /\ UNCHANGED <<table, life, fd, serverVars, meddled>>
    /\ NoneOfWaiter

\* A write that returns -1; others change nothing here.
WriteFails(s) ==
    /\ s \in open
    /\ stream[s] = "end"
    /\ open' = open \ {s}
    /\ UNCHANGED <<table, life, fd, stream, serverVars, meddled>>
    /\ NoneOfWaiter

\* Mutant of Shut: the flag stays up.
Shut_KeepsFlag(s) ==
    IF s \in open
    THEN CloseNumber(fd[s]) /\ UNCHANGED <<open, stream>>
    ELSE UNCHANGED <<table, open, stream, meddled>>

\* Mutant of Shut: only the flag is lowered.
Shut_FlagOnly(s) ==
    open' = open \ {s} /\ UNCHANGED <<table, stream, meddled>>

\* close(): what is closed already, or ended, is left alone.
Shut(s) ==
    IF s \in open
    THEN /\ open' = open \ {s}
         /\ CloseNumber(fd[s])
         /\ stream' = [stream EXCEPT ![s] = "quiet"]
    ELSE UNCHANGED <<table, open, stream, meddled>>

Close(s) ==
    /\ life[s] = "live"
    /\ Shut(s)
    /\ UNCHANGED <<life, fd, serverVars>>
    /\ NoneOfWaiter

\* The last reference goes: the waiter and a running handler have one each.
Destroy(s) ==
    /\ life[s] = "live"
    /\ s \notin sockets /\ s # cur
    /\ Shut(s)
    /\ life' = [life EXCEPT ![s] = "gone"]
    /\ fd' = [fd EXCEPT ![s] = NoFd]
    /\ UNCHANGED serverVars
    /\ NoneOfWaiter

-----------------------------------------------------------------------------
(* socket_server. *)

\* The constructor; it throws without a number, or if bind fails.
Serve ==
    /\ serverFd = NoFd
    /\ \E f \in Fd :
        /\ Allocate("listener", f)
        /\ \/ serverFd' = f /\ server' = "listens"
           \/ UNCHANGED serverVars
    /\ UNCHANGED <<socketVars, meddled>>
    /\ NoneOfWaiter

\* close(), and the destructor: the number is not given back.
StopServing ==
    /\ server \in {"listens", "pending"}
    /\ server' = "down"
    /\ UNCHANGED <<table, socketVars, serverFd, meddled>>
    /\ NoneOfWaiter

\* accept() returns a connection; it throws, and changes nothing, without a
\* number or once the server was shut down.
Accept(s) ==
    /\ life[s] = "unborn"
    /\ server = "pending"
    /\ \E f \in Fd : Construct(s, f)
    /\ server' = "listens"
    /\ UNCHANGED <<serverFd, meddled>>
    /\ NoneOfWaiter

-----------------------------------------------------------------------------
(* flex_waiter: its sets and the kill event. *)

WithoutMeddling == UNCHANGED <<table, meddled>> /\ NoneOfSockets

AddSocket(s) ==
    /\ life[s] = "live"
    /\ sockets' = sockets \cup {s}
    /\ UNCHANGED <<master, alive, killFd, signal, waitVars>>
    /\ WithoutMeddling

RemoveSocket(s) ==
    /\ sockets' = sockets \ {s}
    /\ UNCHANGED <<master, alive, killFd, signal, waitVars>>
    /\ WithoutMeddling

SetServer ==
    /\ serverFd # NoFd
    /\ master' \in BOOLEAN
    /\ UNCHANGED <<sockets, alive, killFd, signal, waitVars>>
    /\ WithoutMeddling

\* kill() writes to the event if there is one yet, waiting or not.
Kill ==
    /\ alive
    /\ killFd # NoFd
    /\ signal' = TRUE
    /\ UNCHANGED <<setVars, killFd, waitVars>>
    /\ WithoutMeddling

\* The destructor.
DestroyWaiter ==
    /\ alive
    /\ pc \in {"idle", "threw"}
    /\ alive' = FALSE
    /\ sockets' = {} /\ master' = FALSE
    /\ killFd' = NoFd
    /\ signal' = FALSE
    /\ IF killFd # NoFd THEN CloseNumber(killFd)
                        ELSE UNCHANGED <<table, meddled>>
    /\ UNCHANGED waitVars
    /\ NoneOfSockets

-----------------------------------------------------------------------------
(* flex_waiter::wait. *)

\* Mutant of Watched: closed sockets are watched as well.
Watched_All ==
    { fd[s] : s \in sockets } \cup (IF master THEN {serverFd} ELSE {})

\* The set: the sockets that are open now, and the server's.
Watched ==
    { fd[s] : s \in sockets \cap open } \cup
        (IF master THEN {serverFd} ELSE {})

BuildSet ==
    /\ alive
    /\ pc \in {"idle", "threw"}
    /\ fdSet' = Watched
    /\ pc' = "built"
    /\ meddled' = FALSE
    /\ UNCHANGED <<table, setVars, killFd, signal, forever, cur>>
    /\ NoneOfSockets

\* Under the mutex: the event is created by the first wait.
EventNumber ==
    \/ killFd # NoFd /\ UNCHANGED <<table, killFd>>
    \/ killFd = NoFd /\ \E f \in Fd : Allocate("event", f) /\ killFd' = f
    \/ killFd = NoFd /\ Free = {} /\ UNCHANGED <<table, killFd>>

\* select() is called; it fails at once for a number that is closed.
Calls(set) ==
    /\ fdSet' = set
    /\ pc' = (IF set \cap Free' = {} THEN "blocked" ELSE "threw")
    /\ forever' \in BOOLEAN

\* Mutant of EnterSelect: nobody looks whether there is an event.
EnterSelect_Unchecked ==
    /\ pc = "built"
    /\ EventNumber
    /\ Calls(fdSet \cup {killFd'})
    /\ UNCHANGED <<setVars, signal, cur, meddled>>
    /\ NoneOfSockets

\* Mutant of EnterSelect: the event is not watched.
EnterSelect_Deaf ==
    /\ pc = "built"
    /\ EventNumber
    /\ killFd' # NoFd
    /\ Calls(fdSet)
    /\ UNCHANGED <<setVars, signal, cur, meddled>>
    /\ NoneOfSockets

(***************************************************************************)
(* Without a number there is no event, and wait() throws.  Without a       *)
(* timeout it waits for ever; the test for that compares milliseconds with *)
(* seconds::min(), which overflows: with the usual wrapping a timeout of 0 *)
(* is taken for none as well.                                              *)
(***************************************************************************)
EnterSelect ==
    /\ pc = "built"
    /\ EventNumber
    /\ \/ killFd' # NoFd /\ Calls(fdSet \cup {killFd'})
       \/ killFd' = NoFd /\ pc' = "threw" /\ UNCHANGED <<fdSet, forever>>
    /\ UNCHANGED <<setVars, signal, cur, meddled>>
    /\ NoneOfSockets

\* What select() finds by a number is that of whoever has it by now.
Ready(f) ==
    \/ table[f] \in Sock /\ stream[table[f]] # "quiet"
    \/ f = serverFd /\ server \in {"pending", "down"}
    \/ f = killFd /\ signal

\* Mutant of IsSet: select() is called with the highest number, not one more.
IsSet_BelowHighest(f) == f \in fdSet /\ Ready(f) /\ \E g \in fdSet : f < g

IsSet(f) == f \in fdSet /\ Ready(f)

\* Mutant of Active: theSet as it was passed to select().
Active_Unchanged(s) == fd[s] \in fdSet

Active(s) == IsSet(fd[s])

Returns(place, socket) ==
    /\ pc' = place
    /\ cur' = socket
    /\ fdSet' = {}
    /\ forever' = FALSE
    /\ meddled' = FALSE

(***************************************************************************)
(* Which handler is called, in this order: none for the event; onSTDIN, if *)
(* standard input is ready; onSocketServer; onSocket for one of the        *)
(* sockets that has a number select() reported, be it open or not.  If no  *)
(* socket has one it is a time out.                                        *)
(***************************************************************************)
Dispatch(stdin) ==
    \/ /\ IsSet(killFd)
       /\ signal' = FALSE
       /\ Returns("idle", Nobody)
    \/ /\ ~IsSet(killFd)
       /\ \/ /\ stdin \/ (master /\ IsSet(serverFd))
             /\ Returns("handling", Nobody)
          \/ /\ ~stdin /\ ~(master /\ IsSet(serverFd))
             /\ \E s \in sockets : Active(s) /\ Returns("handling", s)
          \/ /\ ~stdin /\ ~(master /\ IsSet(serverFd))
             /\ \A s \in sockets : ~Active(s)
             /\ forever => \E f \in fdSet : Ready(f)
             /\ Returns("idle", Nobody)
       /\ UNCHANGED signal

SelectReturns(stdin) ==
    /\ pc = "blocked"
    /\ Dispatch(stdin)
    /\ UNCHANGED <<table, setVars, killFd>>
    /\ NoneOfSockets

\* Whether there is a line to read nobody knows here.
LeaveSelect == \E stdin \in BOOLEAN : SelectReturns(stdin)

HandlerReturns ==
    /\ pc = "handling"
    /\ pc' = "idle"
    /\ cur' = Nobody
    /\ UNCHANGED <<setVars, killFd, signal, fdSet, forever>>
    /\ WithoutMeddling

-----------------------------------------------------------------------------
\* The waiting thread outside of wait(), or in a handler.
WaitingThread ==
    /\ pc \in {"idle", "handling", "threw"}
    /\ alive
    /\ \/ \E s \in Sock :
            Accept(s) \/ Read(s) \/ AddSocket(s) \/ RemoveSocket(s)
       \/ SetServer

AnyThread ==
    \/ \E s \in Sock : Connect(s) \/ WriteFails(s) \/ Close(s) \/ Destroy(s)
    \/ Serve \/ StopServing \/ Kill

Wait == EnterSelect \/ LeaveSelect

Next ==
    \/ Peer \/ AnyThread \/ WaitingThread
    \/ DestroyWaiter \/ BuildSet \/ Wait \/ HandlerReturns

Spec == Init /\ [][Next]_vars

\* One thread calls wait() again and again, and its handlers return.
Loop == BuildSet \/ HandlerReturns

\* No line need ever be typed: select() returns for what else there is.
Woken == EnterSelect \/ SelectReturns(FALSE)

FairSpec == Spec /\ WF_vars(Woken) /\ WF_vars(Loop)

-----------------------------------------------------------------------------
(***************************************************************************)
(* socket::close, ~socket, ~flex_waiter: no call closes a number that has  *)
(* been given to another: what is open has its own.  The number of a       *)
(* closed socket is kept in _socketFD, and the kernel gives it out again.  *)
(***************************************************************************)
OpenOwnsNumber ==
    /\ \A s \in open : fd[s] \in Fd /\ table[fd[s]] = s
    /\ killFd # NoFd => table[killFd] = "event"
    /\ serverFd # NoFd => table[serverFd] = "listener"

(***************************************************************************)
(* flex_waiter::wait: a handler called for an open socket finds something  *)
(* to read, so that it does not block the thread that waits for everybody, *)
(* although numbers change hands while select() blocks.                    *)
(***************************************************************************)
HandlerCanRead ==
    [][ pc = "blocked" /\ cur' \in open => stream[cur'] # "quiet" ]_vars

(***************************************************************************)
(* flex_waiter::wait throws only if there is no number for its event, or   *)
(* if a number of its set was closed, by another thread, after the set was *)
(* built: a socket closed before does no harm, nor does one it did not     *)
(* watch.                                                                  *)
(***************************************************************************)
WaitThrowsHasCause == pc = "threw" => meddled \/ killFd = NoFd

(***************************************************************************)
(* flex_waiter::kill, with a fair scheduler: a kill that meets a wait ends *)
(* it, one without a timeout too, and whatever sockets come and go.        *)
(***************************************************************************)
KillEndsWait ==
    (signal /\ pc \in {"built", "blocked"}) ~> (pc \in {"idle", "threw"})

(***************************************************************************)
(* flex_waiter::wait, called again and again, handles one event each time, *)
(* the first in a fixed order.  A socket that is ready gets its turn in    *)
(* the end, unless something else does so for ever: another handler, a     *)
(* kill, or a wait that throws.  Traffic without end is part of this.      *)
(***************************************************************************)
Waits(s) == alive /\ s \in sockets \cap open /\ stream[s] # "quiet"

PassedOver(s) ==
    \/ []<><<pc = "blocked" /\ pc' = "handling" /\ cur' # s>>_vars
    \/ []<><<Kill>>_vars
    \/ []<>(pc = "threw")

ReadyIsHandled ==
    \A s \in Sock : PassedOver(s) \/ (Waits(s) ~> (cur = s \/ ~Waits(s)))

(***************************************************************************)
(* A number is lost if nothing that is left gives it back: to a socket     *)
(* that is not open, to an event or a listener nobody has any more, or to  *)
(* a listener that was shut down, by close() or by its destructor.         *)
(***************************************************************************)
Lost(f) ==
    \/ table[f] \in Sock \ open
    \/ table[f] = "event" /\ f # killFd
    \/ table[f] = "listener" /\ (f # serverFd \/ server = "down")

(***************************************************************************)
(* socket, socket_server, flex_waiter: a number is lost to the process     *)
(* only with a connection that its peer refused or ended, which read and   *)
(* write close by the flag alone, or with a socket_server, which never     *)
(* gives it back.  Whoever closes or destroys a socket before its peer     *)
(* ends it, or destroys a waiter, gives the number back.                   *)
(***************************************************************************)
LostNumberHasCause ==
    \A f \in Fd : Lost(f) =>
        \/ table[f] \in Sock /\ stream[table[f]] = "end"
        \/ table[f] = "listener"
=============================================================================
