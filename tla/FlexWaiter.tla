----------------------------- MODULE FlexWaiter -----------------------------
(***************************************************************************)
(* networking::flex_waiter: the select() loop of the listening thread      *)
(* (flex_waiter.cpp).  wait() first copies the descriptors of the open     *)
(* sockets it knows, then blocks, and calls one handler for what it finds  *)
(* ready, in the order stdin, listening socket, one of the connections.    *)
(*                                                                         *)
(* The kill event is left out here: kill() has one caller, server::stop,   *)
(* which runs inside a handler that wait() itself called, so the event is  *)
(* written when no wait() follows that could see it.                       *)
(***************************************************************************)
EXTENDS Sockets

CONSTANT StdinInputs    \* what the operator may do at the terminal

ASSUME StdinAssumption == StdinInputs \subseteq {"line", "exit", "eof"}

VARIABLES
    waiterSockets,  \* flex_waiter::_sockets
    watched,        \* the connections in the fd_set of the current wait()
    stdin           \* what a read() of standard input would return

waiterVars == <<waiterSockets, watched, stdin>>

\* "line" is any input but exactly "exit"; "eof" is an input of length 0.
FlexWaiterTypeOK ==
    /\ waiterSockets \in SUBSET Conn
    /\ watched \in SUBSET Conn
    /\ stdin \in {"quiet", "line", "exit", "eof"}

FlexWaiterInit ==
    /\ waiterSockets = {}
    /\ watched = {}
    /\ stdin = "quiet"

\* The operator types a line or closes the terminal.
Type ==
    /\ stdin = "quiet"
    /\ stdin' \in StdinInputs
    /\ UNCHANGED <<socketVars, waiterSockets, watched>>

-----------------------------------------------------------------------------
AddSocket(c)    == waiterSockets' = waiterSockets \cup {c}
RemoveSocket(c) == waiterSockets' = waiterSockets \ {c}

\* The fd_set is built from the sockets that are open now.
BuildFdSet == watched' = waiterSockets \cap open

StdinReady     == stdin # "quiet"
MasterReady    == backlog # {}
ChildReady(c)  == c \in watched /\ Readable(c)

\* Which of the handlers wait() calls.
CallsOnStdin        == StdinReady
CallsOnSocketServer == ~StdinReady /\ MasterReady
CallsOnSocket(c)    == ~StdinReady /\ ~MasterReady /\ ChildReady(c)
TimesOut ==
    /\ ~StdinReady
    /\ ~MasterReady
    /\ \A c \in Conn : ~ChildReady(c)

\* read() takes the input; the end of the input is never used up.
TakeInput == stdin' = IF stdin = "eof" THEN "eof" ELSE "quiet"
=============================================================================
