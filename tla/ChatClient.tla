----------------------------- MODULE ChatClient -----------------------------
(***************************************************************************)
(* The Android client: MainActivity with its Handler on the UI thread, the *)
(* SocketManager of each login attempt with its ResponseThread, and the    *)
(* AsyncTasks, which AsyncTask.execute runs one after the other on one     *)
(* background thread.  Everything meets in the UI thread's message queue:  *)
(* what the Handler is sent, the onPostExecute of a task, and the pending  *)
(* fragment transactions.                                                  *)
(*                                                                         *)
(* A login attempt, its SocketManager and its connection have one number.  *)
(* What is said and by whom is left out: a response is a number as well.   *)
(* The server is the environment: it answers, lets others chat, and goes.  *)
(***************************************************************************)
EXTENDS Naturals, Sequences, FiniteSets

CONSTANTS
    MaxLogins,      \* bound: clicks on the login button
    MaxTyped,       \* bound: clicks on the send button
    MaxResponses    \* bound: responses to everybody the server sends

ASSUME ClientBoundsAssumption ==
    MaxLogins \in Nat /\ MaxTyped \in Nat /\ MaxResponses \in Nat

VARIABLES
    crashed,        \* an exception nobody catches reached the UI thread
    ui,             \* "joining": the UI thread is in SocketManager.close
    uiQueue,        \* the messages of the main looper
    tasks,          \* the AsyncTasks given to the serial executor
    mConnection,    \* the number of the SocketManager in use, 0 for null
    loggedIn, expectingLogin, roomReady,
    screen,         \* the fragment shown: the login form, mRoomFragment,
                    \* or a RoomFragment that mRoomFragment has left behind
    pending,        \* fragments of the transactions not yet executed
    sock,           \* the Socket of each SocketManager
    readThread,     \* where its ResponseThread is
    kill,           \* the flag of the ResponseThread
    logins,         \* number of login attempts so far
    typed,          \* number of messages sent from the room so far
    server,         \* whether the server keeps its end of a connection
    stream,         \* responses on their way to the client
    received,       \* requests the server was sent on a connection
    responses,      \* number of responses to everybody sent so far
    refused,        \* connections on which the server has sent an error
    shown, missed,  \* history: responses put on screen, and not put there
    lost            \* history: responses in the last read of a connection

activityVars == <<loggedIn, expectingLogin, roomReady, screen, pending>>
threadVars   == <<readThread, kill>>
userVars     == <<logins, typed>>
serverVars   == <<server, stream, received, responses, refused>>
historyVars  == <<shown, missed, lost>>

vars == <<crashed, ui, uiQueue, tasks, mConnection, activityVars, sock,
          threadVars, userVars, serverVars, historyVars>>

Attempt == 1 .. MaxLogins

Fragments == {"login", "room", "oldRoom"}

Message(what, arg) == [what |-> what, arg |-> arg]

What == {"SendMessage", "ExpectingLogin", "SocketAWOL", "DisplayError",
         "DisplayLogin", "DisplayMessage", "connected", "connectFailed",
         "loginSent", "loginFailed", "messageFailed", "execPending"}

Task(kind, arg, conn) == [kind |-> kind, arg |-> arg, conn |-> conn]

\* Responses to everybody, as messages of the UI thread and as tasks.
Display == {"DisplayLogin", "DisplayMessage"}

TaskKind == {"connect", "login", "message"} \cup Display

ResponseKind == {"login", "message", "error"}

ClientTypeOK ==
    /\ crashed \in BOOLEAN
    /\ ui \in {"idle", "joining"}
    /\ uiQueue \in Seq([what: What, arg: Nat])
    /\ tasks \in Seq([kind: TaskKind, arg: Nat, conn: {0} \cup Attempt])
    /\ \A i \in DOMAIN tasks :
            tasks[i].conn = 0 <=> tasks[i].kind \in Display
    /\ mConnection \in {0} \cup Attempt
    /\ loggedIn \in BOOLEAN
    /\ expectingLogin \in BOOLEAN
    /\ roomReady \in BOOLEAN
    /\ screen \in Fragments
    /\ pending \in Seq(Fragments)
    /\ sock \in [Attempt -> {"new", "connected", "closed"}]
    /\ readThread \in [Attempt ->
            {"none", "testing", "reading", "losing", "ended"}]
    /\ kill \in [Attempt -> BOOLEAN]
    /\ logins \in 0 .. MaxLogins
    /\ typed \in 0 .. MaxTyped
    /\ server \in [Attempt -> {"up", "gone"}]
    /\ stream \in [Attempt -> Seq([kind: ResponseKind, arg: Nat])]
    /\ received \in [Attempt -> Seq([kind: {"login", "message"}, arg: Nat])]
    /\ responses \in 0 .. MaxResponses
    /\ refused \in SUBSET Attempt
    /\ shown \in SUBSET Nat
    /\ missed \in SUBSET Nat
    /\ lost \in [Attempt -> SUBSET Nat]

\* onCreate has run and the login form is on the screen.
Init ==
    /\ crashed = FALSE
    /\ ui = "idle"
    /\ uiQueue = << >>
    /\ tasks = << >>
    /\ mConnection = 0
    /\ loggedIn = FALSE
    /\ expectingLogin = FALSE
    /\ roomReady = FALSE
    /\ screen = "login"
    /\ pending = << >>
    /\ sock = [k \in Attempt |-> "new"]
    /\ readThread = [k \in Attempt |-> "none"]
    /\ kill = [k \in Attempt |-> FALSE]
    /\ logins = 0
    /\ typed = 0
    /\ server = [k \in Attempt |-> "up"]
    /\ stream = [k \in Attempt |-> << >>]
    /\ received = [k \in Attempt |-> << >>]
    /\ responses = 0
    /\ refused = {}
    /\ shown = {}
    /\ missed = {}
    /\ lost = [k \in Attempt |-> {}]

-----------------------------------------------------------------------------
(* The person at the device, between two messages of the UI thread. *)

\* The login button with a valid form: a new SocketManager connects.
ClickLogin ==
    /\ ui = "idle"
    /\ screen = "login"
    /\ logins < MaxLogins
    /\ logins' = logins + 1
    /\ mConnection' = logins + 1
    /\ tasks' = Append(tasks, Task("connect", 0, logins + 1))
    /\ UNCHANGED <<crashed, ui, uiQueue, activityVars, sock, threadVars, typed,
                   serverVars, historyVars>>

\* The send button of whichever room is shown.
ClickSend ==
    /\ ui = "idle"
    /\ screen # "login"
    /\ typed < MaxTyped
    /\ typed' = typed + 1
    /\ uiQueue' = Append(uiQueue, Message("SendMessage", typed + 1))
    /\ UNCHANGED <<crashed, ui, tasks, mConnection, activityVars, sock,
                   threadVars, logins, serverVars, historyVars>>

-----------------------------------------------------------------------------
(* The UI thread. *)

Handles(what) ==
    /\ ui = "idle"
    /\ uiQueue # << >>
    /\ Head(uiQueue).what = what

Arg == Head(uiQueue).arg

\* The message is done with, and the handler has posted others.
Posts(messages) == uiQueue' = Tail(uiQueue) \o messages

\* FragmentTransaction.commit: the first pending one posts the execution.
CommitPosts == IF pending = << >> THEN <<Message("execPending", 0)>> ELSE << >>

\* Mutant of StartClose: the reference is dropped whether or not close() threw.
StartClose_AlwaysNull ==
    IF mConnection # 0 /\ readThread[mConnection] # "none"
    THEN /\ ui' = "joining"
         /\ kill' = [kill EXCEPT ![mConnection] = TRUE]
         /\ UNCHANGED mConnection
    ELSE mConnection' = 0 /\ UNCHANGED <<ui, kill>>

(***************************************************************************)
(* mConnection.close(), up to join().  Without a SocketManager or without  *)
(* a thread it is a NullPointerException, which the callers catch, and     *)
(* then neither the socket is closed nor the reference dropped.            *)
(***************************************************************************)
StartClose ==
    IF mConnection # 0 /\ readThread[mConnection] # "none"
    THEN /\ ui' = "joining"
         /\ kill' = [kill EXCEPT ![mConnection] = TRUE]
         /\ UNCHANGED mConnection
    ELSE UNCHANGED <<ui, kill, mConnection>>

\* join() returns: the socket is closed and the reference dropped.
FinishClose ==
    /\ ui = "joining"
    /\ readThread[mConnection] = "ended"
    /\ ui' = "idle"
    /\ sock' = [sock EXCEPT ![mConnection] = "closed"]
    /\ mConnection' = 0
    /\ UNCHANGED <<crashed, uiQueue, tasks, activityVars, threadVars, userVars,
                   serverVars, historyVars>>

(***************************************************************************)
(* mConnection.send(...).  A socket that is not connected yet is reported  *)
(* to the error handler, and the task is started all the same.  (The login *)
(* request's handler then calls close(), which throws: a SocketManager     *)
(* that is not connected has no thread.)                                   *)
(***************************************************************************)
Sends(kind) ==
    IF mConnection = 0
    THEN crashed' = TRUE /\ UNCHANGED <<uiQueue, tasks>>
    ELSE /\ Posts(IF sock[mConnection] = "new"
                  THEN <<Message("DisplayError", 0)>> ELSE << >>)
         /\ tasks' = Append(tasks, Task(kind, Arg, mConnection))
         /\ UNCHANGED crashed

\* onPostExecute of SocketConnect: the thread starts, the login is sent
\* through whatever SocketManager is in use by now.
HandleConnected ==
    /\ Handles("connected")
    /\ readThread' = [readThread EXCEPT ![Arg] = "testing"]
    /\ Sends("login")
    /\ UNCHANGED <<ui, mConnection, activityVars, sock, kill, userVars,
                   serverVars, historyVars>>

HandleSendMessage ==
    /\ Handles("SendMessage")
    /\ Sends("message")
    /\ UNCHANGED <<ui, mConnection, activityVars, sock, threadVars, userVars,
                   serverVars, historyVars>>

\* Callbacks that only post: errors to show, and the login that was sent.
HandleCallback ==
    /\ \/ Handles("connectFailed") /\ Posts(<<Message("DisplayError", 0)>>)
       \/ Handles("messageFailed") /\ Posts(<<Message("DisplayError", 0)>>)
       \/ Handles("loginSent") /\ Posts(<<Message("ExpectingLogin", 0)>>)
    /\ UNCHANGED <<crashed, ui, tasks, mConnection, activityVars, sock,
                   threadVars, userVars, serverVars, historyVars>>

HandleLoginFailed ==
    /\ Handles("loginFailed")
    /\ Posts(<<Message("DisplayError", 0)>>)
    /\ StartClose
    /\ UNCHANGED <<crashed, tasks, activityVars, sock, readThread, userVars,
                   serverVars, historyVars>>

HandleExpectation ==
    /\ \/ Handles("ExpectingLogin") /\ expectingLogin' = TRUE
       \/ Handles("DisplayError") /\ expectingLogin' = FALSE
    /\ Posts(<< >>)
    /\ UNCHANGED <<crashed, ui, tasks, mConnection, loggedIn, roomReady,
                   screen, pending, sock, threadVars, userVars, serverVars,
                   historyVars>>

\* Mutant of HandleSocketAWOL: the flag is left as it is.
HandleSocketAWOL_KeepsFlag ==
    /\ Handles("SocketAWOL")
    /\ roomReady' = FALSE
    /\ expectingLogin' = FALSE
    /\ pending' = Append(pending, "login")
    /\ Posts(CommitPosts)
    /\ StartClose
    /\ UNCHANGED <<crashed, loggedIn, tasks, screen, sock, readThread, userVars,
                   serverVars, historyVars>>

HandleSocketAWOL ==
    /\ Handles("SocketAWOL")
    /\ loggedIn' = FALSE
    /\ roomReady' = FALSE
    /\ expectingLogin' = FALSE
    /\ pending' = Append(pending, "login")
    /\ Posts(CommitPosts)
    /\ StartClose
    /\ UNCHANGED <<crashed, tasks, screen, sock, readThread, userVars,
                   serverVars, historyVars>>

\* The fragment on the screen or about to be is mRoomFragment no longer.
Superseded(fragment) == IF fragment = "room" THEN "oldRoom" ELSE fragment

\* The rows of the table that the room makes of a response.
Draws == shown' = shown \cup {Arg}

\* Where a response goes: a room that is not added ignores it.
Shows(added) ==
    /\ IF added THEN Draws /\ UNCHANGED missed
                ELSE missed' = missed \cup {Arg} /\ UNCHANGED shown
    /\ UNCHANGED lost

\* Mutant of Stalls: the message is dropped until the room is ready.
Stalls_Forgets == UNCHANGED <<tasks, historyVars>>

\* The room is not ready: an AsyncTask sleeps and posts the message again.
Stalls == tasks' = Append(tasks, Task(Head(uiQueue).what, Arg, 0))
          /\ UNCHANGED historyVars

HandleDisplayLogin ==
    LET opens == expectingLogin \/ ~loggedIn
        now   == IF opens THEN Superseded(screen) ELSE screen
    IN  /\ Handles("DisplayLogin")
        /\ loggedIn' = TRUE
        /\ expectingLogin' = FALSE
        /\ screen' = now
        /\ pending' = IF opens
                      THEN Append([i \in DOMAIN pending |->
                                      Superseded(pending[i])], "room")
                      ELSE pending
        /\ Posts(IF opens THEN CommitPosts ELSE << >>)
        /\ IF roomReady THEN Shows(now = "room") /\ UNCHANGED tasks
                        ELSE Stalls
        /\ UNCHANGED <<crashed, ui, mConnection, roomReady, sock, threadVars,
                       userVars, serverVars>>

\* Mutant of HandleDisplayMessage: the two branches are exchanged.
HandleDisplayMessage_Exchanged ==
    /\ Handles("DisplayMessage")
    /\ Posts(<< >>)
    /\ IF roomReady THEN Stalls
                    ELSE Shows(screen = "room") /\ UNCHANGED tasks
    /\ UNCHANGED <<crashed, ui, mConnection, activityVars, sock, threadVars,
                   userVars, serverVars>>

HandleDisplayMessage ==
    /\ Handles("DisplayMessage")
    /\ Posts(<< >>)
    /\ IF roomReady THEN Shows(screen = "room") /\ UNCHANGED tasks
                    ELSE Stalls
    /\ UNCHANGED <<crashed, ui, mConnection, activityVars, sock, threadVars,
                   userVars, serverVars>>

\* The pending transactions are executed in order; the view of each room
\* among them is created, which calls onRoomReady.
ExecPending ==
    /\ Handles("execPending")
    /\ Posts(<< >>)
    /\ screen' = pending[Len(pending)]
    /\ roomReady' = (roomReady \/ \E i \in DOMAIN pending :
                                        pending[i] # "login")
    /\ pending' = << >>
    /\ UNCHANGED <<crashed, ui, tasks, mConnection, loggedIn, expectingLogin,
                   sock, threadVars, userVars, serverVars, historyVars>>

UiThread ==
    /\ ~crashed
    /\ \/ FinishClose \/ HandleConnected \/ HandleSendMessage \/ HandleCallback
       \/ HandleLoginFailed \/ HandleExpectation \/ HandleSocketAWOL
       \/ HandleDisplayLogin \/ HandleDisplayMessage \/ ExecPending

-----------------------------------------------------------------------------
(* The background thread of the AsyncTasks: the first task runs to its end *)
(* and what onPostExecute is to do is posted to the UI thread.             *)

\* Mutant of Runs: any task may run, as on a pool of threads.
Runs_Parallel(task) ==
    \E i \in DOMAIN tasks :
        /\ task = tasks[i]
        /\ tasks' = [j \in 1 .. Len(tasks) - 1 |->
                        IF j < i THEN tasks[j] ELSE tasks[j + 1]]

Runs(task) ==
    /\ tasks # << >>
    /\ task = Head(tasks)
    /\ tasks' = Tail(tasks)

Waiting == { tasks[i] : i \in DOMAIN tasks }

\* SocketConnect: the host is found and answers within two seconds, or not.
RunConnect(task) ==
    /\ Runs(task)
    /\ task.kind = "connect"
    /\ \/ /\ sock' = [sock EXCEPT ![task.conn] = "connected"]
          /\ uiQueue' = Append(uiQueue, Message("connected", task.conn))
       \/ /\ uiQueue' = Append(uiQueue, Message("connectFailed", task.conn))
          /\ UNCHANGED sock
    /\ UNCHANGED <<crashed, ui, mConnection, activityVars, threadVars,
                   userVars, serverVars, historyVars>>

(***************************************************************************)
(* SocketManager.send's task.  Writing to a server that is gone fails, or  *)
(* succeeds as long as its reset has not come; a socket that is closed or  *)
(* never was connected throws.                                             *)
(***************************************************************************)
RunSend(task) ==
    /\ Runs(task)
    /\ task.kind \in {"login", "message"}
    /\ \/ /\ sock[task.conn] = "connected"
          /\ received' = [received EXCEPT ![task.conn] =
                            Append(@, [kind |-> task.kind, arg |-> task.arg])]
          /\ uiQueue' = IF task.kind = "login"
                        THEN Append(uiQueue, Message("loginSent", task.arg))
                        ELSE uiQueue
       \/ /\ sock[task.conn] # "connected" \/ server[task.conn] = "gone"
          /\ uiQueue' = Append(uiQueue,
                               Message(IF task.kind = "login"
                                       THEN "loginFailed" ELSE "messageFailed",
                                       task.arg))
          /\ UNCHANGED received
    /\ UNCHANGED <<crashed, ui, mConnection, activityVars, sock, threadVars,
                   userVars, server, stream, responses, refused, historyVars>>

\* The sleep is over and the message is sent again.
RunStall(task) ==
    /\ Runs(task)
    /\ task.kind \in Display
    /\ uiQueue' = Append(uiQueue, Message(task.kind, task.arg))
    /\ UNCHANGED <<crashed, ui, mConnection, activityVars, sock, threadVars,
                   userVars, serverVars, historyVars>>

Executor ==
    /\ ~crashed
    /\ \E task \in Waiting : RunConnect(task) \/ RunSend(task) \/ RunStall(task)

-----------------------------------------------------------------------------
(* A ResponseThread: run(). *)

\* while (!kill)
TestKill(k) ==
    /\ readThread[k] = "testing"
    /\ readThread' = [readThread EXCEPT
                        ![k] = IF kill[k] THEN "ended" ELSE "reading"]
    /\ UNCHANGED <<crashed, ui, uiQueue, tasks, mConnection, activityVars,
                   sock, kill, userVars, serverVars, historyVars>>

\* What the visitor posts; an error is found by way of an exception.
Visit(response) ==
    LET posts == [login   |-> "DisplayLogin",
                  message |-> "DisplayMessage",
                  error   |-> "DisplayError"]
    IN  Message(posts[response.kind], response.arg)

\* A read returns exactly one response.
ReadResponse(k) ==
    /\ readThread[k] = "reading"
    /\ stream[k] # << >>
    /\ stream' = [stream EXCEPT ![k] = Tail(@)]
    /\ uiQueue' = Append(uiQueue, Visit(Head(stream[k])))
    /\ readThread' = [readThread EXCEPT ![k] = "testing"]
    /\ UNCHANGED <<crashed, ui, tasks, mConnection, activityVars, sock, kill,
                   userVars, server, received, responses, refused, historyVars>>

\* Mutant of ReadTimesOut: the socket has no timeout and read waits.
ReadTimesOut_Never(k) == FALSE

\* Nothing came for five seconds.
ReadTimesOut(k) ==
    /\ readThread[k] = "reading"
    /\ stream[k] = << >>
    /\ server[k] = "up"
    /\ readThread' = [readThread EXCEPT ![k] = "testing"]
    /\ UNCHANGED <<crashed, ui, uiQueue, tasks, mConnection, activityVars,
                   sock, kill, userVars, serverVars, historyVars>>

(***************************************************************************)
(* A part of a response, or two at once, is no JSON document; the end of   *)
(* the stream is a String of length -1; a reset is an IOException.  What   *)
(* was read is thrown away: n responses, the last perhaps not to its end.  *)
(* Each ends the loop, and the callback first posts the error ...          *)
(***************************************************************************)
ReadThrows(k) ==
    /\ readThread[k] = "reading"
    /\ \E n \in 0 .. Len(stream[k]) :
        /\ n = 0 => server[k] = "gone"
        /\ stream' = [stream EXCEPT ![k] = SubSeq(@, n + 1, Len(@))]
        /\ lost' = [lost EXCEPT ![k] = { stream[k][i].arg : i \in 1 .. n }]
    /\ uiQueue' = Append(uiQueue, Message("DisplayError", 0))
    /\ readThread' = [readThread EXCEPT ![k] = "losing"]
    /\ UNCHANGED <<crashed, ui, tasks, mConnection, activityVars, sock, kill,
                   userVars, server, received, responses, refused, shown,
                   missed>>

\* Mutant of ReportLoss: the error is shown and that is all.
ReportLoss_Silent(k) ==
    /\ readThread[k] = "losing"
    /\ readThread' = [readThread EXCEPT ![k] = "ended"]
    /\ UNCHANGED <<crashed, ui, uiQueue, tasks, mConnection, activityVars,
                   sock, kill, userVars, serverVars, historyVars>>

\* ... and then that the socket has gone.
ReportLoss(k) ==
    /\ readThread[k] = "losing"
    /\ uiQueue' = Append(uiQueue, Message("SocketAWOL", 0))
    /\ readThread' = [readThread EXCEPT ![k] = "ended"]
    /\ UNCHANGED <<crashed, ui, tasks, mConnection, activityVars, sock, kill,
                   userVars, serverVars, historyVars>>

Reader(k) ==
    /\ ~crashed
    /\ \/ TestKill(k) \/ ReadResponse(k) \/ ReadTimesOut(k)
       \/ ReadThrows(k) \/ ReportLoss(k)

-----------------------------------------------------------------------------
(* The server, which may tell a connection of others from the start.       *)

ServerTells(k) ==
    /\ sock[k] = "connected"
    /\ server[k] = "up"
    /\ responses < MaxResponses
    /\ \E kind \in {"login", "message"} :
            stream' = [stream EXCEPT ![k] =
                        Append(@, [kind |-> kind, arg |-> responses + 1])]
    /\ responses' = responses + 1
    /\ UNCHANGED <<crashed, ui, uiQueue, tasks, mConnection, activityVars,
                   sock, threadVars, userVars, server, received, refused,
                   historyVars>>

\* An error only answers a login.
ServerRefuses(k) ==
    /\ sock[k] = "connected"
    /\ server[k] = "up"
    /\ k \notin refused
    /\ \E i \in DOMAIN received[k] : received[k][i].kind = "login"
    /\ stream' = [stream EXCEPT ![k] = Append(@, [kind |-> "error", arg |-> 0])]
    /\ refused' = refused \cup {k}
    /\ UNCHANGED <<crashed, ui, uiQueue, tasks, mConnection, activityVars,
                   sock, threadVars, userVars, server, received, responses,
                   historyVars>>

ServerGoes(k) ==
    /\ sock[k] = "connected"
    /\ server[k] = "up"
    /\ server' = [server EXCEPT ![k] = "gone"]
    /\ UNCHANGED <<crashed, ui, uiQueue, tasks, mConnection, activityVars,
                   sock, threadVars, userVars, stream, received, responses,
                   refused, historyVars>>

Environment ==
    /\ ~crashed
    /\ \/ ClickLogin \/ ClickSend
       \/ \E k \in Attempt :
            ServerTells(k) \/ ServerRefuses(k) \/ ServerGoes(k)

Next ==
    \/ UiThread
    \/ Executor
    \/ \E k \in Attempt : Reader(k)
    \/ Environment

Spec == Init /\ [][Next]_vars

\* The threads of the app run whenever they can; nobody else has to.
FairSpec ==
    /\ Spec
    /\ WF_vars(UiThread)
    /\ WF_vars(Executor)
    /\ \A k \in Attempt : WF_vars(Reader(k))

-----------------------------------------------------------------------------
(* Safety. *)

(***************************************************************************)
(* Every response to everybody that the server sent is in one place:       *)
(* unread, posted to the UI thread, with a task that stalls it, on the     *)
(* screen, missed because its room was not added, or lost with the read    *)
(* that could not make it out.  Such a read is the last of its connection, *)
(* and stalling and posting again neither loses nor doubles a response.    *)
(***************************************************************************)
Places(n) ==
    LET unread == { place \in Attempt \X (1 .. MaxResponses + 1) :
                        /\ place[2] \in DOMAIN stream[place[1]]
                        /\ stream[place[1]][place[2]].arg = n }
        posted == { i \in DOMAIN uiQueue :
                        uiQueue[i].what \in Display /\ uiQueue[i].arg = n }
        asleep == { i \in DOMAIN tasks :
                        tasks[i].kind \in Display /\ tasks[i].arg = n }
        thrown == { k \in Attempt : n \in lost[k] }
    IN  Cardinality(unread) + Cardinality(posted) + Cardinality(asleep)
            + Cardinality({n} \cap shown) + Cardinality({n} \cap missed)
            + Cardinality(thrown)

ResponsesAccounted ==
    /\ \A n \in 1 .. responses : Places(n) = 1
    /\ \A k \in Attempt : lost[k] # {} => readThread[k] \in {"losing", "ended"}

(***************************************************************************)
(* MainActivity: the flag loggedIn and the fragment that is shown, or that *)
(* will be once the pending transactions are executed, agree: the losses,  *)
(* logins and stalled responses that cross in the queue never leave anyone *)
(* at the login form of a client that takes itself to be logged in, nor in *)
(* a room that mRoomFragment does not refer to.                            *)
(***************************************************************************)
ScreenMatchesLogin ==
    LET next == IF pending = << >> THEN screen ELSE pending[Len(pending)]
    IN  next = IF loggedIn THEN "room" ELSE "login"

(***************************************************************************)
(* The messages typed into the room reach a connection in the order they   *)
(* were typed, though each is sent by a task of its own.                   *)
(***************************************************************************)
MessagesInOrder ==
    \A k \in Attempt : \A i, j \in DOMAIN received[k] :
        (/\ i < j
         /\ received[k][i].kind = "message"
         /\ received[k][j].kind = "message")
            => received[k][i].arg < received[k][j].arg

(***************************************************************************)
(* A SocketManager that connects finds a reference to send the login with. *)
(* The loss of an earlier connection may come in between and close the one *)
(* in use: it is still there only because close() throws first.            *)
(***************************************************************************)
ConnectFindsConnection ==
    (\/ \E task \in Waiting : task.kind = "connect"
     \/ \E i \in DOMAIN uiQueue : uiQueue[i].what = "connected")
        => mConnection # 0

-----------------------------------------------------------------------------
(* Liveness, of FairSpec. *)

\* SocketManager.close: the UI thread comes back from join(), because the
\* thread it waits for never waits for the UI thread, nor for ever to read.
UiComesBack == (ui = "joining") ~> (ui = "idle")

\* ResponseThread.run, SocketAWOL: a lost connection is let go of in the end.
LossIsHandled ==
    \A k \in Attempt :
        (readThread[k] = "losing" /\ mConnection = k)
            ~> (mConnection # k \/ crashed)

\* handleMessage: with a room the stalled responses find their way to it.
StallsEnd ==
    LET stalled == \/ \E task \in Waiting : task.kind \in Display
                   \/ \E i \in DOMAIN uiQueue : uiQueue[i].what \in Display
    IN  (roomReady /\ stalled) ~> (~stalled \/ ~roomReady \/ crashed)

-----------------------------------------------------------------------------
(* What the code says of itself. *)

(***************************************************************************)
(* MainActivity.java:60, of loggedIn: "Only true when logged in and socket *)
(* is connected."                                                          *)
(***************************************************************************)
LoggedInMeansConnected == loggedIn => mConnection # 0

(***************************************************************************)
(* MainActivity.java:258: "Let Handler know to expect a login. (Race       *)
(* condition covered in Handler)".  A login that comes before the message  *)
(* ExpectingLogin is handled once: no room replaces one that is shown.     *)
(***************************************************************************)
RaceCovered == screen # "oldRoom"
=============================================================================
