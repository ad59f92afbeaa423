# A TLA+ development of the SE3313 chat program

The repository holds a chat server in C++ (`src/server`) and an Android client
in Java (`src/client`).  This directory holds TLA+ modules translated from that
code, the TLC configurations that check them on small instances, and proofs,
checked by TLAPS, of what holds for instances of every size.

In short: the server's threads, locks and sockets are modelled as a whole, checked for safety and liveness, and
proved to implement an abstract chat room; seven more of its properties are proved.  The two libraries the server is
built on, networking and messages, are modelled with every operation they offer, for any program that uses them, and
their properties proved.  The client's UI thread, background tasks and read threads are modelled as
a whole and checked, and five properties proved.  The way of what a person types through form, JSON, server and
screen is modelled, checked and proved.  Every invariant and every action property that a passing run checks on a small
instance is a theorem for all values of the constants; liveness is model-checked.  Four statements that comments and documentation make about the program are
shown not to hold.

Contents: [inventory](#inventory) - [modules](#modules-and-how-they-correspond-to-the-code) -
[runs](#runs) - [fairness](#fairness) - [proofs](#proofs) - [findings](#findings) -
[abstractions](#abstractions) - [not modelled](#what-is-not-modelled) - [plan](#plan).

## Inventory

### Server: listening thread, sending thread, shutdown (`server.cpp`, `server.hpp`, `main.cpp`)

*State.* The vector `sockets` of pairs (socket, user name), the vector
`messageQueue` of responses, one mutex for each, the flag `killed`.

*Operations.* `listen` calls `flex_waiter::wait` until `killed`; `wait` calls
`onSTDIN` (which calls `stop` for `exit`), `onSocketServer` (which adopts a new
connection) or `onSocket` (which reads a request, or removes a socket that
ended).  `onSocket` visits the request: `visitLogin` refuses a name in use,
`visitMessage` builds the response; then it stores the name of a
login, and queues the response for everybody or writes an error back.  A second
thread, `sendMessages`, wakes up every 100 ms, writes every queued response to
every socket and clears the queue.

*What is hard.* Two threads, two mutexes that are nested in one of them;
iterators over vectors the other thread changes; a check of a name and its
store under two acquisitions; flags of sockets that either thread lowers without
a lock; sockets that end between a `read` and the `write` of the other thread;
`stop` racing the sending thread, which nobody joins.

*What makes it correct.* Names are unique (`UsernamesUnique`); no deadlock
(`NoWaitCycle`); valid iterators (`IterationsStable`); every open socket hears
every response once and in order (`BroadcastComplete`, `ImplementsRoom`) and
in the end (`EventuallyTold`); no request vanishes (`RequestsAccounted`); what
arrives is read (`EventuallyRead`) and who leaves is removed
(`EventuallyRemoved`), unless others are handled before them for ever;
`exit` ends the process (`EventuallyStops`); the process dies only of what peers
or the operator did, or of more peers than it has descriptors (`CrashHasCause`).

### `flex_waiter` (`flex_waiter.cpp`)

The `select` loop.  *State*: the sockets it knows, the listening socket, the `fd_set` of a call, an
`eventfd` that `kill` writes.  *Operations*: `addSocket`, `removeSocket`, `setServer`, `wait`, `kill`, destruction.
One call of `wait` handles at most one event, in
the order kill, standard input, listening socket, one connection.  *Hard*: the
`fd_set` is computed before `select` blocks and used after it, by descriptor numbers that the process may have closed and
the kernel given out again meanwhile; the event is created by the first `wait`; priorities can
starve: the connections come in a fixed order, always from the first, so that one that is busy starves those after it
(`flex_waiter.cpp:211-219`).  *Correct* if a socket that is ready is handled in the end, unless others come first for
ever (`ReadyIsHandled`; `EventuallyRead` for the server), a handler finds something to
read (`HandlerCanRead`), `wait` fails only for a cause (`WaitThrowsHasCause`) and `kill` ends it (`KillEndsWait`).

### `socket`, `socket_server` (`socket.cpp`, `socket_server.cpp`)

Wrappers of descriptors with a flag `_open`.  *Hard*: `read` and `write` throw
on a closed socket, lower the flag when the peer has ended or an error occurs,
and the descriptor is then never closed; `write` may block, or raise SIGPIPE; a closed socket keeps its number, which
the kernel gives to the next.  *Correct* if what is open has a number of its own (`OpenOwnsNumber`), and a number is
lost only with a connection that its peer ended or refused, or with a `socket_server`, which never gives its own back
(`LostNumberHasCause`).

### Messages (`msg/*`)

`json::from` trims what was read after its last brace and parses it;
`abstract_message_visitor` looks the `type` up and calls `visitLogin` or
`visitMessage`, or else `error`, which nobody overrides and which returns null.
*Hard*: TCP has no message boundaries, and one `read` is taken for one request; a
property that is missing is an exception nobody catches; type names, property names, error codes and
the format of a time stamp are written down once in C++ and once in Java.
*Correct* if what one side says is what the other side reads (`ShownAsSaid`, `RefusalIsShown`,
`LostByRoundingOnly`), and, for any program that uses the library, if nothing is made up of what was received
(`NothingMadeUp`; for a date it cannot read it hands over the epoch), what nobody edited is never refused (`UneditedIsVisited`), and a date does not drift from relay
to relay (`TimeSettles`).

### Client: `MainActivity` and its `Handler`

*State.* `mConnection`, `loggedIn`, `expectingLogin`, `roomReady`, the room
fragment; all of it belongs to the UI thread.  *Operations.* The six messages of
the handler (`SendMessage`, `ExpectingLogin`, `SocketAWOL`, `DisplayError`,
`DisplayLogin`, `DisplayMessage`), `login` with its four callbacks, `onRoomReady`.
*Hard*: the order in which a server's response, the end of the task that sent
the request and the loss of the connection reach the queue of the UI thread;
responses that "stall" in a task because the room is not ready and are posted
again later; fragment transactions that are executed later than committed.

### Client: `SocketManager`, `SocketConnect`, `ResponseThread`, `MyResponseVisitor`

One `SocketManager` for each attempt to log in, with a socket, a task that
connects it, a task for each message sent, and a thread that reads responses
until it is told to stop or an exception ends it.  `close`, called on the UI
thread, joins that thread.  *Hard*: several attempts can overlap; each callback
uses whatever `mConnection` refers to by then; a thread may be lost while the
UI thread waits for it; a read that throws has consumed what it read.  *Correct* if
nothing told is doubled, or lost but by the read that ends its thread
(`ResponsesAccounted`), the screen agrees with the login flag (`ScreenMatchesLogin`),
no response stalls for ever (`StallsEnd`), what is typed is sent in order
(`MessagesInOrder`), the UI thread always comes back (`UiComesBack`), a lost
connection is let go of (`LossIsHandled`) and a connection that comes up finds
the reference it sends through (`ConnectFindsConnection`).

### Client: login form, room, JSON classes

The form keeps the text of three fields by listeners, validates them at a click, reports an error by
setting the text of the field, and calls `login`; the room draws messages and
posts what is typed.  Gson turns requests into JSON and responses into objects.  *Hard*: an error text is
from then on what the field contains.  *Correct* if a click that fails says why (`FailureIsExplained`).

### How they interact

```
  LoginFragment --login--> MainActivity --new/send/close--> SocketManager
  RoomFragment --SendMessage--> Handler <--DisplayX, SocketAWOL-- ResponseThread
                                                                     ^
        AsyncTask executor --write--> [ TCP connection ] --read------+
                                            |
     flex_waiter::wait --onSocket--> server --messageQueue--> sendMessages
                                       |                          |
                                       +------ sockets -----------+
```

## Modules and how they correspond to the code

| module | models | extends |
|---|---|---|
| `Codec` | requests, how TCP cuts them, what `json::from` accepts | |
| `Sockets` | accepted sockets and the listening socket; kernel and peers as environment | `Codec` |
| `FlexWaiter` | `flex_waiter` and standard input | `Sockets` |
| `ChatServer` | the two threads of the server, its locks and shutdown; properties | `FlexWaiter` |
| `ChatRoom` | abstract specification: a room with members, posts and rounds | |
| `ChatServerClaims` | the refinement of `ChatRoom`, `RequestsAccounted`, what comments claim | `ChatServer` |
| `MCChatServer` | instances for TLC | `ChatServerClaims` |
| `ChatServerProofs` | types, locks, iterators: inductive invariant and theorems; names stay unique | `ChatServer` |
| `ChatServerBroadcast` | theorem: everyone hears everything | `ChatServerProofs` |
| `ChatServerCrashes` | theorem: the process dies only for a cause | `ChatServerBroadcast` |
| `ChatServerClaimsProofs` | theorems: no request vanishes, the server implements `ChatRoom` | `ChatServerBroadcast`, `ChatServerClaims` |
| `NetworkLibrary` | `socket`, `socket_server`, `flex_waiter` over the descriptor table, with any program on top; TLC runs it directly | |
| `NetworkLibraryProofs` | theorems: numbers, lost numbers, failing waits, handlers | `NetworkLibrary` |
| `Instances` | every message class, its JSON both ways, both visitors, with programs of other versions; TLC runs it directly | |
| `InstancesProofs` | theorems: nothing is made up, what is not edited is visited, times settle | `Instances` |
| `Messages` | login form, JSON of both directions and time stamps, one thing at a time; TLC runs it directly | |
| `MessagesProofs` | theorems: what is shown was said, refusals above all; only rounding makes a response unreadable; a failed click is explained | `Messages` |
| `ChatClient` | the Android client; its constants are bounds only, so TLC runs it directly | |
| `ChatClientProofs` | theorems: types, order of what is typed, the reference a connection finds, the places of responses | `ChatClient` |

`PROJECT.json` maps every definition to the lines it stands for.

**`ChatServer`.**  `pcL` and `pcS` are the places of the two threads.  A handler is
cut into steps where the other thread can come between: at the acquisition of a
mutex, and at each write to a socket.  A step done under a mutex is enabled only
for its owner and releases it with the last thing done under it, so that
`Enqueue` is `server.cpp:165-171` and `SenderLocksSockets`, `SenderWrites(c)`,
`SenderUnlocksSockets` are one turn of the loop at `server.cpp:201-214`.  Whatever
throws an exception nobody catches, or ends the process otherwise, sets `fate` to
its cause; after that nothing happens.  When `main` has destroyed the
server while the sending thread lives, the thread's next step is undefined: the
model allows a crash and a loop that ends (`SenderOutlivesServer`).

**`Sockets`.**  For each connection: the flag (`open`), whether the process still has the
descriptor (`held`), the state of the peer, what it has written (`inbox`)
and what it has not read (`outbox`).  An orderly close is seen by `read` as 0 and
by `write` first as success, later as SIGPIPE; an abort is seen as -1 by both.

**`ChatRoom`** promises what users of the server may rely on.  A round tells a post to every
member; members join and leave between rounds only; a name is taken only when
nobody has it.  The refinement maps `members <- sockets`, `name <- username`,
`lost <- sockets \ open`, `posted <- enqueued`, `heard <- last` and `round` to the
number of responses the sending thread is done with.

**`ChatClient`.**  `uiQueue` is the queue of the main looper: handler messages,
`onPostExecute` calls and the execution of fragment transactions, all handled one at
a time by the actions of `UiThread`.  `tasks` is the queue of the serial executor that
`AsyncTask.execute` uses; `Executor` runs its first task to the end.
`readThread[k]` is where the `ResponseThread` of attempt `k` is.  `StartClose` and
`FinishClose` are `SocketManager.close` before and after `join()`: in between
`ui = "joining"` and the UI thread does nothing else, while tasks and readers go
on.  `screen` tells the room `mRoomFragment` refers to (`"room"`) from one it has
left behind (`"oldRoom"`).

**`NetworkLibrary`.**  `table` is the kernel's side: what each number names, a socket, the listener, an event, or nothing.
`fd[s]`, `serverFd` and `killFd` are the library's fields, which may be out of date: `Shut` leaves the number in
`fd[s]`, as `socket.cpp:174` does, and `Read` and `WriteFails` lower the flag without giving the number back.  The kernel
gives out the lowest free number (`Allocate`).  `wait` is three steps, between which other threads come: `BuildSet`
(`flex_waiter.cpp:114`, under no lock), `EnterSelect` (the event under its mutex, and the call of `select`), and
`LeaveSelect`, which looks at the numbers `select` reported, by whoever has them by then.  `Peer` is the network,
`AnyThread` what may be called from elsewhere while a thread waits.  This is the level below `Sockets` and `FlexWaiter`, which have
the calls the server makes with objects in the place of numbers: `OpenOwnsNumber` and `HandlerCanRead` say that this is
sound for open sockets.

**`Instances`.**  An instance is a record with its class, time, sender and own properties; a text on its way is a record of `type` and
`object`, from which `Edit` takes properties away or changes the type, date or code, as a program of another version
would write it.  `Visit` is `abstract_message_visitor::visit` with the `_propMap` of either side, `ReadAs` is
`instance::fromJson<T>`.  `DateTexts` and `DateRead` are `operator<<` and `operator>>` of a time point, to the
microsecond and with the full minute that is printed as 60 seconds.

**`Messages`.**  `address`, `port` and `username` are the form; `SignIn` is the click with the three ways it can
end.  `wire` is a JSON text as a type tag and a record of its properties, built by the operators named for the
classes, so that a property one side does not write cannot be read by the other.  `SecondText` and `Rounded` are
the seconds of `operator<<(ostream, time_point)` as numbers: a value in seconds and the digits before
the point, with the zero that is put before them; `ReadsTime` is what the client's pattern
accepts.  `Display` is `AbstractResponseVisitor.visit` with what `ResponseThread` makes of its exceptions.

## Runs

Times are for two workers.  Deadlock is checked in every run of the server (the end of the process
is a stuttering step, so a state without a step would be a real one); the client
may really stop, when everybody has gone and the person does nothing, and so may a program on top of either library, so their
cfgs say `CHECK_DEADLOCK FALSE`.

| run | checks | size |
|---|---|---|
| `server_safety` | `UsernamesUnique`, `NoWaitCycle`, `BroadcastComplete`, `CrashHasCause`, `IterationsStable`, `ImplementsRoom` | 2.6 million states, 90 s |
| `server_live` | `EventuallyTold`, `EventuallyRead`, `EventuallyRemoved`, `EventuallyStops` | 155,000 states, 2 min |
| `server_wire` | `TypeOK`, `RequestsAccounted`, `CrashHasCause` | 450,000 states, 15 s |
| `client_session` | `ResponsesAccounted`, `MessagesInOrder`, `ScreenMatchesLogin`, `StallsEnd` | 0.8 million states, 80 s |
| `client_retry` | `ConnectFindsConnection`, `UiComesBack`, `LossIsHandled` | 64,000 states, 12 s |
| `messages` | `ShownAsSaid`, `RefusalIsShown`, `LostByRoundingOnly`, `FailureIsExplained` | 13,000 states, 1 s |
| `instances` | `NothingMadeUp`, `UneditedIsVisited`, `TimeSettles` | 330,000 states, 5 s |
| `network_library` | `TypeOK`, `OpenOwnsNumber`, `WaitThrowsHasCause`, `LostNumberHasCause`, `HandlerCanRead`, `KillEndsWait`, `ReadyIsHandled` | 440,000 states, 60 s |
| `claim_*` | one claim each, violated; see [findings](#findings) | seconds |

**Bounds of the server runs, and why they are enough.**  Two connections: every
interleaving the properties speak of involves at most two sockets (two that want
one name; one that is written to while another joins, ends or breaks).  Two names:
the one wanted by both and another.  `MaxSends = 3` requests in all: a name for
each and a message, or two logins and a retry; two responses in one batch and a
third that arrives meanwhile.  `SendBuffer = 1`: the second response to a peer
that does not read blocks the sending thread.  `ListenBacklog = 1` and, in
`server_wire`, `MaxFds = 1` make the limits bite.  `server_wire` has three requests
that may be in one inbox at once, whole or cut in two (`MaxUnread = 3`), so that a read can return
half a request, one and a half, or two.  Connections are used once: that a name
can be taken again is seen with the other connection.

In `server_wire` two peers that stay are enough for `accept` to fail, and `CrashHasCause` then names the one cause there is:
more peers have connected than there are descriptors.  Its causes are about *some* connection, not the one that was being
handled.

*What the bounds of `server_live` leave out.*  Two requests in all are finite traffic, so no connection can starve another in that
run; what starves there is standard input, a line at any moment and its end, which `EventuallyRead` and
`EventuallyRemoved` except by name (`PassedOver`).  That a busy connection may starve the others is in `network_library`, where traffic never ends
and `ReadyIsHandled` says what is left of the promise.  `EventuallyStops` asks for the end of the process, and an uncaught exception is one;
that there is a cause for each is `CrashHasCause`.

`server_safety` and `server_wire` use symmetry: connections and names are only
compared for equality, and the properties of those runs are invariants and step
properties.  The liveness run has no symmetry.

**Bounds of the client runs.**  `client_session`: one login, two messages typed and two responses, the least
with which order matters; `client_retry`: two logins, the least that overlap, and no typing or chat, which its properties do
not depend on.  The server refuses at most once on a connection.

**Bounds of `messages`.**  The form: an empty text, a valid one and, for each check, one that fails it; for the
port the four numbers at the two limits.  The clock: seconds with one digit and two, at both ends of each
(0, 8, 9, 10, 59), and fractions at both ends of rounding.  One name is taken on the server, one is not.

**Bounds of `network_library`.**  Two sockets, the least with which one can be given the number of another, and three numbers:
two sockets with the event or the listener fit, and the fourth of them finds none, so that exhaustion happens in
every constructor and in `wait`.  What peers send is not counted: a socket may be ready again as often as one likes.  A socket object is constructed once; its number comes and goes.

**Bounds of `instances`.**  Two edits of any parts and three prints (two relays); a clock at both ends of a minute and at half a
microsecond; codes at the limits of 16 bits on both sides.

Every property of a passing run has a mutant in `PROJECT.json`: a change of one
mapped definition that a plausible bug would make (a dropped lock, a loop that ends
one early, a read without a timeout) under which TLC finds the property violated.

## Fairness

*Server.* Both threads run when they can (`WF`), and peers that stay go on
reading (`WF` of `PeerRead`): with a peer that never reads nothing is promised, as the
sending thread blocks in `write` under both mutexes.  The steps in which the
listening thread takes a mutex are strongly fair: `std::mutex` is not a fair
queue, but `sendMessages` sleeps 100 ms in each round with neither mutex
(`server.cpp:193`), and a thread blocked on a mutex that is free for that long gets it.  The sending thread
needs weak fairness only.  No step of a peer other than reading, and none of the
operator, is fair.

*Network library.* `WF_vars(Woken)`: a thread that has called `wait` is scheduled, and `select` returns when a descriptor of
its set is ready or its time is over; that a line is typed is never assumed.  `KillEndsWait` needs no more, since the event stays readable until it is read, and is looked at first.  `WF_vars(Loop)`, for
`ReadyIsHandled`: who waits returns from its handlers and waits again, as `server.cpp:72-76` does.
Nothing else is fair: no peer, no other thread; and no order among the sockets is assumed, so what holds, holds for the
order of any build.

*Client.* The UI thread, the executor and each read thread run when they can; a
read returns within its timeout of 5 s (`SocketConnect.java:80`), which makes
`ReadTimesOut` a step of a fair thread.  The server and the person are not fair.

## Proofs

The theorems of the server are for any set of connections and names, any requests, faults, buffer sizes and
bounds allowed by the named assumptions (`NameAssumption`, `RequestsAssumption`,
`FaultsAssumption`, `BoundsAssumption`, `StdinAssumption`, `NoConnAssumption`, and `ConnAssumption`, that connections are
finitely many, for the sum in `RequestsAccounted` and the count in `CrashHasCause`); those of the other modules for any
constants that `ClientBoundsAssumption`, `ClockAssumption` and the assumptions of `NetworkLibrary` allow.

| theorem | statement |
|---|---|
| `TypeCorrect` | `Spec => []TypeOK` |
| `MutexesNeverDeadlock` | `Spec => []NoWaitCycle` |
| `IteratorsStayValid` | `Spec => IterationsStable` |
| `NamesStayUnique` | `Spec => []UsernamesUnique` |
| `EveryoneHearsEverything` | `Spec => []BroadcastComplete` |
| `DeathHasCause` | `Spec => []CrashHasCause` |
| `ServerIsRoom` | `Spec => ImplementsRoom` |
| `RequestsAreAccounted` | `Spec => []RequestsAccounted` |
| `TypeCorrect` (of `NetworkLibrary`) | `Spec => []TypeOK` |
| `NumbersAreOwn` | `Spec => []OpenOwnsNumber` |
| `LossHasCause` | `Spec => []LostNumberHasCause` |
| `ThrowHasCause` | `Spec => []WaitThrowsHasCause` |
| `HandlerReads` | `Spec => HandlerCanRead` |
| `WhatIsShownWasSaid` | `Spec => []ShownAsSaid` (of `Messages`) |
| `OnlyRoundingLoses` | `Spec => []LostByRoundingOnly` (of `Messages`) |
| `RefusalsAreExplained` | `Spec => []RefusalIsShown` (of `Messages`) |
| `FailuresAreExplained` | `Spec => FailureIsExplained` (of `Messages`) |
| `NothingIsMadeUp` | `Spec => []NothingMadeUp` (of `Instances`) |
| `UneditedAreVisited` | `Spec => []UneditedIsVisited` (of `Instances`) |
| `TimesSettle` | `Spec => []TimeSettles` (of `Instances`) |
| `ClientTypeCorrect` | `Spec => []ClientTypeOK` |
| `OrderIsKept` | `Spec => []MessagesInOrder` (of `ChatClient`) |
| `ConnectFinds` | `Spec => []ConnectFindsConnection` (of `ChatClient`) |
| `ResponsesAreAccounted` | `Spec => []ResponsesAccounted` (of `ChatClient`) |
| `ScreenAgrees` | `Spec => []ScreenMatchesLogin` (of `ChatClient`) |

*`Inv`* (`ChatServerProofs`) is `TypeOK` with three parts that make it inductive.
`HandlerInv`: a handler that is on its way has a connection, and one that was
parsed as a login or message stays so until it returns; without it `Associate` and
`Enqueue` could not be typed.  `LockInv`: who owns a mutex follows from where
the threads are.  `QueueInv`: the index of the sending thread is within the queue while it
writes, because only it removes responses; without it `messageQueue[mi]` has no
meaning.  The step lemma has one lemma per group of actions and a step per action.
`NoWaitCycle` follows from `LockInv` alone: the
listening thread holds `socketsLock` only where its next step needs no other mutex.

*`NameInv`* strengthens uniqueness by what the check in `visitLogin` established
until the name is stored: nobody carries the requested name.  It is kept because only the
listening thread writes names, which is the argument the code relies on and
does not state.

*`BroadcastInv`* needs two facts about connections and shutdown. `ConnInv`: a
connection is pending, being adopted or in the vector, one at a time, so a socket
that is adopted was not being written to.  `StopInv`: once `killed` is set and
`stop` is over, no socket of the vector is open; so it does not matter that the
sending thread may end in the middle of a round.  The last part of `QueueInv`
ties positions in the queue to the numbers in their history.

*`CrashInv`*: a socket falls in one step, and the step that finds it fallen throws much later, in either thread.  So the
invariant says of every accepted socket that is not open why it is not (`FallenInv`), of every handler that it
deals with an accepted one (`AcceptedInv`), and of what `select` watches that only a write to a broken peer can have
lowered its flag meanwhile (`WatchedInv`); each fate is then the cause the invariant names.  For a failing `accept`, `HeldInv`
says that the process holds descriptors of connected peers only: at the limit there are as many of those, and the one
that is pending is one more.

*`MemberInv`* is what the refinement needs besides uniqueness and the broadcast invariant: what is in the waiter is in the vector, a
socket that is being adopted is open and not yet in it, and so the sending thread writes to members only.  Each step of the server is then `Join`,
`Leave`, `Call`, `Post`, `Tell`, `EndRound` or `Lose` of the room, or a stutter; the step lemma has a lemma for each thread and for the environment.

*`MessagesProofs`* is for any set of taken names and any clock, every nanosecond of a minute among them (`ClockAssumption`).
Its invariant follows what was said through the JSON (`WireInv`) and ties the time of a response to the moment it was
written (`TimeInv`); `UnreadableByRounding` is the arithmetic of six decimals.  `DecisionInv` keeps why the server
refused or accepted a login while its answer travels, for `RefusalIsShown`.  `FailureIsExplained` follows from `SignIn`
alone, for any texts in the fields: what is not valid is marked, by one of the two branches.

*`ClientInv`* (`ChatClientProofs`) is for any number of attempts, messages and responses.  Its first part, `ClientTypeOK`, is proved
and listed by no run.  Its steps are about two queues, and
`Moves(old, new, d, Fresh)` says what any of them does to one: the first `d` elements go and at most one element of
`Fresh` comes last.  `UiInv` is what the types need: the execution of transactions is posted at most once and never for
nothing, and the UI thread joins the thread of a connection it has.  `OrderInv` says that everything typed that is in a task is older than all of it
in the UI queue, and what a connection received older than both.  `ConnectInv` says the same of attempts, and that while one
is not reported the newest is the one in use and has no thread: so `close()` throws and the reference stays.
`ScreenAgrees` is a short one: every step that sets `loggedIn` commits the transaction that belongs to it, and an executed
transaction leaves the last one pending, or the screen, as it was.

For `ResponsesAccounted` the places of a response are counted one queue at a time: `Count(q, T)` is the number of elements
of `q` in `T`, `CountAppend`, `CountTail` and `CountPosts` say how it changes at the ends, and `UnreadAppend` and
`UnreadTail` do so for the streams, whose places are pairs.  Each step then takes a response from at most one
place and puts it into at most one other; a read that throws may take several at once (`UnreadDropped`), all of them into the one
place `lost`, which `LostInv` ties to a thread that has ended its loop.  `PlacesInv` adds what makes this an invariant: a response that was not
told yet has no place, a connection holds no more than was told and one refusal, and a refusal is no response to everybody.

*`RequestsAccounted`* is inductive with `Inv` and the types of its counters (`Counts`).  Most of its proof is about the sum:
`SumFunction` takes the elements of its domain one by one, and that it is defined, and grows by what one element grows by
(`SumFollows`), needs induction over finite sets.  The library states induction with an operator as a parameter, so
the lemmas take the least number for which they could fail (`LeastNatural`, from the well-foundedness of `<`)
instead.  About the wire, `WriteAddsOne` says that a request that is written has one end, however it is cut, and `ParsedOneEnd`
and `ReadTakesOne` that what `read` hands to the parser has one end if it is parsed as a request: `json::from` refuses two.

*`InstancesInv`* (`InstancesProofs`) is for any number of relays and edits, and any clock.  An answer says nothing but what was in
the text (`AnswerInv`), so the invariant is one of the text: each property of its object is that of the first instance, unless it was
edited (`Carries`), and an unedited text misses nothing (`Whole`).  That a relay keeps it is the round trip of each
class (`ReadCarries`, `Printed`).  For the date, `Gives` says that the text gives the moment of the first
instance, rounded; `PrintedDate` establishes it, and `ReadDate` and `RelayedDate` keep it, since what is read has no
nanoseconds left to round.  `GivesEpoch` takes its place once the date was edited: what cannot be read becomes the epoch (`ReadEpoch`), and the
epoch is printed and read as itself (`PrintedEpoch`).

*`NetworkLibraryProofs`* is for any set of sockets and any set of numbers.  `OpenOwnsNumber` is
about fields that may be out of date, so the invariant adds the kernel's side (`NumbersFollowObjects`): a number that the table gives to an
open socket is the one in its field, and no number belongs to a socket before its construction.  With it a step that closes a number
closes the caller's, and a step that gets one gets nobody's.  `WaitThrowsHasCause` needs `SetIsFresh`: until somebody meddles,
every number in the set is in use.  `LostNumberHasCause` needs `NumbersStay`: a number the table gives to a closed socket
belonged to one whose peer had ended it, and the only event is the one whose number the waiter has.  `CalledInWait` says when `cur` means something, which the types of `Destroy` need.
`HandlerReads` then follows from the step `LeaveSelect` alone: the number is in the set, it is ready, and it is that of the
socket, since the socket is open.

*Only model-checked:* all liveness, since fairness is out of the prover's reach, as is `ENABLED`: `EventuallyTold`, `EventuallyRead`,
`EventuallyRemoved`, `EventuallyStops`, `StallsEnd`, `UiComesBack`, `LossIsHandled`, `KillEndsWait` and `ReadyIsHandled`; and the counterexamples of
[findings](#findings).

## Findings

Each is a run in which TLC refutes what the quoted line says.

| run | the line | what the code does |
|---|---|---|
| `claim_read_error` | `socket.hpp:141` "-1 if an error" | `read` keeps to it, its caller does not: `onSocket` tests for 0 only; a reset makes it parse an empty text, and the uncaught exception ends the server. |
| `claim_close` | `server.cpp:105` "Find socket in client socket array that closed; remove it" | Between the `read` that lowers the flag and the removal, the sending thread can write to the socket and throw; or an earlier write is answered with a reset, and the next raises SIGPIPE. |
| `claim_logged_in` | `MainActivity.java:60` "Only true when logged in and socket is connected." | A login response handled after `SocketAWOL` sets `loggedIn` and opens a room without a connection. |
| `claim_race` | `MainActivity.java:258` "Race condition covered in Handler" | If the response to the login is handled before `ExpectingLogin`, the flag is set afterwards and stays; the next person's login replaces the room. |

More that the models carry, without a run of its own:

- `sendMessages` holds both mutexes whenever it writes (`server.cpp:207` in the scope of `:195`), which the note at
  `server.cpp:165` forbids.  There is no deadlock: the listening thread never holds both (`MutexesNeverDeadlock`).
- The error of an empty form field becomes the text of the field, so a second click logs in as "This field is
  required" (`LoginFragment.java:136`, `MarkEmpty` in `Messages`).
- `kill` before the first `wait` has no event to write to and is lost; between two waits it ends the next one.  It
  never throws for lack of a waiting thread, though `flex_waiter.hpp:124` says so.
- A timeout of 0 waits for ever (`flex_waiter.cpp:96`, `EnterSelect`).
- A socket that was closed and not removed from the waiter keeps its number; when the number is given to another
  connection, `onSocket` is called for the closed one.
- `wait` handles one event per call, always the first in a fixed order (`flex_waiter.cpp:211-219`): a connection that is
  ready each time keeps those after it waiting for ever (`PassedOver` in `NetworkLibrary` and `ChatServer`).
- The number of a connection that ended, or of a `connect` that was refused, is never given back (`socket.hpp:82`
  speaks of owned sockets), nor is that of a listener: `socket_server::close` only shuts it down, and a constructor whose
  `bind` fails leaves it open (`LostNumberHasCause`).  The server relies on it: `server.cpp:158` finds the pair of a request by its number.
- `response::login::sender` is always `@server`, whatever sender it was built with.
- The response visitor has no entry for errors and calls `error` with "unknown type"; its code for a bad object is
  unreachable, since `fromJson` throws and never returns null.
- A date that `operator>>` cannot read is the epoch from then on, without an error (`NothingMadeUp`).
- The client's read has consumed what it then fails to parse: two responses that arrive together are lost, with the
  connection (`ResponsesAccounted`).
- A code of -1 in an error response is read as 65535 (`get_value<uint16_t>`).
- A `write` that fails lowers the flag; the waiter then skips the socket, nobody removes the pair, and its name
  stays in use until the next broadcast throws.
- At the end of standard input, `read` returns 0 for ever; standard input comes first and one event is handled per
  call, so no connection is accepted and nothing is read any more.
- A request without its sender, date or content is an exception nobody catches (`"bad_object"`).
- A response whose time stamp is printed as `010.000000` or `60.000000` seconds is given up as a lost connection.
  It takes a clock within a microsecond of the limit (`LostByRoundingOnly`).
- The text for a bad port says "between 1 and 65536" (`strings.xml:18`), and 65536 is refused
  (`LoginFragment.java:156`).
- `stop` closes the sockets but leaves them in the vector (`sockets.empty()`,
  `server.cpp:63`, only asks), so a response still queued makes the sending thread
  throw (`fate = "write_closed"` with `killed`).
- The sending thread is not joined and may use the server after its end
  (`"used_after_end"`).
- A request of an unknown type yields a null response that `onSocket`
  dereferences (`"null_response"`).
- In the server, too, a socket whose peer ended keeps its descriptor (`held`), and at the limit `accept` throws.
- A peer that does not read blocks the sending thread under both mutexes, and then `stop`.
- The empty string is refused as a name while some socket has none, and accepted otherwise.
- A second login, before the first has failed or after it was refused, leaves the first
  `SocketManager` and its thread alive.
- `SocketManager.send` reports a socket that is not connected and goes on to send.

## Abstractions

- In `ChatServer` a request is its type and its sender, a response a number; contents and times are those of `Messages`.
- In `Messages`, one thing travels at a time, a name shorter than three characters is one of two texts, host names are
  valid or not, and of a time stamp the seconds are kept: date, hours and minutes are plain two-digit fields.
  A half microsecond may be rounded either way, since the seconds are a double.
- `sockets` is a set with a name for each; the order in which one response is written to the
  sockets is left open, since no property depends on it.
- A text is at most two pieces; the cuts that `json::from` can tell apart (before a
  closing brace, after one) are the two kinds of front.
- `accept` takes any pending connection; the kernel's order would be a special case.
- `FlexWaiter` leaves the kill event out, since the server calls `kill` only inside a handler and no `wait` follows;
  `NetworkLibrary` has it.
- `NetworkLibrary` has one waiting thread, which alone reads, accepts and changes the waiter's set, and calls on one object one at
  a time, as the server does.  A signal that interrupts `select`, a failing read of standard input, and the contents of what is read
  and written are left out.
- In `Instances` the order of properties and the values of names and texts do not matter; a JSON value of the wrong type is left out but for
  numbers that are out of range.
- The data race on `killed`, `_open` and `ResponseThread.kill` is modelled as
  atomic flags whose writes are seen; each is read again after a system call in every turn of its
  loop, so no build keeps an old value.
- In the client, the user name, the destruction and re-creation of the activity, and a
  `write` that blocks are left out.  In `ChatClient` the form is a guard: `login` is called when it is valid
  (`Messages` has the form).
- A read of the client returns one response, or throws: part of one, two at once,
  the end of the stream (a negative length) and an I/O error are one action, `ReadThrows`, which takes any front of what
  has arrived with it.
- Connecting takes one step that succeeds or fails; while it runs, no other task can, as the executor is serial.

## What is not modelled

- `chrono_io`, `ratio_io` (third-party) but for the output and the input of a time point: durations, formats, other
  clocks, none of which the program uses.
- The JSON parser and printer (Boost's property tree), the kernel and Android's looper, executor and fragment manager, but for
  what the code relies on; these definitions are marked external in `PROJECT.json`.
- JSON values of the wrong type.
- The layout of rows in `RoomFragment`.
- Build files, `Vagrantfile`, resources, template tests.

## Plan

Done: `Codec`, `Sockets`, `FlexWaiter`, `ChatServer` with safety, liveness and refinement;
`ChatClient`; `Messages`; `NetworkLibrary`; `Instances`; the proofs listed above.

Left out for its size: *client and server together*.  The product of `ChatClient` (0.8 million states for one login) and
`ChatServer` (2.6 million for two connections) is out of TLC's reach in one run; what crosses the connection is checked in
`Messages`, and what either side relies on the other for is an environment action of its module (`PeerSend` and `PeerRead`, `ServerTells` and `ServerRefuses`).

Next: hazards without a property, such as a second click on the login button, and what the liveness properties rest on: the
invariants that say which step is possible while something is still to come.
