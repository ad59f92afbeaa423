--------------------------- MODULE ChatClientProofs ---------------------------
(***************************************************************************)
(* Type correctness of the client, two properties of the order in which    *)
(* its queues pass things on, that the login flag and the screen agree,    *)
(* and that the queues neither lose nor double a response, for any number  *)
(* of login attempts, messages and responses.                              *)
(***************************************************************************)
EXTENDS ChatClient, FiniteSetTheorems, SequenceTheorems, TLAPS

Posted == [what: What, arg: Nat]
Job    == [kind: TaskKind, arg: Nat, conn: {0} \cup Attempt]

(***************************************************************************)
(* What ClientTypeOK needs to be inductive: the UI thread joins the thread *)
(* of a connection it has, a connection that is reported has a number, and *)
(* the execution of the transactions is posted once, and not for nothing.  *)
(***************************************************************************)
UiInv ==
    /\ ui = "joining" => mConnection # 0
    /\ \A i \in DOMAIN uiQueue :
        /\ uiQueue[i].what = "connected" => uiQueue[i].arg \in Attempt
        /\ uiQueue[i].what = "execPending" => pending # << >>
    /\ \A i, j \in DOMAIN uiQueue :
        uiQueue[i].what = "execPending" /\ uiQueue[j].what = "execPending"
            => i = j

(***************************************************************************)
(* What was typed goes from the UI queue to the tasks and from there to a  *)
(* connection, and every one of the three holds it in order.               *)
(***************************************************************************)
OrderInv ==
    /\ \A i \in DOMAIN uiQueue :
        uiQueue[i].what = "SendMessage" => uiQueue[i].arg <= typed
    /\ \A i, j \in DOMAIN uiQueue :
        i < j /\ uiQueue[i].what = "SendMessage"
              /\ uiQueue[j].what = "SendMessage"
            => uiQueue[i].arg < uiQueue[j].arg
    /\ \A i \in DOMAIN tasks : tasks[i].kind = "message" =>
        /\ tasks[i].arg <= typed
        /\ \A j \in DOMAIN uiQueue :
            uiQueue[j].what = "SendMessage" => tasks[i].arg < uiQueue[j].arg
    /\ \A i, j \in DOMAIN tasks :
        i < j /\ tasks[i].kind = "message" /\ tasks[j].kind = "message"
            => tasks[i].arg < tasks[j].arg
    /\ \A k \in Attempt : \A n \in DOMAIN received[k] :
        received[k][n].kind = "message" =>
            /\ received[k][n].arg <= typed
            /\ \A i \in DOMAIN tasks : tasks[i].kind = "message" =>
                received[k][n].arg < tasks[i].arg
            /\ \A i \in DOMAIN uiQueue : uiQueue[i].what = "SendMessage" =>
                received[k][n].arg < uiQueue[i].arg
    /\ MessagesInOrder

(***************************************************************************)
(* Attempts connect and are reported one after the other.  One that is not *)
(* reported has no thread.  As long as there is such a one, every close()  *)
(* throws, as the newest has no thread, and the reference stays.           *)
(***************************************************************************)
Connecting == {i \in DOMAIN tasks : tasks[i].kind = "connect"}
Reported   == {i \in DOMAIN uiQueue : uiQueue[i].what = "connected"}

ConnectInv ==
    /\ \A i \in Connecting : tasks[i].conn <= logins
    /\ \A i, j \in Connecting : i < j => tasks[i].conn < tasks[j].conn
    /\ \A i \in Reported : uiQueue[i].arg <= logins
    /\ \A i, j \in Reported : i < j => uiQueue[i].arg < uiQueue[j].arg
    /\ \A i \in Reported, j \in Connecting : uiQueue[i].arg < tasks[j].conn
    /\ \A i \in Connecting :
        tasks[i].conn \in Attempt /\ readThread[tasks[i].conn] = "none"
    /\ \A i \in Reported :
        uiQueue[i].arg \in Attempt /\ readThread[uiQueue[i].arg] = "none"
    /\ \A k \in Attempt : k > logins => readThread[k] = "none"
    /\ Connecting # {} \/ Reported # {} =>
        /\ ui = "idle"
        /\ logins \in Attempt
        /\ mConnection = logins
        /\ readThread[logins] = "none"

ClientInv == ClientTypeOK /\ UiInv /\ OrderInv /\ ConnectInv

-----------------------------------------------------------------------------
(* Queues. *)

(***************************************************************************)
(* Queue new is queue old without its first d elements and with at most    *)
(* one more, an element of Fresh.                                          *)
(***************************************************************************)
Moves(old, new, d, Fresh) ==
    \A i \in DOMAIN new :
        /\ i \in Nat
        /\ \/ i + d \in DOMAIN old /\ new[i] = old[i + d]
           \/ i + d = Len(old) + 1 /\ new[i] \in Fresh

LEMMA SeqElement ==
    ASSUME NEW S, NEW q \in Seq(S), NEW i \in DOMAIN q
    PROVE  q[i] \in S
  OBVIOUS

\* What comes before another element is not the last.
LEMMA BeforeTheLast ==
    ASSUME NEW n \in Nat, NEW S \in SUBSET (1 .. n), NEW i, NEW j,
           i \in S \/ i = n + 1, j \in S \/ j = n + 1, i < j
    PROVE  i \in S
<1>1. \A m \in S : m \in Nat /\ m <= n
  OBVIOUS
<1>2. j \in Nat /\ j <= n + 1
  <2>1. CASE j = n + 1
    BY <2>1
  <2>2. CASE j \in S
    <3>1. j \in Nat /\ j <= n
      BY <1>1, <2>2
    <3> QED
      BY <3>1
  <2> QED
    BY <2>1, <2>2
<1>3. CASE i = n + 1
  BY <1>2, <1>3
<1> QED
  BY <1>3

LEMMA MovesSame ==
    ASSUME NEW S, NEW q \in Seq(S)
    PROVE  Moves(q, q, 0, {})
  BY DEF Moves

LEMMA AppendTyped ==
    ASSUME NEW S, NEW q \in Seq(S), NEW m \in S
    PROVE  Append(q, m) \in Seq(S) /\ Append(q, m) # << >>
<1>1. Append(q, m) \in Seq(S) /\ Len(Append(q, m)) = Len(q) + 1
      /\ Len(q) \in Nat
  OBVIOUS
<1>2. Len(Append(q, m)) # 0
  BY <1>1
<1> QED
  BY <1>1, <1>2, EmptySeq

\* Append, as everybody but the UI thread posts and everybody starts tasks.
LEMMA MovesAppend ==
    ASSUME NEW S, NEW q \in Seq(S), NEW m \in S
    PROVE  Append(q, m) \in Seq(S) /\ Moves(q, Append(q, m), 0, {m})
  BY DEF Moves

\* Tail, as the executor takes a task and a handler its message.
LEMMA MovesTail ==
    ASSUME NEW S, NEW q \in Seq(S), q # << >>
    PROVE  /\ Tail(q) \in Seq(S) /\ Moves(q, Tail(q), 1, {})
           /\ 1 \in DOMAIN q /\ Head(q) = q[1] /\ q[1] \in S
<1>1. Tail(q) \in Seq(S) /\ Len(Tail(q)) = Len(q) - 1 /\ Len(q) \in Nat
      /\ Len(q) # 0 /\ Head(q) = q[1]
  OBVIOUS
<1>2. \A i \in 1 .. Len(Tail(q)) : Tail(q)[i] = q[i + 1]
  OBVIOUS
<1>3. DOMAIN Tail(q) = 1 .. Len(Tail(q)) /\ DOMAIN q = 1 .. Len(q)
  BY <1>1
<1> QED
  BY <1>1, <1>2, <1>3 DEF Moves

\* What handlers post: at most one message.
LEMMA MovesPosts ==
    ASSUME uiQueue \in Seq(Posted), uiQueue # << >>,
           NEW Fresh \in SUBSET Posted, NEW messages,
           messages = << >> \/ \E m \in Fresh : messages = <<m>>,
           Posts(messages)
    PROVE  uiQueue' \in Seq(Posted) /\ Moves(uiQueue, uiQueue', 1, Fresh)
<1>1. CASE messages = << >>
  <2>1. uiQueue' = Tail(uiQueue)
    <3>1. Tail(uiQueue) \in Seq(Posted)
      BY MovesTail
    <3> QED
      BY <1>1, <3>1 DEF Posts
  <2> QED
    BY <2>1, MovesTail DEF Moves
<1>2. ASSUME NEW m \in Fresh, messages = <<m>>
      PROVE  uiQueue' \in Seq(Posted) /\ Moves(uiQueue, uiQueue', 1, Fresh)
  <2> DEFINE rest == Tail(uiQueue)
  <2>1. /\ rest \in Seq(Posted) /\ Moves(uiQueue, rest, 1, {})
        /\ Len(rest) = Len(uiQueue) - 1
    BY MovesTail
  <2> HIDE DEF rest
  <2>2. uiQueue' = Append(rest, m)
    BY <1>2, <2>1, AppendIsConcat DEF Posts, rest
  <2>3. uiQueue' \in Seq(Posted) /\ Moves(rest, uiQueue', 0, {m})
    BY <2>1, <2>2, MovesAppend
  <2> QED
    BY <2>1, <2>3 DEF Moves
<1> QED
  BY <1>1, <1>2

-----------------------------------------------------------------------------
(* What keeps each part of the invariant. *)

\* Queues that only pass on what they hold, with nothing that concerns a
\* reported connection or the pending transactions.
LEMMA UiFrame ==
    ASSUME ClientTypeOK, UiInv,
           NEW d \in {0, 1}, NEW Fresh, Moves(uiQueue, uiQueue', d, Fresh),
           \A m \in Fresh : m.what \notin {"connected", "execPending"},
           pending # << >> => pending' # << >>,
           ui' = "joining" => mConnection' # 0
    PROVE  UiInv'
<1>1. \A i \in DOMAIN uiQueue' :
            uiQueue'[i].what \in {"connected", "execPending"} =>
                i + d \in DOMAIN uiQueue /\ uiQueue'[i] = uiQueue[i + d]
  BY DEF Moves
<1>2. \A i, j \in DOMAIN uiQueue' : i + d = j + d => i = j
  BY DEF Moves
<1> QED
  BY <1>1, <1>2 DEF UiInv

LEMMA OrderFrame ==
    ASSUME ClientTypeOK, OrderInv,
           NEW d \in {0, 1}, NEW Fresh, Moves(uiQueue, uiQueue', d, Fresh),
           NEW e \in {0, 1}, NEW Jobs, Moves(tasks, tasks', e, Jobs),
           \A m \in Fresh : m.what # "SendMessage",
           \A t \in Jobs : t.kind # "message",
           UNCHANGED <<typed, received>>
    PROVE  OrderInv'
<1> USE DEF ClientTypeOK, Moves
<1>1. \A i \in DOMAIN uiQueue' : uiQueue'[i].what = "SendMessage" =>
            i + d \in DOMAIN uiQueue /\ uiQueue'[i] = uiQueue[i + d]
  OBVIOUS
<1>2. \A i \in DOMAIN tasks' : tasks'[i].kind = "message" =>
            i + e \in DOMAIN tasks /\ tasks'[i] = tasks[i + e]
  OBVIOUS
<1>3. \A i, j \in DOMAIN uiQueue' : i < j => i + d < j + d
  OBVIOUS
<1>4. \A i, j \in DOMAIN tasks' : i < j => i + e < j + e
  OBVIOUS
<1> HIDE DEF Moves, ClientTypeOK
<1> QED
  BY <1>1, <1>2, <1>3, <1>4 DEF OrderInv, MessagesInOrder

\* A reader whose thread has not begun stays as it is.
ThreadsKeep ==
    \A k \in Attempt : readThread[k] = "none" => readThread'[k] = "none"

LEMMA ConnectFrame ==
    ASSUME ClientTypeOK, ConnectInv,
           NEW d \in {0, 1}, NEW Fresh, Moves(uiQueue, uiQueue', d, Fresh),
           NEW e \in {0, 1}, NEW Jobs, Moves(tasks, tasks', e, Jobs),
           \A m \in Fresh : m.what # "connected",
           \A t \in Jobs : t.kind # "connect",
           logins' = logins, ThreadsKeep,
           Connecting # {} \/ Reported # {} => UNCHANGED <<ui, mConnection>>
    PROVE  ConnectInv'
<1>1. \A i \in Reported' : i + d \in Reported /\ uiQueue'[i] = uiQueue[i + d]
  BY DEF Moves, Reported
<1>2. \A i \in Connecting' : i + e \in Connecting /\ tasks'[i] = tasks[i + e]
  BY DEF Moves, Connecting
<1>3. \A i, j \in Reported' : i < j => i + d < j + d
  BY DEF Moves, Reported
<1>4. \A i, j \in Connecting' : i < j => i + e < j + e
  BY DEF Moves, Connecting
<1>5. Connecting' # {} \/ Reported' # {} => Connecting # {} \/ Reported # {}
  BY <1>1, <1>2
<1> QED
  BY <1>1, <1>2, <1>3, <1>4, <1>5 DEF ConnectInv, ThreadsKeep

\* A task has a connection if and only if it is not to stall a response.
LEMMA TasksTyped ==
    ASSUME ClientTypeOK,
           NEW e \in {0, 1}, NEW Jobs, Moves(tasks, tasks', e, Jobs),
           \A t \in Jobs : t.conn = 0 <=> t.kind \in Display
    PROVE  \A i \in DOMAIN tasks' :
                tasks'[i].conn = 0 <=> tasks'[i].kind \in Display
  BY DEF ClientTypeOK, Moves

(***************************************************************************)
(* Most steps: they pass on what the queues hold, add nothing to them that *)
(* the invariant speaks of, and start no thread.                           *)
(***************************************************************************)
LEMMA Ordinary ==
    ASSUME ClientInv, ClientTypeOK',
           NEW d \in {0, 1}, NEW Fresh, Moves(uiQueue, uiQueue', d, Fresh),
           NEW e \in {0, 1}, NEW Jobs, Moves(tasks, tasks', e, Jobs),
           \A m \in Fresh :
                m.what \notin {"connected", "execPending", "SendMessage"},
           \A t \in Jobs : t.kind \notin {"connect", "message"},
           UNCHANGED <<typed, received, logins>>, ThreadsKeep,
           Connecting # {} \/ Reported # {} => UNCHANGED <<ui, mConnection>>,
           pending # << >> => pending' # << >>,
           ui' = "joining" => mConnection' # 0
    PROVE  ClientInv'
<1>1. UiInv'
  BY UiFrame DEF ClientInv
<1>2. OrderInv'
  BY OrderFrame DEF ClientInv
<1>3. ConnectInv'
  BY ConnectFrame DEF ClientInv
<1> QED
  BY <1>1, <1>2, <1>3 DEF ClientInv

\* Steps that leave both queues alone.
LEMMA QuietQueues ==
    ASSUME ClientInv, ClientTypeOK', ThreadsKeep,
           UNCHANGED <<uiQueue, tasks, typed, received, logins, ui,
                       mConnection, pending>>
    PROVE  ClientInv'
<1>1. Moves(uiQueue, uiQueue', 0, {}) /\ Moves(tasks, tasks', 0, {})
  BY MovesSame DEF ClientInv, ClientTypeOK
<1>2. UiInv' /\ OrderInv'
  BY <1>1, UiFrame, OrderFrame DEF ClientInv, UiInv
<1>3. ConnectInv'
  BY <1>1, ConnectFrame DEF ClientInv
<1> QED
  BY <1>2, <1>3 DEF ClientInv

\* What the queues and the connections hold.
LEMMA Elements ==
    ASSUME ClientTypeOK
    PROVE  /\ \A i \in DOMAIN uiQueue : uiQueue[i] \in Posted
           /\ \A i \in DOMAIN uiQueue : uiQueue[i].arg \in Nat
           /\ \A i \in DOMAIN tasks : tasks[i] \in Job
           /\ \A i \in DOMAIN tasks :
                tasks[i].arg \in Nat /\ tasks[i].conn \in Nat
           /\ \A k \in Attempt : \A i \in DOMAIN received[k] :
                received[k][i].arg \in Nat
<1> DEFINE Request == [kind: {"login", "message"}, arg: Nat]
<1>1. \A i \in DOMAIN uiQueue : uiQueue[i] \in Posted
  <2>1. uiQueue \in Seq(Posted)
    BY DEF ClientTypeOK, Posted
  <2> QED
    BY <2>1, SeqElement
<1>2. \A i \in DOMAIN tasks : tasks[i] \in Job
  <2>1. tasks \in Seq(Job)
    BY DEF ClientTypeOK, Job
  <2> QED
    BY <2>1, SeqElement
<1>3. ASSUME NEW k \in Attempt, NEW i \in DOMAIN received[k]
      PROVE  received[k][i].arg \in Nat
  <2>1. received[k] \in Seq(Request)
    BY DEF ClientTypeOK
  <2> HIDE DEF Request
  <2>2. received[k][i] \in Request
    BY <2>1, SeqElement
  <2> QED
    BY <2>2 DEF Request
<1>4. {0} \cup Attempt \subseteq Nat
  BY DEF Attempt
<1> QED
  BY <1>1, <1>2, <1>3, <1>4 DEF Posted, Job

LEMMA InitClientInv == Init => ClientInv
<1> SUFFICES ASSUME Init PROVE ClientInv
  OBVIOUS
<1>1. 0 \in 0 .. MaxLogins /\ 0 \in 0 .. MaxTyped /\ 0 \in 0 .. MaxResponses
  BY ClientBoundsAssumption
<1>2. ClientTypeOK
  <2>1. \A S : << >> \in Seq(S)
    OBVIOUS
  <2>2. /\ uiQueue \in Seq(Posted) /\ tasks \in Seq(Job)
        /\ DOMAIN tasks = {} /\ pending \in Seq(Fragments)
    BY <2>1 DEF Init
  <2>3. /\ stream \in [Attempt -> Seq([kind: ResponseKind, arg: Nat])]
        /\ received \in [Attempt -> Seq([kind: {"login", "message"}, arg: Nat])]
    <3>1. \A S : [k \in Attempt |-> << >>] \in [Attempt -> Seq(S)]
      BY <2>1
    <3> QED
      BY <3>1 DEF Init
  <2>4. /\ uiQueue \in Seq([what: What, arg: Nat])
        /\ tasks \in Seq([kind: TaskKind, arg: Nat, conn: {0} \cup Attempt])
        /\ \A i \in DOMAIN tasks :
            tasks[i].conn = 0 <=> tasks[i].kind \in Display
    BY <2>2 DEF Posted, Job
  <2> HIDE <1>1
  <2>5. /\ logins \in 0 .. MaxLogins /\ typed \in 0 .. MaxTyped
        /\ responses \in 0 .. MaxResponses
    BY <1>1 DEF Init
  <2>6. /\ crashed \in BOOLEAN /\ ui \in {"idle", "joining"}
        /\ mConnection \in {0} \cup Attempt /\ loggedIn \in BOOLEAN
        /\ expectingLogin \in BOOLEAN /\ roomReady \in BOOLEAN
        /\ screen \in Fragments /\ refused \in SUBSET Attempt
        /\ shown \in SUBSET Nat /\ missed \in SUBSET Nat
    BY DEF Init, Fragments
  <2>7. /\ sock \in [Attempt -> {"new", "connected", "closed"}]
        /\ readThread \in [Attempt ->
            {"none", "testing", "reading", "losing", "ended"}]
        /\ kill \in [Attempt -> BOOLEAN]
        /\ server \in [Attempt -> {"up", "gone"}]
        /\ lost \in [Attempt -> SUBSET Nat]
    BY DEF Init
  <2> HIDE DEF Init
  <2> QED
    BY <2>2, <2>3, <2>4, <2>5, <2>6, <2>7 DEF ClientTypeOK
<1>3. DOMAIN uiQueue = {} /\ DOMAIN tasks = {}
      /\ \A k \in Attempt : DOMAIN received[k] = {}
  BY DEF Init
<1>4. UiInv /\ OrderInv
  BY <1>3 DEF Init, UiInv, OrderInv, MessagesInOrder
<1>5. ConnectInv
  <2>1. Connecting = {} /\ Reported = {}
    BY <1>3 DEF Connecting, Reported
  <2> QED
    BY <2>1 DEF Init, ConnectInv
<1> QED
  BY <1>2, <1>4, <1>5 DEF ClientInv

-----------------------------------------------------------------------------
(* The person. *)

LEMMA ClickLoginInv == ASSUME ClientInv, ClickLogin PROVE ClientInv'
<1> DEFINE task == Task("connect", 0, logins + 1)
<1> USE DEF ClickLogin, activityVars, threadVars, userVars, serverVars, historyVars
<1>1. logins + 1 \in Attempt /\ logins' = logins + 1 /\ logins \in Nat
  BY ClientBoundsAssumption DEF ClientInv, ClientTypeOK, Attempt
<1>2. /\ task \in Job /\ task.kind = "connect" /\ task.conn = logins + 1
  BY <1>1 DEF Task, Job, TaskKind
<1>3. tasks \in Seq(Job) /\ uiQueue \in Seq(Posted)
  BY DEF ClientInv, ClientTypeOK, Job, Posted
<1>4. tasks' \in Seq(Job) /\ Moves(tasks, tasks', 0, {task})
      /\ Moves(uiQueue, uiQueue', 0, {})
  <2> HIDE DEF task
  <2> QED
    BY <1>2, <1>3, MovesAppend, MovesSame DEF task
<1> HIDE DEF task
<1>5. ClientTypeOK'
  <2>1. \A i \in DOMAIN tasks' :
                tasks'[i].conn = 0 <=> tasks'[i].kind \in Display
    <3>1. task.conn # 0 /\ task.kind \notin Display
      BY <1>1, <1>2 DEF Display
    <3> QED
      BY <1>4, <3>1, TasksTyped DEF ClientInv
  <2>2. logins + 1 \in 0 .. MaxLogins
    BY <1>1, ClientBoundsAssumption DEF Attempt
  <2> QED
    BY <1>1, <1>4, <2>1, <2>2 DEF ClientInv, ClientTypeOK, Job
<1>6. UiInv'
  BY <1>4, UiFrame DEF ClientInv
<1>7. OrderInv'
  BY <1>2, <1>4, OrderFrame DEF ClientInv
<1>8. ConnectInv'
  <2>1. \A i \in Connecting' :
            \/ i \in Connecting /\ tasks'[i] = tasks[i]
            \/ i = Len(tasks) + 1 /\ tasks'[i].conn = logins + 1
    BY <1>2, <1>3, <1>4 DEF Moves, Connecting
  <2>2. /\ Reported' = Reported /\ uiQueue' = uiQueue
        /\ readThread' = readThread /\ ui' = "idle"
        /\ mConnection' = logins + 1
    BY DEF Reported
  <2>3. \A i \in Connecting : tasks[i].conn \in Nat
    BY Elements DEF ClientInv, Connecting
  <2>4. \A i \in Reported : uiQueue[i].arg \in Nat
    BY Elements DEF ClientInv, Reported
  <2>5. Connecting \subseteq 1 .. Len(tasks) /\ Len(tasks) \in Nat
    BY <1>3 DEF Connecting
  <2>6. Attempt \subseteq Nat
    BY DEF Attempt
  <2>7. readThread[logins + 1] = "none"
    BY <1>1 DEF ClientInv, ConnectInv
  <2>8. ConnectInv
    BY DEF ClientInv
  <2> HIDE DEF ClickLogin
  <2>9. \A i \in Connecting' : tasks'[i].conn <= logins'
    BY <1>1, <2>1, <2>3, <2>8 DEF ConnectInv
  <2>10. \A i, j \in Connecting' : i < j => tasks'[i].conn < tasks'[j].conn
    <3> SUFFICES ASSUME NEW i, NEW j, i \in Connecting', j \in Connecting',
                        i < j
                 PROVE  tasks'[i].conn < tasks'[j].conn
      OBVIOUS
    <3>1. i \in Connecting /\ tasks'[i] = tasks[i]
      <4>1. i \in Connecting \/ i = Len(tasks) + 1
        BY <2>1
      <4>2. j \in Connecting \/ j = Len(tasks) + 1
        BY <2>1
      <4>3. i \in Connecting
        BY <2>5, <4>1, <4>2, BeforeTheLast
      <4>4. i # Len(tasks) + 1
        BY <2>5, <4>3
      <4> QED
        BY <2>1, <4>3, <4>4
    <3>2. CASE j \in Connecting /\ tasks'[j] = tasks[j]
      BY <2>8, <3>1, <3>2 DEF ConnectInv
    <3>3. CASE tasks'[j].conn = logins + 1
      <4>1. tasks[i].conn <= logins /\ tasks[i].conn \in Nat
        BY <2>3, <2>8, <3>1 DEF ConnectInv
      <4> QED
        BY <1>1, <3>1, <3>3, <4>1
    <3> QED
      BY <2>1, <3>2, <3>3
  <2>11. \A i \in Reported', j \in Connecting' :
            uiQueue'[i].arg < tasks'[j].conn
    BY <1>1, <2>1, <2>2, <2>3, <2>4, <2>8 DEF ConnectInv
  <2>12. \A i \in Reported' : uiQueue'[i].arg <= logins'
    BY <1>1, <2>2, <2>4, <2>8 DEF ConnectInv
  <2>13. \A k \in Attempt : k > logins' => readThread'[k] = "none"
    BY <1>1, <2>2, <2>6, <2>8 DEF ConnectInv
  <2>14. \A i \in Connecting' :
            tasks'[i].conn \in Attempt /\ readThread'[tasks'[i].conn] = "none"
    BY <1>1, <2>1, <2>2, <2>7, <2>8 DEF ConnectInv
  <2>15. \A i \in Reported' :
            uiQueue'[i].arg \in Attempt /\ readThread'[uiQueue'[i].arg] = "none"
    BY <2>2, <2>8 DEF ConnectInv
  <2> QED
    BY <1>1, <2>2, <2>7, <2>8, <2>9, <2>10, <2>11, <2>12, <2>13, <2>14, <2>15
    DEF ConnectInv
<1> QED
  BY <1>5, <1>6, <1>7, <1>8 DEF ClientInv

LEMMA ClickSendInv == ASSUME ClientInv, ClickSend PROVE ClientInv'
<1> DEFINE m == Message("SendMessage", typed + 1)
<1> USE DEF ClickSend, activityVars, threadVars, userVars, serverVars, historyVars
<1>1. typed \in Nat /\ typed' = typed + 1 /\ typed + 1 \in 0 .. MaxTyped
  BY ClientBoundsAssumption DEF ClientInv, ClientTypeOK
<1>2. m \in Posted /\ m.what = "SendMessage" /\ m.arg = typed + 1
  BY <1>1 DEF Message, Posted, What
<1>3. tasks \in Seq(Job) /\ uiQueue \in Seq(Posted)
  BY DEF ClientInv, ClientTypeOK, Job, Posted
<1>4. uiQueue' \in Seq(Posted) /\ Moves(uiQueue, uiQueue', 0, {m})
      /\ Moves(tasks, tasks', 0, {})
  <2> HIDE DEF m
  <2> QED
    BY <1>2, <1>3, MovesAppend, MovesSame DEF m
<1> HIDE DEF m
<1>5. ClientTypeOK'
  BY <1>1, <1>4 DEF ClientInv, ClientTypeOK, Posted
<1>6. UiInv'
  BY <1>2, <1>4, UiFrame DEF ClientInv
<1>7. ConnectInv'
  BY <1>2, <1>4, ConnectFrame DEF ClientInv, ThreadsKeep
<1>8. OrderInv'
  <2>1. \A i \in DOMAIN uiQueue' : uiQueue'[i].what = "SendMessage" =>
            \/ i \in DOMAIN uiQueue /\ uiQueue'[i] = uiQueue[i]
               /\ i <= Len(uiQueue)
            \/ i = Len(uiQueue) + 1 /\ uiQueue'[i].arg = typed + 1
    BY <1>2, <1>3, <1>4 DEF Moves
  <2>2. \A i \in DOMAIN uiQueue : uiQueue[i].arg \in Nat
    BY Elements DEF ClientInv
  <2>3. \A i \in DOMAIN tasks : tasks[i].arg \in Nat
    BY Elements DEF ClientInv
  <2>4. \A k \in Attempt : \A i \in DOMAIN received[k] :
            received[k][i].arg \in Nat
    BY Elements DEF ClientInv
  <2>5. DOMAIN uiQueue' \subseteq Nat /\ Len(uiQueue) \in Nat
    BY <1>3, <1>4
  <2>6. received' = received /\ tasks' = tasks
    OBVIOUS
  <2> HIDE DEF ClickSend
  <2> QED
    BY <1>1, <2>1, <2>2, <2>3, <2>4, <2>5, <2>6
    DEF ClientInv, OrderInv, MessagesInOrder
<1> QED
  BY <1>5, <1>6, <1>7, <1>8 DEF ClientInv

-----------------------------------------------------------------------------
(* The UI thread. *)

LEMMA MessageTyped ==
    ASSUME NEW what \in What, NEW arg \in Nat
    PROVE  /\ Message(what, arg) \in Posted
           /\ Message(what, arg).what = what /\ Message(what, arg).arg = arg
  BY DEF Message, Posted

LEMMA TaskTyped ==
    ASSUME NEW kind \in TaskKind, NEW arg \in Nat, NEW conn \in {0} \cup Attempt
    PROVE  /\ Task(kind, arg, conn) \in Job
           /\ Task(kind, arg, conn).kind = kind
           /\ Task(kind, arg, conn).arg = arg
           /\ Task(kind, arg, conn).conn = conn
  BY DEF Task, Job

\* The message that is handled.
LEMMA Handled ==
    ASSUME ClientTypeOK, NEW what, Handles(what)
    PROVE  /\ ui = "idle" /\ uiQueue # << >> /\ uiQueue \in Seq(Posted)
           /\ tasks \in Seq(Job)
           /\ 1 \in DOMAIN uiQueue /\ Head(uiQueue) = uiQueue[1]
           /\ uiQueue[1].what = what /\ Arg = uiQueue[1].arg /\ Arg \in Nat
<1>1. uiQueue # << >> /\ uiQueue \in Seq(Posted) /\ tasks \in Seq(Job)
  BY DEF Handles, ClientTypeOK, Posted, Job
<1>2. 1 \in DOMAIN uiQueue /\ Head(uiQueue) = uiQueue[1]
  BY <1>1, MovesTail
<1>3. uiQueue[1].arg \in Nat
  BY <1>2, Elements
<1> QED
  BY <1>1, <1>2, <1>3 DEF Handles, Arg

\* close(): what is being connected has no thread, and nothing happens.
LEMMA StartCloses ==
    ASSUME ClientTypeOK, ConnectInv, ui = "idle", StartClose
    PROVE  /\ ui' \in {"idle", "joining"} /\ kill' \in [Attempt -> BOOLEAN]
           /\ mConnection' = mConnection
           /\ ui' = "joining" => mConnection' # 0
           /\ Connecting # {} \/ Reported # {} => ui' = ui
<1>1. CASE mConnection # 0 /\ readThread[mConnection] # "none"
  <2>1. /\ ui' = "joining" /\ kill' = [kill EXCEPT ![mConnection] = TRUE]
        /\ mConnection' = mConnection
    BY <1>1 DEF StartClose
  <2>2. kill' \in [Attempt -> BOOLEAN]
    BY <2>1 DEF ClientTypeOK
  <2>3. Connecting = {} /\ Reported = {}
    BY <1>1 DEF ConnectInv
  <2> QED
    BY <1>1, <2>1, <2>2, <2>3
<1>2. CASE ~(mConnection # 0 /\ readThread[mConnection] # "none")
  BY <1>2 DEF StartClose, ClientTypeOK, ConnectInv
<1> QED
  BY <1>1, <1>2

LEMMA FinishCloseInv == ASSUME ClientInv, FinishClose PROVE ClientInv'
<1> USE DEF FinishClose, activityVars, threadVars, userVars, serverVars, historyVars
<1>1. mConnection \in Attempt
  BY DEF ClientInv, ClientTypeOK, UiInv
<1>2. ClientTypeOK'
  BY <1>1 DEF ClientInv, ClientTypeOK
<1>3. Moves(uiQueue, uiQueue', 0, {}) /\ Moves(tasks, tasks', 0, {})
  BY MovesSame DEF ClientInv, ClientTypeOK
<1>4. Connecting = {} /\ Reported = {}
  BY DEF ClientInv, ConnectInv
<1> QED
  BY <1>2, <1>3, <1>4, Ordinary DEF ThreadsKeep

LEMMA CallbackInv == ASSUME ClientInv, HandleCallback PROVE ClientInv'
<1> DEFINE m == IF Handles("loginSent") THEN Message("ExpectingLogin", 0)
                                        ELSE Message("DisplayError", 0)
<1> USE DEF HandleCallback, activityVars, threadVars, userVars, serverVars,
            historyVars
<1>1. /\ uiQueue # << >> /\ ui = "idle"
      /\ uiQueue \in Seq(Posted) /\ tasks \in Seq(Job)
  BY Handled DEF ClientInv
<1>2. m \in Posted /\ m.what \in {"ExpectingLogin", "DisplayError"}
  BY MessageTyped DEF What
<1>3. Posts(<<m>>)
  BY DEF Handles
<1> HIDE DEF m, HandleCallback
<1>4. uiQueue' \in Seq(Posted) /\ Moves(uiQueue, uiQueue', 1, {m})
  BY <1>1, <1>2, <1>3, MovesPosts
<1>5. ClientTypeOK' /\ Moves(tasks, tasks', 0, {})
  BY <1>1, <1>4, MovesSame DEF HandleCallback, ClientInv, ClientTypeOK, Posted
<1> QED
  BY <1>1, <1>2, <1>4, <1>5, Ordinary DEF HandleCallback, ThreadsKeep

LEMMA LoginFailedInv == ASSUME ClientInv, HandleLoginFailed PROVE ClientInv'
<1> DEFINE m == Message("DisplayError", 0)
<1> USE DEF HandleLoginFailed, activityVars, userVars, serverVars, historyVars
<1>1. /\ uiQueue # << >> /\ ui = "idle"
      /\ uiQueue \in Seq(Posted) /\ tasks \in Seq(Job)
  BY Handled DEF ClientInv
<1>2. m \in Posted /\ m.what = "DisplayError" /\ Posts(<<m>>)
  BY MessageTyped DEF What
<1> HIDE DEF m
<1>3. uiQueue' \in Seq(Posted) /\ Moves(uiQueue, uiQueue', 1, {m})
  BY <1>1, <1>2, MovesPosts
<1>4. /\ ui' \in {"idle", "joining"} /\ kill' \in [Attempt -> BOOLEAN]
      /\ mConnection' = mConnection
      /\ ui' = "joining" => mConnection' # 0
      /\ Connecting # {} \/ Reported # {} => ui' = ui
  BY <1>1, StartCloses DEF ClientInv
<1>5. ClientTypeOK' /\ Moves(tasks, tasks', 0, {})
  BY <1>1, <1>3, <1>4, MovesSame DEF ClientInv, ClientTypeOK, Posted
<1> QED
  BY <1>2, <1>3, <1>4, <1>5, Ordinary DEF ThreadsKeep

LEMMA ExpectationInv == ASSUME ClientInv, HandleExpectation PROVE ClientInv'
<1> USE DEF HandleExpectation, activityVars, threadVars, userVars, serverVars,
            historyVars
<1>1. /\ uiQueue # << >> /\ ui = "idle"
      /\ uiQueue \in Seq(Posted) /\ tasks \in Seq(Job)
  BY Handled DEF ClientInv
<1>2. uiQueue' \in Seq(Posted) /\ Moves(uiQueue, uiQueue', 1, {})
  BY <1>1, MovesPosts
<1>3. ClientTypeOK' /\ Moves(tasks, tasks', 0, {})
  BY <1>1, <1>2, MovesSame DEF ClientInv, ClientTypeOK, Posted
<1> QED
  BY <1>1, <1>2, <1>3, Ordinary DEF ThreadsKeep

\* FragmentTransaction.commit posts the execution unless it is posted already.
LEMMA Commits ==
    ASSUME ClientInv, uiQueue # << >>, pending' # << >>, Posts(CommitPosts),
           ui' = "joining" => mConnection' # 0
    PROVE  /\ uiQueue' \in Seq(Posted)
           /\ Moves(uiQueue, uiQueue', 1, {Message("execPending", 0)})
           /\ UiInv'
<1> DEFINE m == Message("execPending", 0)
<1>1. uiQueue \in Seq(Posted)
  BY DEF ClientInv, ClientTypeOK, Posted
<1>2. m \in Posted /\ m.what = "execPending"
  BY MessageTyped DEF What
<1>3. CASE pending = << >>
  <2>1. Posts(<<m>>)
    BY <1>3 DEF CommitPosts
  <2> HIDE DEF m
  <2>2. uiQueue' \in Seq(Posted) /\ Moves(uiQueue, uiQueue', 1, {m})
    BY <1>1, <1>2, <2>1, MovesPosts
  <2>3. \A i \in DOMAIN uiQueue : uiQueue[i].what # "execPending"
    BY <1>3 DEF ClientInv, UiInv
  <2>4. UiInv'
    <3>1. \A i \in DOMAIN uiQueue' : uiQueue'[i].what = "connected" =>
                uiQueue'[i].arg \in Attempt
      BY <1>2, <2>2 DEF Moves, ClientInv, UiInv
    <3>2. \A i \in DOMAIN uiQueue' : uiQueue'[i].what = "execPending" =>
                i \in Nat /\ i + 1 = Len(uiQueue) + 1
      BY <2>2, <2>3 DEF Moves
    <3>3. Len(uiQueue) \in Nat
      BY <1>1
    <3>4. \A i, j \in DOMAIN uiQueue' :
            /\ uiQueue'[i].what = "execPending"
            /\ uiQueue'[j].what = "execPending"
            => i = j
      BY <3>2, <3>3
    <3> QED
      BY <3>1, <3>4 DEF UiInv
  <2> QED
    BY <2>2, <2>4 DEF m
<1>4. CASE pending # << >>
  <2>1. Posts(<< >>)
    BY <1>4 DEF CommitPosts
  <2>2. uiQueue' \in Seq(Posted) /\ Moves(uiQueue, uiQueue', 1, {})
    BY <1>1, <2>1, MovesPosts
  <2>3. UiInv'
    BY <1>4, <2>2, UiFrame DEF ClientInv
  <2>4. Moves(uiQueue, uiQueue', 1, {m})
    BY <2>2 DEF Moves
  <2> QED
    BY <2>2, <2>3, <2>4
<1> QED
  BY <1>3, <1>4

LEMMA SocketAWOLInv == ASSUME ClientInv, HandleSocketAWOL PROVE ClientInv'
<1> USE DEF HandleSocketAWOL, userVars, serverVars, historyVars
<1>1. /\ uiQueue # << >> /\ ui = "idle"
      /\ uiQueue \in Seq(Posted) /\ tasks \in Seq(Job)
  BY Handled DEF ClientInv
<1>2. /\ ui' \in {"idle", "joining"} /\ kill' \in [Attempt -> BOOLEAN]
      /\ mConnection' = mConnection
      /\ ui' = "joining" => mConnection' # 0
      /\ Connecting # {} \/ Reported # {} => ui' = ui
  BY <1>1, StartCloses DEF ClientInv
<1>3. pending' \in Seq(Fragments) /\ pending' # << >>
  <2>1. pending' = Append(pending, "login")
    OBVIOUS
  <2>2. pending \in Seq(Fragments) /\ "login" \in Fragments
    BY DEF ClientInv, ClientTypeOK, Fragments
  <2> QED
    BY <2>1, <2>2, AppendTyped
<1>4. /\ uiQueue' \in Seq(Posted) /\ UiInv'
      /\ Moves(uiQueue, uiQueue', 1, {Message("execPending", 0)})
  BY <1>1, <1>2, <1>3, Commits
<1>5. ClientTypeOK' /\ Moves(tasks, tasks', 0, {})
  BY <1>1, <1>2, <1>3, <1>4, MovesSame DEF ClientInv, ClientTypeOK, Posted
<1>6. Message("execPending", 0).what = "execPending"
  BY MessageTyped DEF What
<1>7. OrderInv' /\ ConnectInv'
  BY <1>2, <1>4, <1>5, <1>6, OrderFrame, ConnectFrame
  DEF ClientInv, ThreadsKeep
<1> QED
  BY <1>4, <1>5, <1>7 DEF ClientInv

\* The transactions are executed: nothing is left to execute.
LEMMA ExecPendingInv == ASSUME ClientInv, ExecPending PROVE ClientInv'
<1> USE DEF ExecPending, threadVars, userVars, serverVars, historyVars
<1>1. /\ uiQueue # << >> /\ ui = "idle" /\ 1 \in DOMAIN uiQueue
      /\ uiQueue \in Seq(Posted) /\ tasks \in Seq(Job)
      /\ uiQueue[1].what = "execPending"
  BY Handled DEF ClientInv
<1>2. uiQueue' \in Seq(Posted) /\ Moves(uiQueue, uiQueue', 1, {})
  BY <1>1, MovesPosts
<1>3. screen' \in Fragments
  <2>1. pending # << >> /\ pending \in Seq(Fragments)
    BY <1>1 DEF ClientInv, UiInv, ClientTypeOK
  <2> QED
    BY <2>1
<1>4. ClientTypeOK' /\ Moves(tasks, tasks', 0, {})
  <2>1. pending' \in Seq(Fragments) /\ roomReady' \in BOOLEAN
    BY DEF ClientInv, ClientTypeOK
  <2> QED
    BY <1>1, <1>2, <1>3, <2>1, MovesSame DEF ClientInv, ClientTypeOK, Posted
<1>5. UiInv'
  <2>1. \A i \in DOMAIN uiQueue' :
            i + 1 \in DOMAIN uiQueue /\ uiQueue'[i] = uiQueue[i + 1] /\ i \in Nat
            /\ i + 1 # 1
    BY <1>2 DEF Moves
  <2>2. \A i \in DOMAIN uiQueue' : uiQueue'[i].what # "execPending"
    <3>1. \A i \in DOMAIN uiQueue : uiQueue[i].what = "execPending" => i = 1
      BY <1>1 DEF ClientInv, UiInv
    <3> QED
      BY <2>1, <3>1
  <2> QED
    BY <1>1, <2>1, <2>2 DEF ClientInv, UiInv
<1>6. OrderInv' /\ ConnectInv'
  BY <1>2, <1>4, OrderFrame, ConnectFrame DEF ClientInv, ThreadsKeep
<1> QED
  BY <1>4, <1>5, <1>6 DEF ClientInv

\* A response on the screen, missed, or with a task that stalls it.
LEMMA Responds ==
    ASSUME ClientInv, NEW what \in Display, Handles(what), NEW added,
           \/ Shows(added) /\ UNCHANGED tasks
           \/ Stalls
    PROVE  /\ tasks' \in Seq(Job)
           /\ \E Jobs : /\ Moves(tasks, tasks', 0, Jobs)
                        /\ \A t \in Jobs : t.kind \in Display /\ t.conn = 0
           /\ shown' \in SUBSET Nat /\ missed' \in SUBSET Nat
           /\ lost' = lost
<1>1. tasks \in Seq(Job) /\ Arg \in Nat
  BY Handled DEF ClientInv
<1>2. CASE Shows(added) /\ UNCHANGED tasks
  <2>1. Moves(tasks, tasks', 0, {})
    BY <1>1, <1>2, MovesSame
  <2>2. shown' \in SUBSET Nat /\ missed' \in SUBSET Nat /\ lost' = lost
    BY <1>1, <1>2 DEF Shows, Draws, ClientInv, ClientTypeOK
  <2> QED
    BY <1>1, <1>2, <2>1, <2>2
<1>3. CASE Stalls
  <2> DEFINE t == Task(what, Arg, 0)
  <2>1. t \in Job /\ t.kind = what /\ t.conn = 0
    <3>1. what \in TaskKind
      BY DEF TaskKind
    <3> QED
      BY <1>1, <3>1, TaskTyped
  <2>2. tasks' = Append(tasks, t)
    BY <1>3 DEF Stalls, Handles
  <2> HIDE DEF t
  <2>3. tasks' \in Seq(Job) /\ Moves(tasks, tasks', 0, {t})
    BY <1>1, <2>1, <2>2, MovesAppend
  <2>4. shown' \in SUBSET Nat /\ missed' \in SUBSET Nat /\ lost' = lost
    BY <1>3 DEF Stalls, historyVars, ClientInv, ClientTypeOK
  <2> QED
    BY <2>1, <2>3, <2>4
<1> QED
  BY <1>2, <1>3

LEMMA DisplayMessageInv == ASSUME ClientInv, HandleDisplayMessage PROVE ClientInv'
<1> USE DEF HandleDisplayMessage, activityVars, threadVars, userVars, serverVars
<1>1. /\ uiQueue # << >> /\ ui = "idle"
      /\ uiQueue \in Seq(Posted) /\ tasks \in Seq(Job)
  BY Handled DEF ClientInv
<1>2. uiQueue' \in Seq(Posted) /\ Moves(uiQueue, uiQueue', 1, {})
  BY <1>1, MovesPosts
<1>3. tasks' \in Seq(Job) /\ shown' \in SUBSET Nat /\ missed' \in SUBSET Nat
      /\ lost' = lost
  BY Responds DEF Display
<1>4. PICK Jobs : /\ Moves(tasks, tasks', 0, Jobs)
                  /\ \A t \in Jobs : t.kind \in Display /\ t.conn = 0
  BY Responds DEF Display
<1>5. ClientTypeOK'
  <2>1. \A i \in DOMAIN tasks' :
            tasks'[i].conn = 0 <=> tasks'[i].kind \in Display
    BY <1>4, TasksTyped DEF ClientInv
  <2> QED
    BY <1>2, <1>3, <2>1 DEF ClientInv, ClientTypeOK, Posted, Job
<1>6. \A t \in Jobs : t.kind \notin {"connect", "message"}
  BY <1>4 DEF Display
<1> QED
  BY <1>1, <1>2, <1>4, <1>5, <1>6, Ordinary DEF ThreadsKeep

LEMMA DisplayLoginInv == ASSUME ClientInv, HandleDisplayLogin PROVE ClientInv'
<1> DEFINE opens == expectingLogin \/ ~loggedIn
           now   == IF opens THEN Superseded(screen) ELSE screen
           old   == [i \in DOMAIN pending |-> Superseded(pending[i])]
<1>1. /\ Handles("DisplayLogin")
      /\ loggedIn' = TRUE /\ expectingLogin' = FALSE /\ screen' = now
      /\ pending' = IF opens THEN Append(old, "room") ELSE pending
      /\ Posts(IF opens THEN CommitPosts ELSE << >>)
      /\ (Shows(now = "room") /\ UNCHANGED tasks) \/ Stalls
      /\ UNCHANGED <<crashed, ui, mConnection, roomReady, sock, readThread,
                     kill, logins, typed, server, stream, received, responses,
                     refused>>
  BY DEF HandleDisplayLogin, threadVars, userVars, serverVars
<1>2. /\ uiQueue # << >> /\ ui = "idle"
      /\ uiQueue \in Seq(Posted) /\ tasks \in Seq(Job)
  BY <1>1, Handled DEF ClientInv
<1>3. tasks' \in Seq(Job) /\ shown' \in SUBSET Nat /\ missed' \in SUBSET Nat
      /\ lost' = lost
  BY <1>1, Responds DEF Display
<1>4. PICK Jobs : /\ Moves(tasks, tasks', 0, Jobs)
                  /\ \A t \in Jobs : t.kind \in Display /\ t.conn = 0
  BY <1>1, Responds DEF Display
<1>5. /\ pending' \in Seq(Fragments) /\ screen' \in Fragments
      /\ opens => pending' # << >>
  <2>1. \A f \in Fragments : Superseded(f) \in Fragments
    BY DEF Fragments, Superseded
  <2>2. pending \in Seq(Fragments) /\ screen \in Fragments
        /\ "room" \in Fragments
    BY DEF ClientInv, ClientTypeOK, Fragments
  <2>3. old \in Seq(Fragments)
    BY <2>1, <2>2
  <2> HIDE DEF old
  <2>4. Append(old, "room") \in Seq(Fragments) /\ Append(old, "room") # << >>
    BY <2>2, <2>3, AppendTyped
  <2> QED
    BY <1>1, <2>1, <2>2, <2>4
<1> HIDE DEF old, now
<1>6. /\ uiQueue' \in Seq(Posted) /\ UiInv'
      /\ Moves(uiQueue, uiQueue', 1, {Message("execPending", 0)})
  <2>1. CASE opens
    BY <1>1, <1>2, <1>5, <2>1, Commits
  <2>2. CASE ~opens
    <3>1. uiQueue' \in Seq(Posted) /\ Moves(uiQueue, uiQueue', 1, {})
      BY <1>1, <1>2, <2>2, MovesPosts
    <3>2. UiInv'
      BY <1>1, <1>2, <2>2, <3>1, UiFrame DEF ClientInv
    <3> QED
      BY <3>1, <3>2 DEF Moves
  <2> QED
    BY <2>1, <2>2
<1>7. ClientTypeOK'
  <2>1. \A i \in DOMAIN tasks' :
            tasks'[i].conn = 0 <=> tasks'[i].kind \in Display
    BY <1>4, TasksTyped DEF ClientInv
  <2> HIDE <1>4
  <2> QED
    BY <1>1, <1>3, <1>5, <1>6, <2>1 DEF ClientInv, ClientTypeOK, Posted, Job
<1>8. \A t \in Jobs : t.kind \notin {"connect", "message"}
  BY <1>4 DEF Display
<1>9. Message("execPending", 0).what = "execPending"
  BY MessageTyped DEF What
<1>10. OrderInv' /\ ConnectInv'
  BY <1>1, <1>4, <1>6, <1>8, <1>9, OrderFrame, ConnectFrame
  DEF ClientInv, ThreadsKeep
<1> QED
  BY <1>6, <1>7, <1>10 DEF ClientInv

\* What is sent is one more task, with the connection in use.
LEMMA SendsOut ==
    ASSUME ClientInv, NEW what, Handles(what),
           NEW kind \in {"login", "message"}, Sends(kind)
    PROVE  /\ crashed' \in BOOLEAN
           /\ \/ mConnection = 0 /\ UNCHANGED <<uiQueue, tasks>>
              \/ /\ mConnection # 0
                 /\ uiQueue' \in Seq(Posted) /\ tasks' \in Seq(Job)
                 /\ Moves(uiQueue, uiQueue', 1, {Message("DisplayError", 0)})
                 /\ Moves(tasks, tasks', 0, {Task(kind, Arg, mConnection)})
                 /\ \A i \in DOMAIN tasks' :
                        tasks'[i].conn = 0 <=> tasks'[i].kind \in Display
<1>1. CASE mConnection = 0
  BY <1>1 DEF Sends
<1>2. CASE mConnection # 0
  <2> DEFINE m  == Message("DisplayError", 0)
             t  == Task(kind, Arg, mConnection)
             ms == IF sock[mConnection] = "new" THEN <<m>> ELSE << >>
  <2>1. /\ uiQueue # << >> /\ uiQueue \in Seq(Posted) /\ tasks \in Seq(Job)
        /\ Arg \in Nat /\ mConnection \in {0} \cup Attempt
    BY Handled DEF ClientInv, ClientTypeOK
  <2>2. m \in Posted
    BY MessageTyped DEF What
  <2>3. t \in Job /\ t.kind = kind /\ t.conn = mConnection
    <3>1. kind \in TaskKind
      BY DEF TaskKind
    <3> QED
      BY <2>1, <3>1, TaskTyped
  <2>4. Posts(ms) /\ tasks' = Append(tasks, t) /\ crashed' = crashed
    BY <1>2 DEF Sends
  <2>5. ms = << >> \/ \E x \in {m} : ms = <<x>>
    OBVIOUS
  <2> HIDE DEF m, t, ms
  <2>6. uiQueue' \in Seq(Posted) /\ Moves(uiQueue, uiQueue', 1, {m})
    BY <2>1, <2>2, <2>4, <2>5, MovesPosts
  <2>7. tasks' \in Seq(Job) /\ Moves(tasks, tasks', 0, {t})
    BY <2>1, <2>3, <2>4, MovesAppend
  <2>8. \A i \in DOMAIN tasks' :
            tasks'[i].conn = 0 <=> tasks'[i].kind \in Display
    BY <1>2, <2>3, <2>7, TasksTyped DEF ClientInv, Display
  <2>9. crashed' \in BOOLEAN
    BY <2>4 DEF ClientInv, ClientTypeOK
  <2> QED
    BY <1>2, <2>6, <2>7, <2>8, <2>9 DEF m, t
<1> QED
  BY <1>1, <1>2 DEF Sends, ClientInv, ClientTypeOK

LEMMA SendMessageInv == ASSUME ClientInv, HandleSendMessage PROVE ClientInv'
<1> USE DEF HandleSendMessage, activityVars, threadVars, userVars, serverVars,
            historyVars
<1>1. /\ uiQueue \in Seq(Posted) /\ tasks \in Seq(Job) /\ 1 \in DOMAIN uiQueue
      /\ uiQueue[1].what = "SendMessage" /\ Arg = uiQueue[1].arg /\ Arg \in Nat
  BY Handled DEF ClientInv
<1>2. crashed' \in BOOLEAN
  BY SendsOut
<1>3. CASE UNCHANGED <<uiQueue, tasks>>
  <2>1. ClientTypeOK'
    BY <1>2, <1>3 DEF ClientInv, ClientTypeOK
  <2> QED
    BY <1>3, <2>1, QuietQueues DEF ThreadsKeep
<1>4. CASE ~UNCHANGED <<uiQueue, tasks>>
  <2> DEFINE m == Message("DisplayError", 0)
             t == Task("message", Arg, mConnection)
  <2>1. /\ uiQueue' \in Seq(Posted) /\ tasks' \in Seq(Job)
        /\ Moves(uiQueue, uiQueue', 1, {m}) /\ Moves(tasks, tasks', 0, {t})
        /\ \A i \in DOMAIN tasks' :
                tasks'[i].conn = 0 <=> tasks'[i].kind \in Display
    BY <1>4, SendsOut
  <2>2. m.what = "DisplayError"
    BY MessageTyped DEF What
  <2>3. t.kind = "message" /\ t.arg = Arg
    BY DEF Task
  <2> HIDE DEF m, t
  <2>4. ClientTypeOK'
    BY <1>2, <2>1 DEF ClientInv, ClientTypeOK, Posted, Job
  <2>5. UiInv'
    BY <2>1, <2>2, UiFrame DEF ClientInv, UiInv
  <2>6. ConnectInv'
    BY <2>1, <2>2, <2>3, ConnectFrame DEF ClientInv, ThreadsKeep
  <2>7. OrderInv'
    <3>1. \A i \in DOMAIN uiQueue' : uiQueue'[i].what = "SendMessage" =>
            /\ i + 1 \in DOMAIN uiQueue /\ uiQueue'[i] = uiQueue[i + 1]
            /\ 1 < i + 1
      BY <2>1, <2>2 DEF Moves
    <3>2. \A i \in DOMAIN tasks' :
            \/ i \in DOMAIN tasks /\ tasks'[i] = tasks[i]
            \/ i = Len(tasks) + 1 /\ tasks'[i].arg = Arg
      <4>1. ASSUME NEW i \in DOMAIN tasks'
            PROVE  /\ i \in Nat
                   /\ \/ i + 0 \in DOMAIN tasks /\ tasks'[i] = tasks[i + 0]
                      \/ i + 0 = Len(tasks) + 1 /\ tasks'[i] = t
        BY <2>1, Zenon DEF Moves
      <4>2. \A i \in Nat : i + 0 = i
        OBVIOUS
      <4> QED
        BY <2>3, <4>1, <4>2
    <3>3. /\ \A i \in DOMAIN uiQueue' : uiQueue'[i].what = "SendMessage" =>
                Arg < uiQueue'[i].arg /\ uiQueue'[i].arg <= typed
          /\ \A i, j \in DOMAIN uiQueue' :
                i < j /\ uiQueue'[i].what = "SendMessage"
                      /\ uiQueue'[j].what = "SendMessage"
                    => uiQueue'[i].arg < uiQueue'[j].arg
      <4>1. \A i, j \in DOMAIN uiQueue' : i < j => i + 1 < j + 1
        BY <2>1
      <4> QED
        BY <1>1, <3>1, <4>1 DEF ClientInv, OrderInv
    <3>4. Arg <= typed /\ typed' = typed
      BY <1>1 DEF ClientInv, OrderInv
    <3>5. \A i \in DOMAIN tasks : tasks[i].kind = "message" =>
            tasks[i].arg < Arg /\ tasks[i].arg <= typed
      BY <1>1 DEF ClientInv, OrderInv
    <3>6. \A k \in Attempt : \A n \in DOMAIN received[k] :
            received[k][n].kind = "message" =>
                received[k][n].arg < Arg /\ received[k][n].arg <= typed
      BY <1>1 DEF ClientInv, OrderInv
    <3>7. /\ \A i \in DOMAIN tasks : tasks[i].arg \in Nat
          /\ \A i \in DOMAIN uiQueue' : uiQueue'[i].arg \in Nat
          /\ \A k \in Attempt : \A n \in DOMAIN received[k] :
                received[k][n].arg \in Nat
      <4>1. \A i \in DOMAIN uiQueue' : uiQueue'[i] \in Posted
        BY <2>1, SeqElement
      <4> QED
        BY <4>1, Elements DEF ClientInv, Posted
    <3>8. DOMAIN tasks \subseteq 1 .. Len(tasks) /\ Len(tasks) \in Nat
      BY <1>1
    <3>9. \A i, j \in DOMAIN tasks' :
            i < j /\ tasks'[i].kind = "message" /\ tasks'[j].kind = "message"
                => tasks'[i].arg < tasks'[j].arg
      <4> SUFFICES ASSUME NEW i, NEW j, i \in DOMAIN tasks', j \in DOMAIN tasks',
                          i < j, tasks'[i].kind = "message",
                          tasks'[j].kind = "message"
                   PROVE  tasks'[i].arg < tasks'[j].arg
        OBVIOUS
      <4>1. i \in DOMAIN tasks \/ i = Len(tasks) + 1
        BY <3>2
      <4>2. j \in DOMAIN tasks \/ j = Len(tasks) + 1
        BY <3>2
      <4>3. i \in DOMAIN tasks
        BY <3>8, <4>1, <4>2, BeforeTheLast
      <4>4. i # Len(tasks) + 1
        BY <3>8, <4>3
      <4>5. tasks'[i] = tasks[i]
        BY <3>2, <4>4
      <4>6. CASE j \in DOMAIN tasks /\ tasks'[j] = tasks[j]
        BY <4>3, <4>5, <4>6 DEF ClientInv, OrderInv
      <4>7. CASE tasks'[j].arg = Arg
        BY <3>5, <4>3, <4>5, <4>7
      <4> QED
        BY <3>2, <4>6, <4>7
    <3>10. \A i \in DOMAIN tasks' : tasks'[i].kind = "message" =>
            /\ tasks'[i].arg <= typed
            /\ \A j \in DOMAIN uiQueue' : uiQueue'[j].what = "SendMessage" =>
                    tasks'[i].arg < uiQueue'[j].arg
      BY <1>1, <3>2, <3>3, <3>4, <3>5, <3>7
    <3>11. received' = received
      OBVIOUS
    <3> HIDE DEF HandleSendMessage
    <3>12. \A k \in Attempt : \A n \in DOMAIN received[k] :
            received[k][n].kind = "message" =>
                /\ \A i \in DOMAIN tasks' : tasks'[i].kind = "message" =>
                        received[k][n].arg < tasks'[i].arg
                /\ \A i \in DOMAIN uiQueue' : uiQueue'[i].what = "SendMessage" =>
                        received[k][n].arg < uiQueue'[i].arg
      BY <1>1, <3>2, <3>3, <3>6, <3>7 DEF ClientInv, OrderInv
    <3>13. MessagesInOrder'
      BY <3>11 DEF ClientInv, OrderInv, MessagesInOrder
    <3> QED
      BY <3>3, <3>4, <3>6, <3>9, <3>10, <3>11, <3>12, <3>13 DEF OrderInv
  <2> QED
    BY <2>4, <2>5, <2>6, <2>7 DEF ClientInv
<1> QED
  BY <1>3, <1>4

LEMMA ConnectedInv == ASSUME ClientInv, HandleConnected PROVE ClientInv'
<1> DEFINE m == Message("DisplayError", 0)
           t == Task("login", Arg, mConnection)
<1> USE DEF HandleConnected, activityVars, userVars, serverVars, historyVars
<1>1. /\ uiQueue \in Seq(Posted) /\ tasks \in Seq(Job) /\ 1 \in DOMAIN uiQueue
      /\ uiQueue[1].what = "connected" /\ Arg = uiQueue[1].arg /\ Arg \in Nat
      /\ ui = "idle"
  BY Handled DEF ClientInv
<1>2. 1 \in Reported /\ Arg \in Attempt /\ Arg <= logins
  BY <1>1 DEF Reported, ClientInv, UiInv, ConnectInv
<1>3. /\ logins \in Attempt /\ mConnection = logins /\ mConnection # 0
      /\ readThread[logins] = "none"
  <2>1. /\ logins \in Attempt /\ mConnection = logins
        /\ readThread[logins] = "none"
    BY <1>2 DEF ClientInv, ConnectInv
  <2>2. 0 \notin Attempt
    BY DEF Attempt
  <2> QED
    BY <2>1, <2>2
<1>4. /\ uiQueue' \in Seq(Posted) /\ tasks' \in Seq(Job) /\ crashed' \in BOOLEAN
      /\ Moves(uiQueue, uiQueue', 1, {m}) /\ Moves(tasks, tasks', 0, {t})
      /\ \A i \in DOMAIN tasks' :
            tasks'[i].conn = 0 <=> tasks'[i].kind \in Display
  BY <1>3, SendsOut
<1>5. m.what = "DisplayError" /\ t.kind = "login"
  BY MessageTyped DEF What, Task
<1> HIDE DEF m, t
<1>6. ClientTypeOK'
  BY <1>2, <1>4 DEF ClientInv, ClientTypeOK, Posted, Job
<1>7. UiInv'
  BY <1>4, <1>5, UiFrame DEF ClientInv, UiInv
<1>8. OrderInv'
  BY <1>4, <1>5, OrderFrame DEF ClientInv
<1>9. ConnectInv'
  <2>1. \A i \in Reported' : /\ i + 1 \in Reported
                             /\ uiQueue'[i] = uiQueue[i + 1] /\ 1 < i + 1
    BY <1>4, <1>5 DEF Moves, Reported
  <2>2. \A i \in Connecting' : i \in Connecting /\ tasks'[i] = tasks[i]
    BY <1>4, <1>5 DEF Moves, Connecting
  <2>3. \A i, j \in Reported' : i < j => i + 1 < j + 1
    BY <1>4 DEF Reported
  <2>4. readThread' = [readThread EXCEPT ![Arg] = "testing"]
        /\ logins' = logins /\ mConnection' = mConnection /\ ui' = ui
    OBVIOUS
  <2>5. ConnectInv /\ readThread \in [Attempt ->
            {"none", "testing", "reading", "losing", "ended"}]
    BY DEF ClientInv, ClientTypeOK
  <2>6. Attempt \subseteq Nat
    BY DEF Attempt
  <2> HIDE DEF HandleConnected
  <2>7. Reported' # {} \/ Connecting' # {} => Arg # logins
    <3>1. ASSUME NEW i, i \in Reported' PROVE Arg # logins
      <4>1. Arg < uiQueue[i + 1].arg /\ uiQueue[i + 1].arg <= logins
        BY <1>1, <1>2, <2>1, <2>5, <3>1 DEF ConnectInv
      <4>2. uiQueue[i + 1].arg \in Nat
        BY <2>1, <3>1, Elements DEF ClientInv, Reported
      <4> QED
        BY <1>2, <1>3, <2>6, <4>1, <4>2
    <3>2. ASSUME NEW i, i \in Connecting' PROVE Arg # logins
      <4>1. Arg < tasks[i].conn /\ tasks[i].conn <= logins
        BY <1>1, <1>2, <2>2, <2>5, <3>2 DEF ConnectInv
      <4>2. tasks[i].conn \in Nat
        BY <2>2, <3>2, Elements DEF ClientInv, Connecting
      <4> QED
        BY <1>2, <1>3, <2>6, <4>1, <4>2
    <3> QED
      BY <3>1, <3>2
  <2>8. \A k \in Attempt : k > logins => readThread'[k] = "none"
    BY <1>2, <1>3, <2>4, <2>5, <2>6 DEF ConnectInv
  <2>9. Reported' # {} \/ Connecting' # {} => readThread'[logins] = "none"
    BY <1>3, <2>4, <2>5, <2>7
  <2>10. /\ \A i \in Connecting' : tasks'[i].conn <= logins
         /\ \A i, j \in Connecting' : i < j => tasks'[i].conn < tasks'[j].conn
    BY <2>2, <2>5 DEF ConnectInv
  <2>11. /\ \A i \in Reported' : uiQueue'[i].arg <= logins
         /\ \A i, j \in Reported' : i < j => uiQueue'[i].arg < uiQueue'[j].arg
    BY <2>1, <2>3, <2>5 DEF ConnectInv
  <2>12. \A i \in Reported', j \in Connecting' :
            uiQueue'[i].arg < tasks'[j].conn
    BY <2>1, <2>2, <2>5 DEF ConnectInv
  <2>13. ui' = "idle" /\ logins \in Attempt /\ mConnection' = logins
    BY <1>1, <1>3, <2>4
  <2>14. \A i \in Connecting' :
            tasks'[i].conn \in Attempt /\ readThread'[tasks'[i].conn] = "none"
    <3> SUFFICES ASSUME NEW i, i \in Connecting'
                 PROVE  /\ tasks'[i].conn \in Attempt
                        /\ readThread'[tasks'[i].conn] = "none"
      OBVIOUS
    <3>1. /\ i \in Connecting /\ tasks'[i] = tasks[i]
          /\ tasks[i].conn \in Attempt /\ readThread[tasks[i].conn] = "none"
          /\ Arg < tasks[i].conn
      BY <1>1, <1>2, <2>2, <2>5 DEF ConnectInv
    <3>2. tasks[i].conn # Arg
      BY <1>1, <2>6, <3>1
    <3> QED
      BY <2>4, <2>5, <3>1, <3>2
  <2>15. \A i \in Reported' :
            uiQueue'[i].arg \in Attempt /\ readThread'[uiQueue'[i].arg] = "none"
    <3> SUFFICES ASSUME NEW i, i \in Reported'
                 PROVE  /\ uiQueue'[i].arg \in Attempt
                        /\ readThread'[uiQueue'[i].arg] = "none"
      OBVIOUS
    <3>1. /\ i + 1 \in Reported /\ uiQueue'[i] = uiQueue[i + 1] /\ 1 < i + 1
          /\ uiQueue[i + 1].arg \in Attempt
          /\ readThread[uiQueue[i + 1].arg] = "none"
      BY <2>1, <2>5 DEF ConnectInv
    <3>2. Arg < uiQueue[i + 1].arg
      BY <1>1, <1>2, <2>5, <3>1 DEF ConnectInv
    <3>3. uiQueue[i + 1].arg # Arg
      BY <1>1, <2>6, <3>1, <3>2
    <3> QED
      BY <2>4, <2>5, <3>1, <3>3
  <2> QED
    BY <2>4, <2>8, <2>9, <2>10, <2>11, <2>12, <2>13, <2>14, <2>15
    DEF ConnectInv
<1> QED
  BY <1>6, <1>7, <1>8, <1>9 DEF ClientInv

-----------------------------------------------------------------------------
(* The background thread of the tasks. *)

\* The task that runs.
LEMMA Running ==
    ASSUME ClientTypeOK, NEW task, Runs(task)
    PROVE  /\ tasks \in Seq(Job) /\ uiQueue \in Seq(Posted)
           /\ 1 \in DOMAIN tasks /\ task = tasks[1] /\ task \in Job
           /\ task.conn = 0 <=> task.kind \in Display
           /\ tasks' \in Seq(Job) /\ Moves(tasks, tasks', 1, {})
           /\ \A i \in DOMAIN tasks' :
                tasks'[i].conn = 0 <=> tasks'[i].kind \in Display
<1>1. /\ tasks \in Seq(Job) /\ uiQueue \in Seq(Posted) /\ tasks # << >>
      /\ task = Head(tasks) /\ tasks' = Tail(tasks)
  BY DEF Runs, ClientTypeOK, Posted, Job
<1>2. /\ 1 \in DOMAIN tasks /\ task = tasks[1] /\ task \in Job
      /\ tasks' \in Seq(Job) /\ Moves(tasks, tasks', 1, {})
  BY <1>1, MovesTail
<1>3. task.conn = 0 <=> task.kind \in Display
  BY <1>2 DEF ClientTypeOK
<1> QED
  BY <1>1, <1>2, <1>3, TasksTyped

LEMMA StallInv ==
    ASSUME ClientInv, NEW task, RunStall(task) PROVE ClientInv'
<1> DEFINE m == Message(task.kind, task.arg)
<1> USE DEF RunStall, activityVars, threadVars, userVars, serverVars, historyVars
<1>1. /\ uiQueue \in Seq(Posted) /\ task \in Job
      /\ tasks' \in Seq(Job) /\ Moves(tasks, tasks', 1, {})
      /\ \A i \in DOMAIN tasks' :
            tasks'[i].conn = 0 <=> tasks'[i].kind \in Display
  BY Running DEF ClientInv
<1>2. m \in Posted /\ m.what \in Display
  <2>1. task.kind \in What /\ task.arg \in Nat
    BY <1>1 DEF Display, What, Job
  <2> QED
    BY <2>1, MessageTyped
<1>3. uiQueue' = Append(uiQueue, m)
  OBVIOUS
<1> HIDE DEF m
<1>4. uiQueue' \in Seq(Posted) /\ Moves(uiQueue, uiQueue', 0, {m})
  BY <1>1, <1>2, <1>3, MovesAppend
<1>5. ClientTypeOK'
  BY <1>1, <1>4 DEF ClientInv, ClientTypeOK, Posted, Job
<1>6. m.what \notin {"connected", "execPending", "SendMessage"}
  BY <1>2 DEF Display
<1> QED
  BY <1>1, <1>4, <1>5, <1>6, Ordinary DEF ThreadsKeep, ClientInv, UiInv

\* What is written is later than all that was, and earlier than the rest.
LEMMA SendInv ==
    ASSUME ClientInv, NEW task, RunSend(task) PROVE ClientInv'
<1> DEFINE c == task.conn
           request == [kind |-> task.kind, arg |-> task.arg]
           login  == Message("loginSent", task.arg)
           failed == Message(IF task.kind = "login"
                             THEN "loginFailed" ELSE "messageFailed", task.arg)
           Fresh  == {login, failed}
           Request == [kind: {"login", "message"}, arg: Nat]
<1> USE DEF RunSend, activityVars, threadVars, userVars, historyVars
<1>1. /\ tasks \in Seq(Job) /\ uiQueue \in Seq(Posted)
      /\ 1 \in DOMAIN tasks /\ task = tasks[1] /\ task \in Job
      /\ task.conn = 0 <=> task.kind \in Display
      /\ tasks' \in Seq(Job) /\ Moves(tasks, tasks', 1, {})
      /\ \A i \in DOMAIN tasks' :
            tasks'[i].conn = 0 <=> tasks'[i].kind \in Display
  BY Running DEF ClientInv
<1>2. c \in Attempt /\ task.arg \in Nat /\ task.kind \in {"login", "message"}
  BY <1>1 DEF Job, Display
<1>3. /\ Fresh \subseteq Posted
      /\ \A m \in Fresh :
            m.what \notin {"connected", "execPending", "SendMessage"}
  <2>1. login \in Posted /\ login.what = "loginSent"
    BY <1>2, MessageTyped DEF What
  <2>2. failed \in Posted /\ failed.what \in {"loginFailed", "messageFailed"}
    BY <1>2, MessageTyped DEF What
  <2> QED
    BY <2>1, <2>2
<1>4. uiQueue' = uiQueue \/ \E m \in Fresh : uiQueue' = Append(uiQueue, m)
  OBVIOUS
<1>5. /\ received \in [Attempt -> Seq(Request)] /\ request \in Request
      /\ \/ received' = received
         \/ received' = [received EXCEPT ![c] = Append(@, request)]
  BY <1>2 DEF ClientInv, ClientTypeOK
<1> HIDE DEF Fresh
<1>6. uiQueue' \in Seq(Posted) /\ Moves(uiQueue, uiQueue', 0, Fresh)
  <2>1. CASE uiQueue' = uiQueue
    BY <1>1, <2>1, MovesSame DEF Moves
  <2>2. ASSUME NEW m \in Fresh, uiQueue' = Append(uiQueue, m)
        PROVE  uiQueue' \in Seq(Posted) /\ Moves(uiQueue, uiQueue', 0, Fresh)
    <3>1. uiQueue' \in Seq(Posted) /\ Moves(uiQueue, uiQueue', 0, {m})
      BY <1>1, <1>3, <2>2, MovesAppend
    <3> QED
      BY <3>1, <2>2 DEF Moves
  <2> QED
    BY <1>4, <2>1, <2>2
<1>7. received' \in [Attempt -> Seq(Request)]
  <2> HIDE DEF Request, request
  <2>1. Append(received[c], request) \in Seq(Request)
    BY <1>2, <1>5, AppendTyped
  <2> QED
    BY <1>2, <1>5, <2>1
<1>8. ClientTypeOK'
  BY <1>1, <1>6, <1>7 DEF ClientInv, ClientTypeOK, Posted, Job
<1>9. UiInv'
  BY <1>3, <1>6, UiFrame DEF ClientInv, UiInv
<1>10. ConnectInv'
  BY <1>1, <1>3, <1>6, ConnectFrame DEF ClientInv, ThreadsKeep
<1>11. OrderInv'
  <2> DEFINE a == task.arg
  <2>1. \A i \in DOMAIN tasks' : tasks'[i].kind = "message" =>
            /\ i + 1 \in DOMAIN tasks /\ tasks'[i] = tasks[i + 1] /\ 1 < i + 1
    BY <1>1 DEF Moves
  <2>2. \A i \in DOMAIN uiQueue' : uiQueue'[i].what = "SendMessage" =>
            i \in DOMAIN uiQueue /\ uiQueue'[i] = uiQueue[i]
    BY <1>3, <1>6 DEF Moves
  <2>3. ASSUME NEW k \in Attempt, NEW n, n \in DOMAIN received'[k],
               received'[k][n].kind = "message"
        PROVE  \/ n \in DOMAIN received[k] /\ received'[k][n] = received[k][n]
               \/ /\ task.kind = "message" /\ k = c /\ n = Len(received[k]) + 1
                  /\ received'[k][n].arg = a
    <3>1. CASE received'[k] = received[k]
      BY <2>3, <3>1
    <3>2. CASE k = c /\ received'[k] = Append(received[k], request)
      <4>1. received[k] \in Seq(Request)
        BY <1>5
      <4> HIDE DEF Request, request
      <4>2. Moves(received[k], Append(received[k], request), 0, {request})
        BY <1>5, <4>1, MovesAppend
      <4>3. \/ n \in DOMAIN received[k] /\ received'[k][n] = received[k][n]
            \/ n = Len(received[k]) + 1 /\ received'[k][n] = request
        BY <2>3, <3>2, <4>2 DEF Moves
      <4> QED
        BY <2>3, <3>2, <4>3 DEF request
    <3> QED
      BY <1>5, <3>1, <3>2
  <2>4. typed' = typed /\ OrderInv
    BY DEF ClientInv
  <2>5. /\ \A i \in DOMAIN tasks : tasks[i].arg \in Nat
        /\ \A i \in DOMAIN uiQueue : uiQueue[i].arg \in Nat
        /\ \A k \in Attempt : \A n \in DOMAIN received[k] :
                received[k][n].arg \in Nat
    BY Elements DEF ClientInv
  <2> HIDE DEF RunSend, Fresh
  <2>6. /\ \A i \in DOMAIN uiQueue' :
            uiQueue'[i].what = "SendMessage" => uiQueue'[i].arg <= typed'
        /\ \A i, j \in DOMAIN uiQueue' :
            i < j /\ uiQueue'[i].what = "SendMessage"
                  /\ uiQueue'[j].what = "SendMessage"
                => uiQueue'[i].arg < uiQueue'[j].arg
    BY <2>2, <2>4 DEF OrderInv
  <2>7. \A i \in DOMAIN tasks' : tasks'[i].kind = "message" =>
            /\ tasks'[i].arg <= typed'
            /\ \A j \in DOMAIN uiQueue' :
                uiQueue'[j].what = "SendMessage" =>
                    tasks'[i].arg < uiQueue'[j].arg
    BY <2>1, <2>2, <2>4 DEF OrderInv
  <2>8. \A i, j \in DOMAIN tasks' :
            i < j /\ tasks'[i].kind = "message" /\ tasks'[j].kind = "message"
                => tasks'[i].arg < tasks'[j].arg
    <3>1. \A i, j \in DOMAIN tasks' : i < j => i + 1 < j + 1
      BY <1>1
    <3> QED
      BY <2>1, <2>4, <3>1 DEF OrderInv
  <2>9. task.kind = "message" =>
            /\ a <= typed
            /\ \A i \in DOMAIN tasks' : tasks'[i].kind = "message" =>
                    a < tasks'[i].arg
            /\ \A i \in DOMAIN uiQueue' : uiQueue'[i].what = "SendMessage" =>
                    a < uiQueue'[i].arg
            /\ \A k \in Attempt : \A n \in DOMAIN received[k] :
                    received[k][n].kind = "message" => received[k][n].arg < a
    BY <1>1, <2>1, <2>2, <2>4 DEF OrderInv
  <2>10. ASSUME NEW k \in Attempt, NEW n, n \in DOMAIN received'[k],
                received'[k][n].kind = "message"
         PROVE  /\ received'[k][n].arg <= typed'
                /\ \A i \in DOMAIN tasks' : tasks'[i].kind = "message" =>
                        received'[k][n].arg < tasks'[i].arg
                /\ \A i \in DOMAIN uiQueue' :
                        uiQueue'[i].what = "SendMessage" =>
                            received'[k][n].arg < uiQueue'[i].arg
    <3>1. CASE n \in DOMAIN received[k] /\ received'[k][n] = received[k][n]
      BY <2>1, <2>2, <2>4, <2>10, <3>1 DEF OrderInv
    <3>2. CASE task.kind = "message" /\ received'[k][n].arg = a
      BY <2>4, <2>9, <3>2
    <3> QED
      BY <2>3, <2>10, <3>1, <3>2
  <2>11. ASSUME NEW k \in Attempt, NEW i, NEW j, i \in DOMAIN received'[k],
                j \in DOMAIN received'[k], i < j,
                received'[k][i].kind = "message",
                received'[k][j].kind = "message"
         PROVE  received'[k][i].arg < received'[k][j].arg
    <3> DEFINE n == Len(received[k])
    <3>1. n \in Nat /\ DOMAIN received[k] \in SUBSET (1 .. n)
      BY <1>5
    <3>2. i \in DOMAIN received[k] \/ i = n + 1
      BY <2>3, <2>11
    <3>3. j \in DOMAIN received[k] \/ j = n + 1
      BY <2>3, <2>11
    <3> HIDE DEF n
    <3>4. i \in DOMAIN received[k]
      BY <2>11, <3>1, <3>2, <3>3, BeforeTheLast
    <3>5. i # n + 1
      BY <3>1, <3>4
    <3>6. received'[k][i] = received[k][i]
      BY <2>3, <2>11, <3>5 DEF n
    <3>7. CASE j \in DOMAIN received[k] /\ received'[k][j] = received[k][j]
      BY <2>4, <2>11, <3>4, <3>6, <3>7 DEF OrderInv, MessagesInOrder
    <3>8. CASE task.kind = "message" /\ received'[k][j].arg = a
      BY <2>9, <2>11, <3>4, <3>6, <3>8
    <3> QED
      BY <2>3, <2>11, <3>7, <3>8
  <2>12. MessagesInOrder'
    BY <2>11 DEF MessagesInOrder
  <2> QED
    BY <2>6, <2>7, <2>8, <2>10, <2>12 DEF OrderInv
<1> QED
  BY <1>8, <1>9, <1>10, <1>11 DEF ClientInv

\* The attempt goes from the tasks to the UI queue, after all that did.
LEMMA ConnectsInv ==
    ASSUME ClientInv, NEW task, RunConnect(task) PROVE ClientInv'
<1> DEFINE done   == Message("connected", task.conn)
           failed == Message("connectFailed", task.conn)
           Fresh  == {done, failed}
<1> USE DEF RunConnect, activityVars, threadVars, userVars, serverVars, historyVars
<1>1. /\ tasks \in Seq(Job) /\ uiQueue \in Seq(Posted)
      /\ 1 \in DOMAIN tasks /\ task = tasks[1] /\ task \in Job
      /\ task.conn = 0 <=> task.kind \in Display
      /\ tasks' \in Seq(Job) /\ Moves(tasks, tasks', 1, {})
      /\ \A i \in DOMAIN tasks' :
            tasks'[i].conn = 0 <=> tasks'[i].kind \in Display
  BY Running DEF ClientInv
<1>2. task.conn \in Attempt /\ task.conn \in Nat
  <2>1. task.conn \in Attempt
    BY <1>1 DEF Job, Display
  <2> QED
    BY <2>1 DEF Attempt
<1>3. /\ done \in Posted /\ done.what = "connected" /\ done.arg = task.conn
      /\ failed \in Posted /\ failed.what = "connectFailed"
  BY <1>2, MessageTyped DEF What
<1>4. \E m \in Fresh : uiQueue' = Append(uiQueue, m)
  OBVIOUS
<1>5. sock' \in [Attempt -> {"new", "connected", "closed"}]
  BY <1>2 DEF ClientInv, ClientTypeOK
<1>6. /\ task.kind = "connect"
      /\ UNCHANGED <<crashed, ui, mConnection, activityVars, threadVars,
                     userVars, serverVars, historyVars>>
  OBVIOUS
<1> HIDE DEF done, failed, RunConnect
<1>7. PICK m \in Fresh : uiQueue' = Append(uiQueue, m)
  BY <1>4
<1>8. /\ m \in Posted /\ m.what \notin {"execPending", "SendMessage"}
      /\ m.what = "connected" => m.arg = task.conn
  BY <1>3
<1> HIDE DEF Fresh
<1>9. uiQueue' \in Seq(Posted) /\ Moves(uiQueue, uiQueue', 0, {m})
  BY <1>1, <1>7, <1>8, MovesAppend
<1>10. ClientTypeOK'
  BY <1>1, <1>5, <1>6, <1>9 DEF ClientInv, ClientTypeOK, Posted, Job
<1>11. UiInv'
  <2>1. \A i \in DOMAIN uiQueue' : uiQueue'[i].what = "execPending" =>
            i \in DOMAIN uiQueue /\ uiQueue'[i] = uiQueue[i]
    BY <1>8, <1>9 DEF Moves
  <2>2. \A i \in DOMAIN uiQueue' : uiQueue'[i].what = "connected" =>
            uiQueue'[i].arg \in Attempt
    BY <1>2, <1>8, <1>9 DEF Moves, ClientInv, UiInv
  <2> QED
    BY <1>6, <2>1, <2>2 DEF ClientInv, UiInv
<1>12. OrderInv'
  BY <1>1, <1>6, <1>8, <1>9, OrderFrame DEF ClientInv
<1>13. ConnectInv'
  <2>1. 1 \in Connecting /\ tasks[1].conn = task.conn
    BY <1>1, <1>6 DEF Connecting
  <2>2. \A i \in Connecting' :
            i + 1 \in Connecting /\ tasks'[i] = tasks[i + 1] /\ 1 < i + 1
    BY <1>1 DEF Moves, Connecting
  <2>3. \A i \in Reported' :
            \/ i \in Reported /\ uiQueue'[i] = uiQueue[i]
            \/ i = Len(uiQueue) + 1 /\ uiQueue'[i].arg = task.conn
    <3>1. \A i \in DOMAIN uiQueue' :
            \/ i \in DOMAIN uiQueue /\ uiQueue'[i] = uiQueue[i]
            \/ i = Len(uiQueue) + 1 /\ uiQueue'[i] = m
      BY <1>1, <1>9 DEF Moves
    <3> QED
      BY <1>8, <3>1 DEF Reported
  <2>4. /\ \A i \in Connecting : tasks[i].conn \in Nat
        /\ \A i \in Reported : uiQueue[i].arg \in Nat
    BY Elements DEF ClientInv, Connecting, Reported
  <2>5. Reported \in SUBSET (1 .. Len(uiQueue)) /\ Len(uiQueue) \in Nat
    BY <1>1 DEF Reported
  <2>6. ConnectInv /\ UNCHANGED <<logins, readThread, ui, mConnection>>
    BY <1>6 DEF ClientInv
  <2>7. \A i, j \in Connecting' : i < j => i + 1 < j + 1
    BY <1>1 DEF Connecting
  <2>8. /\ \A i \in Connecting' : tasks'[i].conn <= logins
        /\ \A i, j \in Connecting' : i < j => tasks'[i].conn < tasks'[j].conn
    BY <2>2, <2>6, <2>7 DEF ConnectInv
  <2>9. /\ \A i \in Reported' : uiQueue'[i].arg <= logins
        /\ \A i \in Reported', j \in Connecting' :
            uiQueue'[i].arg < tasks'[j].conn
    BY <2>1, <2>2, <2>3, <2>6 DEF ConnectInv
  <2>10. ASSUME NEW i, NEW j, i \in Reported', j \in Reported', i < j
         PROVE  uiQueue'[i].arg < uiQueue'[j].arg
    <3>1. i \in Reported \/ i = Len(uiQueue) + 1
      BY <2>3, <2>10
    <3>2. j \in Reported \/ j = Len(uiQueue) + 1
      BY <2>3, <2>10
    <3>3. i \in Reported
      BY <2>5, <2>10, <3>1, <3>2, BeforeTheLast
    <3>4. i # Len(uiQueue) + 1
      BY <2>5, <3>3
    <3>5. uiQueue'[i] = uiQueue[i]
      BY <2>3, <2>10, <3>4
    <3>6. CASE j \in Reported /\ uiQueue'[j] = uiQueue[j]
      BY <2>6, <2>10, <3>3, <3>5, <3>6 DEF ConnectInv
    <3>7. CASE uiQueue'[j].arg = task.conn
      BY <2>1, <2>6, <3>3, <3>5, <3>7 DEF ConnectInv
    <3> QED
      BY <2>3, <2>10, <3>6, <3>7
  <2>11. Connecting # {}
    BY <2>1
  <2>12. \A i \in Connecting' :
            tasks'[i].conn \in Attempt /\ readThread'[tasks'[i].conn] = "none"
    BY <2>2, <2>6 DEF ConnectInv
  <2>13. \A i \in Reported' :
            uiQueue'[i].arg \in Attempt /\ readThread'[uiQueue'[i].arg] = "none"
    BY <2>1, <2>3, <2>6 DEF ConnectInv
  <2> QED
    BY <2>6, <2>8, <2>9, <2>10, <2>11, <2>12, <2>13 DEF ConnectInv
<1> QED
  BY <1>10, <1>11, <1>12, <1>13 DEF ClientInv

-----------------------------------------------------------------------------
(* The readers and the server. *)

LEMMA ReaderInv ==
    ASSUME ClientInv, NEW k \in Attempt, Reader(k) PROVE ClientInv'
<1> USE DEF activityVars, userVars, serverVars, historyVars
<1>1. tasks \in Seq(Job) /\ uiQueue \in Seq(Posted)
  BY DEF ClientInv, ClientTypeOK, Posted, Job
<1>2. Moves(tasks, tasks, 0, {})
  BY <1>1, MovesSame
<1>3. CASE TestKill(k) \/ ReadTimesOut(k)
  <2>1. ClientTypeOK'
    BY <1>3 DEF TestKill, ReadTimesOut, ClientInv, ClientTypeOK
  <2>2. ThreadsKeep
    BY <1>3 DEF TestKill, ReadTimesOut, ThreadsKeep, ClientInv, ClientTypeOK
  <2> QED
    BY <1>3, <2>1, <2>2, QuietQueues DEF TestKill, ReadTimesOut
<1>4. CASE ReadResponse(k)
  <2> DEFINE Response == [kind: ResponseKind, arg: Nat]
             response == Head(stream[k])
             m == Visit(response)
  <2>1. stream[k] \in Seq(Response) /\ stream[k] # << >>
    BY <1>4 DEF ReadResponse, ClientInv, ClientTypeOK
  <2>2. response \in Response /\ Tail(stream[k]) \in Seq(Response)
    <3> HIDE DEF Response
    <3> QED
      BY <2>1, MovesTail
  <2>3. m \in Posted /\ m.what \in {"DisplayLogin", "DisplayMessage", "DisplayError"}
    <3> HIDE DEF response
    <3>1. response.kind \in {"login", "message", "error"} /\ response.arg \in Nat
      BY <2>2 DEF ResponseKind
    <3> QED
      BY <3>1, MessageTyped DEF Visit, What
  <2>4. /\ uiQueue' = Append(uiQueue, m)
        /\ stream' = [stream EXCEPT ![k] = Tail(@)]
        /\ readThread[k] = "reading"
        /\ readThread' = [readThread EXCEPT ![k] = "testing"]
        /\ UNCHANGED <<crashed, ui, tasks, mConnection, activityVars, sock, kill,
                   userVars, server, received, responses, refused, historyVars>>
    BY <1>4 DEF ReadResponse
  <2> HIDE DEF m, Response, response
  <2>5. uiQueue' \in Seq(Posted) /\ Moves(uiQueue, uiQueue', 0, {m})
    BY <1>1, <2>3, <2>4, MovesAppend
  <2>6. stream' \in [Attempt -> Seq(Response)]
    BY <2>2, <2>4 DEF ClientInv, ClientTypeOK, Response
  <2>7. ClientTypeOK'
    BY <2>4, <2>5, <2>6 DEF ClientInv, ClientTypeOK, Posted, Response
  <2>8. m.what \notin {"connected", "execPending", "SendMessage"}
    BY <2>3
  <2> QED
    BY <1>2, <2>4, <2>5, <2>7, <2>8, Ordinary DEF ThreadsKeep, ClientInv, UiInv
<1>5. CASE ReadThrows(k) \/ ReportLoss(k)
  <2> DEFINE Response == [kind: ResponseKind, arg: Nat]
             error == Message("DisplayError", 0)
             awol  == Message("SocketAWOL", 0)
  <2>1. /\ error \in Posted /\ error.what = "DisplayError"
        /\ awol \in Posted /\ awol.what = "SocketAWOL"
    BY MessageTyped DEF What
  <2>2. /\ \E m \in {error, awol} : uiQueue' = Append(uiQueue, m)
        /\ readThread[k] # "none"
        /\ \E pc \in {"losing", "ended"} :
                readThread' = [readThread EXCEPT ![k] = pc]
        /\ UNCHANGED <<crashed, ui, tasks, mConnection, activityVars, sock, kill,
                       userVars, server, received, responses, refused, shown,
                       missed>>
    BY <1>5 DEF ReadThrows, ReportLoss
  <2> HIDE DEF error, awol
  <2>3. PICK m \in {error, awol} : uiQueue' = Append(uiQueue, m)
    BY <2>2
  <2>4. m \in Posted /\ m.what \in {"DisplayError", "SocketAWOL"}
    BY <2>1
  <2>5. uiQueue' \in Seq(Posted) /\ Moves(uiQueue, uiQueue', 0, {m})
    BY <1>1, <2>3, <2>4, MovesAppend
  <2>6. /\ stream' \in [Attempt -> Seq(Response)]
        /\ lost' \in [Attempt -> SUBSET Nat]
    <3> HIDE DEF Response
    <3>1. /\ stream \in [Attempt -> Seq(Response)]
          /\ lost \in [Attempt -> SUBSET Nat]
      BY DEF Response, ClientInv, ClientTypeOK
    <3>2. CASE ReportLoss(k)
      BY <3>1, <3>2 DEF ReportLoss
    <3>3. CASE ReadThrows(k)
      <4>1. PICK n \in 0 .. Len(stream[k]) :
                /\ stream' = [stream EXCEPT ![k] = SubSeq(@, n + 1, Len(@))]
                /\ lost' = [lost EXCEPT
                            ![k] = { stream[k][i].arg : i \in 1 .. n }]
        BY <3>3 DEF ReadThrows
      <4>2. stream[k] \in Seq(Response) /\ Len(stream[k]) \in Nat
        BY <3>1
      <4>3. SubSeq(stream[k], n + 1, Len(stream[k])) \in Seq(Response)
        BY <4>2
      <4>4. ASSUME NEW i \in 1 .. n
            PROVE  stream[k][i].arg \in Nat
        <5>1. i \in DOMAIN stream[k]
          BY <4>2
        <5>2. stream[k][i] \in Response
          BY <4>2, <5>1, SeqElement
        <5> QED
          BY <5>2 DEF Response
      <4>5. { stream[k][i].arg : i \in 1 .. n } \in SUBSET Nat
        BY <4>4
      <4> HIDE DEF Response
      <4> QED
        BY <3>1, <4>1, <4>3, <4>5
    <3> QED
      BY <1>5, <3>2, <3>3
  <2>7. ClientTypeOK'
    <3>1. readThread' \in [Attempt ->
            {"none", "testing", "reading", "losing", "ended"}]
      BY <2>2 DEF ClientInv, ClientTypeOK
    <3>2. UNCHANGED <<crashed, ui, tasks, mConnection, activityVars, sock, kill,
                      userVars, server, received, responses, refused, shown,
                      missed>>
      BY <2>2
    <3> QED
      BY <2>5, <2>6, <3>1, <3>2 DEF ClientInv, ClientTypeOK, Posted
  <2>8. m.what \notin {"connected", "execPending", "SendMessage"}
    BY <2>4
  <2> QED
    BY <1>2, <2>2, <2>5, <2>7, <2>8, Ordinary DEF ThreadsKeep, ClientInv, UiInv
<1> QED
  BY <1>3, <1>4, <1>5 DEF Reader

LEMMA ServerInv ==
    ASSUME ClientInv, NEW k \in Attempt,
           ServerTells(k) \/ ServerRefuses(k) \/ ServerGoes(k)
    PROVE  ClientInv'
<1> DEFINE Response == [kind: ResponseKind, arg: Nat]
<1> USE DEF activityVars, threadVars, userVars, historyVars, serverVars
<1>1. /\ stream \in [Attempt -> Seq(Response)]
      /\ responses \in 0 .. MaxResponses /\ responses \in Nat
  <2>1. /\ stream \in [Attempt -> Seq(Response)]
        /\ responses \in 0 .. MaxResponses
    BY DEF ClientInv, ClientTypeOK
  <2>2. responses \in Nat
    <3> HIDE DEF Response
    <3> QED
      BY <2>1, ClientBoundsAssumption
  <2> QED
    BY <2>1, <2>2
<1>2. \A r \in Response : Append(stream[k], r) \in Seq(Response)
  <2> HIDE DEF Response
  <2> QED
    BY <1>1, AppendTyped
<1>3. CASE ServerTells(k)
  <2>1. PICK kind \in {"login", "message"} :
            stream' = [stream EXCEPT ![k] =
                        Append(@, [kind |-> kind, arg |-> responses + 1])]
    BY <1>3 DEF ServerTells
  <2>2. [kind |-> kind, arg |-> responses + 1] \in Response
    BY <1>1 DEF ResponseKind
  <2>3. stream' \in [Attempt -> Seq(Response)]
    <3> HIDE DEF Response
    <3> QED
      BY <1>1, <1>2, <2>1, <2>2
  <2>4. responses' \in 0 .. MaxResponses
    BY <1>1, <1>3, ClientBoundsAssumption DEF ServerTells
  <2>5. ClientTypeOK'
    BY <1>3, <2>3, <2>4 DEF ServerTells, ClientInv, ClientTypeOK
  <2> QED
    BY <1>3, <2>5, QuietQueues DEF ServerTells, ThreadsKeep
<1>4. CASE ServerRefuses(k)
  <2>1. [kind |-> "error", arg |-> 0] \in Response
    BY DEF ResponseKind
  <2>2. stream' \in [Attempt -> Seq(Response)]
    <3>1. stream' = [stream EXCEPT ![k] =
                        Append(@, [kind |-> "error", arg |-> 0])]
      BY <1>4 DEF ServerRefuses
    <3> HIDE DEF Response
    <3> QED
      BY <1>1, <1>2, <2>1, <3>1
  <2>3. ClientTypeOK'
    BY <1>4, <2>2 DEF ServerRefuses, ClientInv, ClientTypeOK
  <2> QED
    BY <1>4, <2>3, QuietQueues DEF ServerRefuses, ThreadsKeep
<1>5. CASE ServerGoes(k)
  <2>1. ClientTypeOK'
    BY <1>5 DEF ServerGoes, ClientInv, ClientTypeOK
  <2> QED
    BY <1>5, <2>1, QuietQueues DEF ServerGoes, ThreadsKeep
<1> QED
  BY <1>3, <1>4, <1>5

-----------------------------------------------------------------------------
LEMMA NextClientInv == ClientInv /\ [Next]_vars => ClientInv'
<1> SUFFICES ASSUME ClientInv, [Next]_vars PROVE ClientInv'
  OBVIOUS
<1>1. CASE UiThread
  BY <1>1, FinishCloseInv, ConnectedInv, SendMessageInv, CallbackInv,
     LoginFailedInv, ExpectationInv, SocketAWOLInv, DisplayLoginInv,
     DisplayMessageInv, ExecPendingInv DEF UiThread
<1>2. CASE Executor
  BY <1>2, ConnectsInv, SendInv, StallInv DEF Executor
<1>3. CASE \E k \in Attempt : Reader(k)
  BY <1>3, ReaderInv
<1>4. CASE Environment
  BY <1>4, ClickLoginInv, ClickSendInv, ServerInv DEF Environment
<1>5. CASE UNCHANGED vars
  <2>1. ClientTypeOK'
    BY <1>5
       DEF vars, activityVars, threadVars, userVars, serverVars, historyVars,
       ClientInv, ClientTypeOK
  <2> QED
    BY <1>5, <2>1, QuietQueues DEF vars, activityVars, threadVars, userVars,
       serverVars, ThreadsKeep
<1> QED
  BY <1>1, <1>2, <1>3, <1>4, <1>5 DEF Next

LEMMA ClientInvariant == Spec => []ClientInv
  BY InitClientInv, NextClientInv, PTL DEF Spec

(***************************************************************************)
(* MainActivity, SocketManager, ResponseThread: every variable keeps its   *)
(* type; among other things no transaction is executed that is not pending *)
(* and close() is never in the join of a connection that is not there.     *)
(***************************************************************************)
THEOREM ClientTypeCorrect == Spec => []ClientTypeOK
<1>1. ClientInv => ClientTypeOK
  BY DEF ClientInv
<1> QED
  BY <1>1, ClientInvariant, PTL

(***************************************************************************)
(* SocketManager.send: the messages of the room reach each connection in   *)
(* the order they were typed, however many, though a task of its own sends *)
(* each, and logins, losses and new connections come in between.           *)
(***************************************************************************)
THEOREM OrderIsKept == Spec => []MessagesInOrder
<1>1. ClientInv => MessagesInOrder
  BY DEF ClientInv, OrderInv
<1> QED
  BY <1>1, ClientInvariant, PTL

(***************************************************************************)
(* onPostExecute of SocketConnect finds mConnection set, for any number of *)
(* attempts: nothing drops the reference while an attempt is under way,    *)
(* because no thread has begun for the newest and close() throws.          *)
(***************************************************************************)
THEOREM ConnectFinds == Spec => []ConnectFindsConnection
<1>1. ClientInv => ConnectFindsConnection
  <2> SUFFICES ASSUME ClientInv,
                      \/ \E task \in Waiting : task.kind = "connect"
                      \/ \E i \in DOMAIN uiQueue : uiQueue[i].what = "connected"
               PROVE  mConnection # 0
    BY DEF ConnectFindsConnection
  <2>1. Connecting # {} \/ Reported # {}
    BY DEF Waiting, Connecting, Reported
  <2>2. 0 \notin Attempt
    BY DEF Attempt
  <2> QED
    BY <2>1, <2>2 DEF ClientInv, ConnectInv
<1> QED
  BY <1>1, ClientInvariant, PTL

-----------------------------------------------------------------------------
(* The fragment that is shown, or will be. *)

LEMMA LastAppended ==
    ASSUME NEW S, NEW q \in Seq(S), NEW f \in S
    PROVE  /\ Append(q, f) # << >>
           /\ Append(q, f)[Len(Append(q, f))] = f
<1>1. /\ Len(Append(q, f)) = Len(q) + 1 /\ Len(q) \in Nat
      /\ Append(q, f)[Len(q) + 1] = f
  OBVIOUS
<1> QED
  BY <1>1, AppendTyped

LEMMA ScreenNext ==
    ClientInv /\ ScreenMatchesLogin /\ [Next]_vars => ScreenMatchesLogin'
<1> SUFFICES ASSUME ClientInv, ScreenMatchesLogin, [Next]_vars
             PROVE  ScreenMatchesLogin'
  OBVIOUS
<1>1. /\ pending \in Seq(Fragments) /\ loggedIn \in BOOLEAN
      /\ "room" \in Fragments /\ "login" \in Fragments
  BY DEF ClientInv, ClientTypeOK, Fragments
<1>2. CASE HandleSocketAWOL
  <2>1. pending' = Append(pending, "login") /\ loggedIn' = FALSE
    BY <1>2 DEF HandleSocketAWOL
  <2> QED
    BY <1>1, <2>1, LastAppended DEF ScreenMatchesLogin
<1>3. CASE HandleDisplayLogin
  <2> DEFINE old == [i \in DOMAIN pending |-> Superseded(pending[i])]
  <2>1. CASE expectingLogin \/ ~loggedIn
    <3>1. pending' = Append(old, "room") /\ loggedIn' = TRUE
      BY <1>3, <2>1 DEF HandleDisplayLogin
    <3>2. old \in Seq(Fragments)
      <4>1. \A f \in Fragments : Superseded(f) \in Fragments
        BY DEF Fragments, Superseded
      <4> QED
        BY <1>1, <4>1
    <3> HIDE DEF old
    <3> QED
      BY <1>1, <3>1, <3>2, LastAppended DEF ScreenMatchesLogin
  <2>2. CASE ~(expectingLogin \/ ~loggedIn)
    <3>1. UNCHANGED <<screen, pending, loggedIn>>
      BY <1>1, <1>3, <2>2 DEF HandleDisplayLogin
    <3> QED
      BY <3>1 DEF ScreenMatchesLogin
  <2> QED
    BY <2>1, <2>2
<1>4. CASE ExecPending
  <2>1. /\ screen' = pending[Len(pending)] /\ pending' = << >>
        /\ loggedIn' = loggedIn
    BY <1>4 DEF ExecPending
  <2>2. pending # << >>
    <3>1. 1 \in DOMAIN uiQueue /\ uiQueue[1].what = "execPending"
      BY <1>4, Handled DEF ExecPending, ClientInv
    <3> QED
      BY <3>1 DEF ClientInv, UiInv
  <2> QED
    BY <2>1, <2>2 DEF ScreenMatchesLogin
<1>5. CASE \/ FinishClose \/ HandleConnected \/ HandleSendMessage
           \/ HandleCallback \/ HandleLoginFailed \/ HandleExpectation
           \/ HandleDisplayMessage \/ Executor
           \/ \E k \in Attempt : Reader(k)
           \/ Environment \/ UNCHANGED vars
  <2>1. UNCHANGED <<screen, pending, loggedIn>>
    <3> USE DEF activityVars
    <3>1. CASE \/ FinishClose \/ HandleConnected \/ HandleSendMessage
               \/ HandleCallback \/ HandleLoginFailed \/ HandleExpectation
               \/ HandleDisplayMessage
      BY <3>1 DEF FinishClose, HandleConnected, HandleSendMessage,
         HandleCallback, HandleLoginFailed, HandleExpectation,
         HandleDisplayMessage
    <3>2. CASE Executor
      BY <3>2 DEF Executor, RunConnect, RunSend, RunStall
    <3>3. CASE \E k \in Attempt : Reader(k)
      BY <3>3 DEF Reader, TestKill, ReadResponse, ReadTimesOut, ReadThrows,
         ReportLoss
    <3>4. CASE Environment
      BY <3>4 DEF Environment, ClickLogin, ClickSend, ServerTells,
         ServerRefuses, ServerGoes
    <3>5. CASE UNCHANGED vars
      BY <3>5 DEF vars
    <3> QED
      BY <1>5, <3>1, <3>2, <3>3, <3>4, <3>5
  <2> QED
    BY <2>1 DEF ScreenMatchesLogin
<1> QED
  BY <1>2, <1>3, <1>4, <1>5 DEF Next, UiThread

(***************************************************************************)
(* MainActivity: however logins, losses and stalled responses cross in the *)
(* queue, loggedIn says which fragment is shown, or will be once what is   *)
(* pending is executed.                                                    *)
(***************************************************************************)
THEOREM ScreenAgrees == Spec => []ScreenMatchesLogin
<1>1. Init => ScreenMatchesLogin
  BY DEF Init, ScreenMatchesLogin
<1> QED
  BY <1>1, ScreenNext, ClientInvariant, PTL DEF Spec

-----------------------------------------------------------------------------
(* Counting. *)

\* The places of a queue that hold an element of T, and their number.
Held(q, T)  == { i \in DOMAIN q : q[i] \in T }
Count(q, T) == Cardinality(Held(q, T))
One(e, T)   == IF e \in T THEN 1 ELSE 0

LEMMA CountType ==
    ASSUME NEW S, NEW q \in Seq(S), NEW T
    PROVE  IsFiniteSet(Held(q, T)) /\ Count(q, T) \in Nat
<1>1. IsFiniteSet(1 .. Len(q))
  BY FS_Interval
<1>2. Held(q, T) \in SUBSET (1 .. Len(q))
  BY DEF Held
<1> QED
  BY <1>1, <1>2, FS_Subset, FS_CardinalityType DEF Count

LEMMA CountAppend ==
    ASSUME NEW S, NEW q \in Seq(S), NEW e \in S, NEW T
    PROVE  Count(Append(q, e), T) = Count(q, T) + One(e, T)
<1>1. /\ Append(q, e) \in Seq(S) /\ Len(Append(q, e)) = Len(q) + 1
      /\ \A i \in 1 .. Len(q) : Append(q, e)[i] = q[i]
      /\ Append(q, e)[Len(q) + 1] = e /\ Len(q) \in Nat
  OBVIOUS
<1>2. Len(q) + 1 \notin Held(q, T)
  BY <1>1 DEF Held
<1>3. CASE e \in T
  <2>1. Held(Append(q, e), T) = Held(q, T) \cup {Len(q) + 1}
    BY <1>1, <1>3 DEF Held
  <2> QED
    BY <1>2, <1>3, <2>1, CountType, FS_AddElement DEF Count, One
<1>4. CASE e \notin T
  <2>1. Held(Append(q, e), T) = Held(q, T)
    BY <1>1, <1>4 DEF Held
  <2>2. Count(q, T) \in Nat
    BY CountType
  <2> QED
    BY <1>4, <2>1, <2>2 DEF Count, One
<1> QED
  BY <1>3, <1>4

LEMMA CountTail ==
    ASSUME NEW S, NEW q \in Seq(S), q # << >>, NEW T
    PROVE  Count(Tail(q), T) + One(Head(q), T) = Count(q, T)
<1>1. /\ Tail(q) \in Seq(S) /\ Len(Tail(q)) = Len(q) - 1
      /\ \A i \in 1 .. Len(q) - 1 : Tail(q)[i] = q[i + 1]
      /\ Head(q) = q[1] /\ Len(q) \in Nat /\ Len(q) # 0
  OBVIOUS
<1> DEFINE rest == Held(q, T) \ {1}
           h    == Held(Tail(q), T)
<1>2. h = { i \in 1 .. Len(q) - 1 : q[i + 1] \in T }
  BY <1>1 DEF Held
<1>3. rest = { i \in 2 .. Len(q) : q[i] \in T }
  BY <1>1 DEF Held
<1>4. ExistsBijection(h, rest)
  <2> DEFINE f == [i \in h |-> i + 1]
  <2>1. \A i \in h : i \in Nat /\ i + 1 \in rest
    BY <1>1, <1>2, <1>3
  <2>2. \A j \in rest : j \in Nat /\ j - 1 \in h /\ (j - 1) + 1 = j
    BY <1>1, <1>2, <1>3
  <2> HIDE DEF h, rest
  <2>3. f \in [h -> rest]
    BY <2>1
  <2>4. \A i, j \in h : f[i] = f[j] => i = j
    BY <2>1
  <2>5. \A j \in rest : \E i \in h : f[i] = j
    BY <2>2
  <2> HIDE DEF f
  <2>6. f \in Bijection(h, rest)
    BY <2>3, <2>4, <2>5 DEF Bijection, Injection, Surjection, IsInjective
  <2> QED
    BY <2>6 DEF ExistsBijection
<1>5. /\ IsFiniteSet(h) /\ Cardinality(h) \in Nat
      /\ IsFiniteSet(Held(q, T)) /\ Cardinality(Held(q, T)) \in Nat
  BY <1>1, CountType DEF Count
<1>6. Cardinality(rest) = Cardinality(h)
  <2> HIDE DEF h, rest
  <2> QED
    BY <1>4, <1>5, FS_Bijection
<1>7. Cardinality(rest) = IF 1 \in Held(q, T) THEN Cardinality(Held(q, T)) - 1
                                              ELSE Cardinality(Held(q, T))
  BY <1>5, FS_RemoveElement
<1>8. 1 \in Held(q, T) <=> Head(q) \in T
  BY <1>1 DEF Held
<1> HIDE DEF h, rest
<1> QED
  BY <1>5, <1>6, <1>7, <1>8 DEF Count, One, h

\* What a handler posts: nothing, or one message.
LEMMA CountPosts ==
    ASSUME NEW S, NEW q \in Seq(S), q # << >>, NEW T, NEW messages,
           messages = << >> \/ \E m \in S \ T : messages = <<m>>
    PROVE  Count(Tail(q) \o messages, T) + One(Head(q), T) = Count(q, T)
<1> DEFINE rest == Tail(q)
<1>1. rest \in Seq(S)
  BY MovesTail
<1>2. Count(rest, T) + One(Head(q), T) = Count(q, T)
  BY CountTail
<1> HIDE DEF rest
<1>3. CASE messages = << >>
  <2>1. rest \o messages = rest
    BY <1>1, <1>3
  <2> QED
    BY <1>2, <2>1 DEF rest
<1>4. ASSUME NEW m \in S \ T, messages = <<m>>
      PROVE  Count(rest \o messages, T) = Count(rest, T)
  <2>1. rest \o messages = Append(rest, m)
    BY <1>1, <1>4, AppendIsConcat
  <2>2. Count(rest, T) \in Nat
    BY <1>1, CountType
  <2> QED
    BY <1>1, <2>1, <2>2, CountAppend DEF One
<1> QED
  BY <1>2, <1>3, <1>4 DEF rest

-----------------------------------------------------------------------------
(* Responses that are not read yet. *)

Answer == [kind: ResponseKind, arg: Nat]

Unread(st, n) ==
    { place \in Attempt \X (1 .. MaxResponses + 1) :
        /\ place[2] \in DOMAIN st[place[1]]
        /\ st[place[1]][place[2]].arg = n }

LEMMA UnreadType ==
    ASSUME NEW st, NEW n
    PROVE  IsFiniteSet(Unread(st, n)) /\ Cardinality(Unread(st, n)) \in Nat
<1>1. IsFiniteSet(Attempt) /\ IsFiniteSet(1 .. MaxResponses + 1)
  BY FS_Interval, ClientBoundsAssumption DEF Attempt
<1>2. IsFiniteSet(Attempt \X (1 .. MaxResponses + 1))
  BY <1>1, FS_Product
<1>3. Unread(st, n) \in SUBSET (Attempt \X (1 .. MaxResponses + 1))
  BY DEF Unread
<1> QED
  BY <1>2, <1>3, FS_Subset, FS_CardinalityType

\* The places, as pairs.
LEMMA UnreadPairs ==
    ASSUME NEW st, NEW n, NEW j, NEW i
    PROVE  <<j, i>> \in Unread(st, n) <=>
                /\ j \in Attempt /\ i \in 1 .. MaxResponses + 1
                /\ i \in DOMAIN st[j] /\ st[j][i].arg = n
  BY DEF Unread

\* The server sends response r on stream k, and the thread reads one.
Grown(st, st2, k, r) ==
    /\ k \in Attempt /\ r \in Answer /\ st[k] \in Seq(Answer)
    /\ Len(st[k]) <= MaxResponses
    /\ st2[k] = Append(st[k], r)
    /\ \A j \in Attempt \ {k} : st2[j] = st[j]

Shrunk(st, st2, k) ==
    /\ k \in Attempt /\ st[k] \in Seq(Answer) /\ st[k] # << >>
    /\ Len(st[k]) <= MaxResponses + 1
    /\ st2[k] = Tail(st[k])
    /\ \A j \in Attempt \ {k} : st2[j] = st[j]

LEMMA UnreadAppend ==
    ASSUME NEW st, NEW st2, NEW k, NEW r, NEW n, Grown(st, st2, k, r)
    PROVE  Cardinality(Unread(st2, n))
                = Cardinality(Unread(st, n)) + (IF r.arg = n THEN 1 ELSE 0)
<1> DEFINE e == Len(st[k]) + 1
<1>0. /\ k \in Attempt /\ r \in Answer /\ st[k] \in Seq(Answer)
      /\ Len(st[k]) <= MaxResponses
      /\ st2[k] = Append(st[k], r)
      /\ \A j \in Attempt \ {k} : st2[j] = st[j]
  BY DEF Grown
<1>1. /\ Len(st2[k]) = e /\ st2[k][e] = r /\ DOMAIN st2[k] = 1 .. e
      /\ DOMAIN st[k] = 1 .. e - 1 /\ e \in Nat
      /\ \A i \in 1 .. e - 1 : st2[k][i] = st[k][i]
  <2> HIDE DEF Answer
  <2> QED
    BY <1>0
<1>2. e \in 1 .. MaxResponses + 1
  BY <1>0, <1>1, ClientBoundsAssumption
<1> HIDE DEF e
<1>3. <<k, e>> \notin Unread(st, n)
  BY <1>1, UnreadPairs
<1>4. ASSUME NEW j \in Attempt, NEW i \in 1 .. MaxResponses + 1
      PROVE  <<j, i>> \in Unread(st2, n) <=>
                \/ <<j, i>> \in Unread(st, n)
                \/ j = k /\ i = e /\ r.arg = n
  <2>1. CASE j # k
    <3>1. st2[j] = st[j]
      BY <1>0, <2>1
    <3> QED
      BY <2>1, <3>1, UnreadPairs
  <2>2. CASE j = k
    <3>1. i \in 1 .. e <=> i \in 1 .. e - 1 \/ i = e
      BY <1>1, ClientBoundsAssumption
    <3>2. e \notin 1 .. e - 1
      BY <1>1
    <3> QED
      BY <1>1, <2>2, <3>1, <3>2, UnreadPairs
  <2> QED
    BY <2>1, <2>2
<1>5. \A p \in Unread(st, n) \cup Unread(st2, n) :
            \E j \in Attempt, i \in 1 .. MaxResponses + 1 : p = <<j, i>>
  BY DEF Unread
<1>6. CASE r.arg = n
  <2>1. Unread(st2, n) = Unread(st, n) \cup {<<k, e>>}
    <3>1. <<k, e>> \in Unread(st2, n)
      BY <1>0, <1>2, <1>4, <1>6
    <3>2. Unread(st, n) \subseteq Unread(st2, n)
      BY <1>4, <1>5
    <3>3. Unread(st2, n) \subseteq Unread(st, n) \cup {<<k, e>>}
      BY <1>4, <1>5
    <3> QED
      BY <3>1, <3>2, <3>3
  <2>2. IsFiniteSet(Unread(st, n))
    BY UnreadType
  <2>3. Cardinality(Unread(st, n) \cup {<<k, e>>})
            = Cardinality(Unread(st, n)) + 1
    BY <1>3, <2>2, FS_AddElement, ZenonT(20)
  <2> QED
    BY <1>6, <2>1, <2>3
<1>7. CASE r.arg # n
  <2>1. Unread(st2, n) = Unread(st, n)
    <3>1. Unread(st, n) \subseteq Unread(st2, n)
      BY <1>4, <1>5
    <3>2. Unread(st2, n) \subseteq Unread(st, n)
      BY <1>4, <1>5, <1>7
    <3> QED
      BY <3>1, <3>2
  <2>2. Cardinality(Unread(st, n)) \in Nat
    BY UnreadType
  <2> QED
    BY <1>7, <2>1, <2>2
<1> QED
  BY <1>6, <1>7

LEMMA UnreadTail ==
    ASSUME NEW st, NEW st2, NEW k, NEW n, Shrunk(st, st2, k)
    PROVE  Cardinality(Unread(st2, n))
                + (IF Head(st[k]).arg = n THEN 1 ELSE 0)
                = Cardinality(Unread(st, n))
<1> DEFINE l == Len(st[k])
<1>0. /\ k \in Attempt /\ st[k] \in Seq(Answer) /\ st[k] # << >>
      /\ Len(st[k]) <= MaxResponses + 1
      /\ st2[k] = Tail(st[k])
      /\ \A j \in Attempt \ {k} : st2[j] = st[j]
  BY DEF Shrunk
<1>1. /\ DOMAIN st[k] = 1 .. l /\ DOMAIN st2[k] = 1 .. l - 1
      /\ l \in Nat /\ l # 0 /\ Head(st[k]) = st[k][1]
      /\ \A i \in 1 .. l - 1 : st2[k][i] = st[k][i + 1]
  <2> HIDE DEF Answer
  <2> QED
    BY <1>0
<1> HIDE DEF l
<1>2. MaxResponses \in Nat /\ l <= MaxResponses + 1
  BY <1>0, ClientBoundsAssumption DEF l
<1> DEFINE old == Unread(st, n)
           new == Unread(st2, n)
           rest == old \ {<<k, 1>>}
           f == [p \in new |-> IF p[1] = k THEN <<k, p[2] + 1>> ELSE p]
           g == [p \in rest |-> IF p[1] = k THEN <<k, p[2] - 1>> ELSE p]
<1>3. \A p \in new : f[p] \in rest /\ g[f[p]] = p
  <2> SUFFICES ASSUME NEW p \in new PROVE f[p] \in rest /\ g[f[p]] = p
    OBVIOUS
  <2>1. PICK j \in Attempt, i \in 1 .. MaxResponses + 1 : p = <<j, i>>
    BY DEF Unread
  <2>2. i \in DOMAIN st2[j] /\ st2[j][i].arg = n /\ i \in Nat
    BY <2>1, UnreadPairs
  <2>3. CASE j # k
    <3>1. p \in rest
      BY <1>0, <2>1, <2>2, <2>3, UnreadPairs
    <3>2. f[p] = p /\ g[p] = p
      BY <2>1, <2>3, <3>1
    <3> QED
      BY <3>1, <3>2
  <2>4. CASE j = k
    <3>1. i \in 1 .. l - 1 /\ st[k][i + 1].arg = n
      BY <1>1, <2>2, <2>4
    <3>2. i + 1 \in 1 .. l /\ i + 1 \in 1 .. MaxResponses + 1 /\ i + 1 # 1
      BY <1>1, <1>2, <3>1
    <3>3. <<k, i + 1>> \in rest
      BY <1>0, <1>1, <3>1, <3>2, UnreadPairs
    <3>4. f[p] = <<k, i + 1>>
      BY <2>1, <2>4
    <3>5. g[<<k, i + 1>>] = <<k, (i + 1) - 1>>
      BY <3>3
    <3>6. (i + 1) - 1 = i
      BY <2>2
    <3> HIDE DEF f, g, rest
    <3> QED
      BY <2>1, <2>4, <3>3, <3>4, <3>5, <3>6
  <2> QED
    BY <2>3, <2>4
<1>4. \A p \in rest : g[p] \in new /\ f[g[p]] = p
  <2> SUFFICES ASSUME NEW p \in rest PROVE g[p] \in new /\ f[g[p]] = p
    OBVIOUS
  <2>1. PICK j \in Attempt, i \in 1 .. MaxResponses + 1 : p = <<j, i>>
    BY DEF Unread
  <2>2. i \in DOMAIN st[j] /\ st[j][i].arg = n /\ i \in Nat
    BY <2>1, UnreadPairs
  <2>3. CASE j # k
    <3>1. p \in new
      BY <1>0, <2>1, <2>2, <2>3, UnreadPairs
    <3>2. f[p] = p /\ g[p] = p
      BY <2>1, <2>3, <3>1
    <3> QED
      BY <3>1, <3>2
  <2>4. CASE j = k
    <3>1. i \in 1 .. l /\ i # 1
      BY <1>1, <2>1, <2>2, <2>4
    <3>2. i - 1 \in 1 .. l - 1 /\ i - 1 \in 1 .. MaxResponses + 1
          /\ (i - 1) + 1 = i
      BY <1>1, <1>2, <3>1
    <3>3. st2[k][i - 1].arg = n
      BY <1>1, <2>2, <2>4, <3>2
    <3>4. <<k, i - 1>> \in new
      BY <1>0, <1>1, <3>2, <3>3, UnreadPairs
    <3>5. g[p] = <<k, i - 1>>
      BY <2>1, <2>4
    <3>6. f[<<k, i - 1>>] = <<k, (i - 1) + 1>>
      BY <3>4
    <3> QED
      BY <2>1, <2>4, <3>2, <3>4, <3>5, <3>6
  <2> QED
    BY <2>3, <2>4
<1>5. IsFiniteSet(new) /\ IsFiniteSet(old)
      /\ Cardinality(new) \in Nat /\ Cardinality(old) \in Nat
  BY UnreadType
<1>6. <<k, 1>> \in old <=> Head(st[k]).arg = n
  BY <1>0, <1>1, <1>2, UnreadPairs
<1> HIDE DEF old, new
<1>7. Cardinality(rest) = IF <<k, 1>> \in old THEN Cardinality(old) - 1
                                              ELSE Cardinality(old)
  BY <1>5, FS_RemoveElement
<1> HIDE DEF rest, f, g
<1>8. Cardinality(rest) = Cardinality(new)
  <2>1. f \in [new -> rest]
    BY <1>3 DEF f
  <2>2. \A p, q \in new : f[p] = f[q] => p = q
    BY <1>3
  <2>3. \A p \in rest : \E q \in new : f[q] = p
    BY <1>4
  <2>4. f \in Bijection(new, rest)
    BY <2>1, <2>2, <2>3 DEF Bijection, Injection, Surjection, IsInjective
  <2> QED
    BY <1>5, <2>4, FS_Bijection DEF ExistsBijection
<1> QED
  BY <1>5, <1>6, <1>7, <1>8 DEF old, new

\* The read of connection k that throws takes d responses with it.
Thrown(l, n) == { k \in Attempt : n \in l[k] }

Dropped(st, st2, l, l2, k, d) ==
    /\ k \in Attempt /\ st[k] \in Seq(Answer)
    /\ Len(st[k]) <= MaxResponses + 1
    /\ d \in 0 .. Len(st[k])
    /\ st2[k] = SubSeq(st[k], d + 1, Len(st[k]))
    /\ l[k] = {}
    /\ l2[k] = { st[k][i].arg : i \in 1 .. d }
    /\ \A j \in Attempt \ {k} : st2[j] = st[j] /\ l2[j] = l[j]

LEMMA ThrownType ==
    ASSUME NEW l, NEW n
    PROVE  IsFiniteSet(Thrown(l, n)) /\ Cardinality(Thrown(l, n)) \in Nat
<1>1. IsFiniteSet(Attempt) /\ Thrown(l, n) \in SUBSET Attempt
  BY FS_Interval, ClientBoundsAssumption DEF Attempt, Thrown
<1> QED
  BY <1>1, FS_Subset, FS_CardinalityType

\* Response n is the i-th on connection j; and when there is none, or one.
Lies(st, j, i, n) ==
    /\ j \in Attempt /\ i \in 1 .. MaxResponses + 1
    /\ i \in DOMAIN st[j] /\ st[j][i].arg = n

LEMMA UnreadNone ==
    ASSUME NEW st, NEW n
    PROVE  Cardinality(Unread(st, n)) = 0 <=> \A j, i : ~Lies(st, j, i, n)
<1>1. Cardinality(Unread(st, n)) = 0 <=> Unread(st, n) = {}
  BY UnreadType, FS_EmptySet
<1>2. \A j, i : <<j, i>> \in Unread(st, n) <=> Lies(st, j, i, n)
  <2> TAKE j, i
  <2>1. <<j, i>> \in Unread(st, n) <=>
                /\ j \in Attempt /\ i \in 1 .. MaxResponses + 1
                /\ i \in DOMAIN st[j] /\ st[j][i].arg = n
    BY UnreadPairs
  <2> QED
    BY <2>1 DEF Lies
<1>3. \A p \in Unread(st, n) :
            \E j \in Attempt, i \in 1 .. MaxResponses + 1 : p = <<j, i>>
  BY DEF Unread
<1>4. Unread(st, n) = {} <=> \A j, i : <<j, i>> \notin Unread(st, n)
  BY <1>3
<1> QED
  BY <1>1, <1>2, <1>4

LEMMA UnreadOne ==
    ASSUME NEW st, NEW n
    PROVE  Cardinality(Unread(st, n)) = 1 <=>
                \E j, i : /\ Lies(st, j, i, n)
                         /\ \A a, b : Lies(st, a, b, n) => a = j /\ b = i
<1>1. Cardinality(Unread(st, n)) = 1 <=> \E p : Unread(st, n) = {p}
  BY UnreadType, FS_Singleton
<1>2. \A j, i : <<j, i>> \in Unread(st, n) <=> Lies(st, j, i, n)
  <2> TAKE j, i
  <2>1. <<j, i>> \in Unread(st, n) <=>
                /\ j \in Attempt /\ i \in 1 .. MaxResponses + 1
                /\ i \in DOMAIN st[j] /\ st[j][i].arg = n
    BY UnreadPairs
  <2> QED
    BY <2>1 DEF Lies
<1>3. \A p \in Unread(st, n) :
            \E j \in Attempt, i \in 1 .. MaxResponses + 1 : p = <<j, i>>
  BY DEF Unread
<1>4. ASSUME NEW p, Unread(st, n) = {p}
      PROVE  \E j, i : /\ Lies(st, j, i, n)
                      /\ \A a, b : Lies(st, a, b, n) => a = j /\ b = i
  <2>1. PICK j, i : p = <<j, i>>
    BY <1>3, <1>4
  <2>2. Lies(st, j, i, n)
    BY <1>2, <1>4, <2>1
  <2>3. \A a, b : Lies(st, a, b, n) => <<a, b>> = <<j, i>>
    BY <1>2, <1>4, <2>1
  <2>4. \A a, b : <<a, b>> = <<j, i>> => a = j /\ b = i
    OBVIOUS
  <2> QED
    BY <2>2, <2>3, <2>4
<1>5. ASSUME NEW j, NEW i, Lies(st, j, i, n),
             \A a, b : Lies(st, a, b, n) => a = j /\ b = i
      PROVE  Unread(st, n) = {<<j, i>>}
  <2>1. <<j, i>> \in Unread(st, n)
    BY <1>2, <1>5
  <2>2. ASSUME NEW p \in Unread(st, n)
        PROVE  p = <<j, i>>
    <3>1. PICK a, b : p = <<a, b>>
      BY <1>3
    <3>2. a = j /\ b = i
      BY <1>2, <1>5, <3>1
    <3> QED
      BY <3>1, <3>2
  <2> QED
    BY <2>1, <2>2
<1> QED
  BY <1>1, <1>4, <1>5

\* What is left of a stream.
Rest(st, st2, k, d) ==
    /\ DOMAIN st[k] = 1 .. Len(st[k])
    /\ Len(st2[k]) = Len(st[k]) - d
    /\ DOMAIN st2[k] = 1 .. Len(st[k]) - d
    /\ \A i \in 1 .. Len(st[k]) - d : st2[k][i] = st[k][i + d]

LEMMA DroppedRest ==
    ASSUME NEW st, NEW st2, NEW l, NEW l2, NEW k, NEW d,
           Dropped(st, st2, l, l2, k, d)
    PROVE  Rest(st, st2, k, d)
<1>0. d \in Nat /\ Len(st[k]) \in Nat /\ d <= Len(st[k])
  BY DEF Dropped
<1>1. st[k] \in Seq(Answer) /\ st2[k] = SubSeq(st[k], d + 1, Len(st[k]))
  BY DEF Dropped
<1> HIDE DEF Answer
<1>2. /\ DOMAIN st[k] = 1 .. Len(st[k])
      /\ \A i \in d + 1 .. Len(st[k]) : st[k][i] \in Answer
  <2>1. DOMAIN st[k] = 1 .. Len(st[k])
    BY <1>1
  <2>2. \A i \in d + 1 .. Len(st[k]) : i \in DOMAIN st[k]
    BY <1>0, <2>1
  <2> QED
    BY <1>1, <2>1, <2>2, SeqElement
<1>3. /\ SubSeq(st[k], d + 1, Len(st[k])) \in Seq(Answer)
      /\ Len(SubSeq(st[k], d + 1, Len(st[k]))) = Len(st[k]) - d
      /\ \A i \in 1 .. Len(st[k]) - d :
              SubSeq(st[k], d + 1, Len(st[k]))[i] = st[k][i + d]
  <2> DEFINE m == d + 1
             z == Len(st[k])
  <2>1. m \in Int /\ z \in Int /\ \A i \in m .. z : st[k][i] \in Answer
    BY <1>0, <1>2
  <2> HIDE DEF m, z
  <2>2. /\ SubSeq(st[k], m, z) \in Seq(Answer)
        /\ Len(SubSeq(st[k], m, z)) = IF m <= z THEN z - m + 1 ELSE 0
        /\ \A i \in 1 .. z - m + 1 :
              SubSeq(st[k], m, z)[i] = st[k][m + i - 1]
    BY <2>1, SubSeqProperties
  <2>3. /\ (IF m <= z THEN z - m + 1 ELSE 0) = z - d /\ z - m + 1 = z - d
        /\ \A i \in 1 .. z - d : m + i - 1 = i + d
    BY <1>0 DEF m, z
  <2>4. /\ SubSeq(st[k], m, z) \in Seq(Answer)
        /\ Len(SubSeq(st[k], m, z)) = z - d
        /\ \A i \in 1 .. z - d : SubSeq(st[k], m, z)[i] = st[k][i + d]
    BY <2>2, <2>3
  <2> QED
    BY <2>4 DEF m, z
<1>4. Len(st2[k]) = Len(st[k]) - d /\ DOMAIN st2[k] = 1 .. Len(st[k]) - d
  BY <1>1, <1>3
<1> QED
  BY <1>1, <1>2, <1>3, <1>4 DEF Rest

LEMMA UnreadDropped ==
    ASSUME NEW st, NEW st2, NEW l, NEW l2, NEW k, NEW d, NEW n,
           Dropped(st, st2, l, l2, k, d),
           Cardinality(Unread(st, n)) + Cardinality(Thrown(l, n)) <= 1
    PROVE  Cardinality(Unread(st2, n)) + Cardinality(Thrown(l2, n))
                = Cardinality(Unread(st, n)) + Cardinality(Thrown(l, n))
<1>1. /\ k \in Attempt /\ d \in Nat /\ Len(st[k]) \in Nat
      /\ d <= Len(st[k]) /\ Len(st[k]) <= MaxResponses + 1
      /\ MaxResponses \in Nat
  BY ClientBoundsAssumption DEF Dropped
<1>2. /\ DOMAIN st[k] = 1 .. Len(st[k])
      /\ DOMAIN st2[k] = 1 .. Len(st[k]) - d
      /\ \A i \in 1 .. Len(st[k]) - d : st2[k][i] = st[k][i + d]
  BY DroppedRest DEF Rest
<1>3. /\ \A j \in Attempt \ {k} : st2[j] = st[j] /\ l2[j] = l[j]
      /\ l[k] = {} /\ l2[k] = { st[k][i].arg : i \in 1 .. d }
  BY DEF Dropped
<1>4. /\ Cardinality(Unread(st, n)) \in Nat
      /\ Cardinality(Thrown(l, n)) \in Nat
      /\ Cardinality(Unread(st, n)) + Cardinality(Thrown(l, n)) <= 1
  BY UnreadType, ThrownType
<1>5. \A j, i : Lies(st2, j, i, n) /\ j # k => Lies(st, j, i, n)
  BY <1>3 DEF Lies
<1>6. \A i : Lies(st2, k, i, n) => i \in Nat \ {0} /\ Lies(st, k, i + d, n)
  <2> SUFFICES ASSUME NEW i, Lies(st2, k, i, n)
               PROVE  i \in Nat \ {0} /\ Lies(st, k, i + d, n)
    OBVIOUS
  <2>1. i \in 1 .. Len(st[k]) - d /\ st[k][i + d].arg = n
    BY <1>2 DEF Lies
  <2>2. /\ i \in Nat \ {0} /\ i + d \in 1 .. Len(st[k])
        /\ i + d \in 1 .. MaxResponses + 1
    BY <1>1, <2>1
  <2> QED
    BY <1>1, <1>2, <2>1, <2>2 DEF Lies
<1>7. CASE \E i \in 1 .. d : st[k][i].arg = n
  <2>1. PICK m \in 1 .. d : st[k][m].arg = n
    BY <1>7
  <2>2. Lies(st, k, m, n) /\ m \in Nat /\ m <= d
    BY <1>1, <1>2, <2>1 DEF Lies
  <2>3. Cardinality(Unread(st, n)) = 1 /\ Cardinality(Thrown(l, n)) = 0
    <3>1. Cardinality(Unread(st, n)) # 0
      BY <2>2, UnreadNone
    <3> QED
      BY <1>4, <3>1
  <2>4. \A a, b : Lies(st, a, b, n) => a = k /\ b = m
    BY <2>2, <2>3, UnreadOne
  <2>5. \A j, i : ~Lies(st2, j, i, n)
    <3>1. \A i \in Nat \ {0} : i + d # m
      BY <1>1, <2>2
    <3> QED
      BY <1>5, <1>6, <2>4, <3>1
  <2>6. Thrown(l2, n) = {k}
    <3>1. n \in l2[k]
      BY <1>3, <2>1
    <3>2. Thrown(l, n) = {}
      BY <2>3, ThrownType, FS_EmptySet
    <3>3. \A j \in Attempt \ {k} : n \notin l2[j]
      BY <1>3, <3>2 DEF Thrown
    <3> QED
      BY <1>1, <3>1, <3>3 DEF Thrown
  <2>7. Cardinality(Unread(st2, n)) = 0
    BY <2>5, UnreadNone
  <2>8. Cardinality(Thrown(l2, n)) = 1
    BY <2>6, FS_Singleton
  <2> QED
    BY <2>3, <2>7, <2>8
<1>8. CASE \A i \in 1 .. d : st[k][i].arg # n
  <2>1. Thrown(l2, n) = Thrown(l, n)
    BY <1>3, <1>8 DEF Thrown
  <2>2. CASE Cardinality(Unread(st, n)) = 0
    <3>1. \A j, i : ~Lies(st2, j, i, n)
      BY <1>5, <1>6, <2>2, UnreadNone
    <3>2. Cardinality(Unread(st2, n)) = 0
      BY <3>1, UnreadNone
    <3> QED
      BY <2>1, <2>2, <3>2
  <2>3. CASE Cardinality(Unread(st, n)) = 1
    <3>1. PICK j, i : /\ Lies(st, j, i, n)
                      /\ \A a, b : Lies(st, a, b, n) => a = j /\ b = i
      BY <2>3, UnreadOne
    <3>2. CASE j # k
      <4>1. Lies(st2, j, i, n)
        BY <1>3, <3>1, <3>2 DEF Lies
      <4>2. \A a, b : Lies(st2, a, b, n) => a = j /\ b = i
        BY <1>5, <1>6, <3>1, <3>2
      <4> QED
        BY <2>1, <2>3, <4>1, <4>2, UnreadOne
    <3>3. CASE j = k
      <4>1. i \in 1 .. Len(st[k]) /\ i > d /\ i \in Nat
        BY <1>1, <1>2, <1>8, <3>1, <3>3 DEF Lies
      <4>2. /\ i - d \in 1 .. Len(st[k]) - d /\ (i - d) + d = i
            /\ i - d \in 1 .. MaxResponses + 1
        BY <1>1, <4>1
      <4>3. Lies(st2, k, i - d, n)
        BY <1>1, <1>2, <3>1, <3>3, <4>2 DEF Lies
      <4>4. ASSUME NEW a, NEW b, Lies(st2, a, b, n)
            PROVE  a = k /\ b = i - d
        <5>1. a = k
          BY <1>5, <3>1, <3>3, <4>4
        <5>2. b \in Nat /\ b + d = i
          BY <1>6, <3>1, <4>4, <5>1
        <5> QED
          BY <1>1, <4>1, <5>1, <5>2
      <4> QED
        BY <2>1, <2>3, <4>3, <4>4, UnreadOne
    <3> QED
      BY <3>2, <3>3
  <2> QED
    BY <1>4, <2>2, <2>3
<1> QED
  BY <1>7, <1>8

-----------------------------------------------------------------------------
(***************************************************************************)
(* A response that was sent has one place, one that was not sent has none; *)
(* an error is about no response; and no stream is longer than what the    *)
(* server has said.                                                        *)
(***************************************************************************)
Showing(n)  == { m \in Posted : m.what \in Display /\ m.arg = n }
Sleeping(n) == { t \in Job : t.kind \in Display /\ t.arg = n }

Where(n) ==
    Cardinality(Unread(stream, n)) + Count(uiQueue, Showing(n))
        + Count(tasks, Sleeping(n)) + One(n, shown) + One(n, missed)
        + Cardinality(Thrown(lost, n))

PlacesInv ==
    /\ \A n \in Nat \ {0} : Where(n) = IF n <= responses THEN 1 ELSE 0
    /\ \A k \in Attempt :
        /\ Len(stream[k]) <= responses + One(k, refused)
        /\ \A i \in DOMAIN stream[k] :
            stream[k][i].kind = "error" => stream[k][i].arg = 0

\* A read that throws is the last of its connection.
LostInv == \A k \in Attempt : lost[k] # {} => readThread[k] \in {"losing", "ended"}

LEMMA LostInit == Init => LostInv
  BY DEF Init, LostInv

LEMMA LostNext == ClientInv /\ LostInv /\ [Next]_vars => LostInv'
<1> SUFFICES ASSUME ClientInv, LostInv, [Next]_vars PROVE LostInv'
  OBVIOUS
<1>1. /\ lost \in [Attempt -> SUBSET Nat]
      /\ readThread \in [Attempt ->
            {"none", "testing", "reading", "losing", "ended"}]
  BY DEF ClientInv, ClientTypeOK
<1>2. CASE HandleConnected
  <2>1. /\ readThread' = [readThread EXCEPT ![Arg] = "testing"]
        /\ lost' = lost
    BY <1>2 DEF HandleConnected, historyVars
  <2>2. Arg \in Attempt /\ readThread[Arg] = "none"
    <3>1. 1 \in Reported /\ uiQueue[1].arg = Arg
      BY <1>2, Handled DEF HandleConnected, ClientInv, Reported
    <3> QED
      BY <3>1 DEF ClientInv, ConnectInv
  <2> QED
    BY <1>1, <2>1, <2>2 DEF LostInv
<1>3. ASSUME NEW k \in Attempt, Reader(k)
      PROVE  LostInv'
  <2>1. CASE TestKill(k) \/ ReadResponse(k) \/ ReadTimesOut(k)
    <3>1. /\ readThread[k] \in {"testing", "reading"} /\ lost' = lost
          /\ \E pc : readThread' = [readThread EXCEPT ![k] = pc]
      BY <2>1 DEF TestKill, ReadResponse, ReadTimesOut, historyVars
    <3> QED
      BY <1>1, <3>1 DEF LostInv
  <2>2. CASE ReadThrows(k)
    <3>1. /\ readThread' = [readThread EXCEPT ![k] = "losing"]
          /\ \E thrown : lost' = [lost EXCEPT ![k] = thrown]
      BY <2>2 DEF ReadThrows
    <3> QED
      BY <1>1, <3>1 DEF LostInv
  <2>3. CASE ReportLoss(k)
    <3>1. /\ readThread' = [readThread EXCEPT ![k] = "ended"]
          /\ lost' = lost
      BY <2>3 DEF ReportLoss, historyVars
    <3> QED
      BY <1>1, <3>1 DEF LostInv
  <2> QED
    BY <1>3, <2>1, <2>2, <2>3 DEF Reader
<1>4. CASE \/ UiThread /\ ~HandleConnected
           \/ Executor \/ Environment \/ UNCHANGED vars
  <2>1. UNCHANGED <<lost, readThread>>
    <3>1. CASE UiThread /\ ~HandleConnected
      <4>1. UNCHANGED lost
        BY <3>1 DEF UiThread, FinishClose, HandleSendMessage, HandleCallback,
           HandleLoginFailed, HandleExpectation, HandleSocketAWOL,
           HandleDisplayLogin, HandleDisplayMessage, ExecPending, Shows, Stalls,
           historyVars
      <4>2. UNCHANGED readThread
        BY <3>1 DEF UiThread, FinishClose, HandleSendMessage, HandleCallback,
           HandleLoginFailed, HandleExpectation, HandleSocketAWOL,
           HandleDisplayLogin, HandleDisplayMessage, ExecPending, threadVars
      <4> QED
        BY <4>1, <4>2
    <3>2. CASE Executor
      BY <3>2 DEF Executor, RunConnect, RunSend, RunStall, historyVars,
         threadVars
    <3>3. CASE Environment
      BY <3>3 DEF Environment, ClickLogin, ClickSend, ServerTells,
         ServerRefuses, ServerGoes, historyVars, threadVars
    <3>4. CASE UNCHANGED vars
      BY <3>4 DEF vars, historyVars, threadVars
    <3> QED
      BY <1>4, <3>1, <3>2, <3>3, <3>4
  <2> QED
    BY <2>1 DEF LostInv
<1> QED
  BY <1>2, <1>3, <1>4 DEF Next

LEMMA PlacesInit == Init => PlacesInv
<1> SUFFICES ASSUME Init PROVE PlacesInv
  OBVIOUS
<1>1. /\ stream = [k \in Attempt |-> << >>] /\ uiQueue = << >>
      /\ tasks = << >> /\ shown = {} /\ missed = {} /\ responses = 0
      /\ refused = {} /\ lost = [k \in Attempt |-> {}]
  BY DEF Init
<1>2. \A n : Unread(stream, n) = {} /\ Thrown(lost, n) = {}
  BY <1>1 DEF Unread, Thrown
<1>3. \A T : Held(<< >>, T) = {}
  BY DEF Held
<1>4. \A n : Where(n) = 0
  <2> TAKE n
  <2>1. Cardinality(Unread(stream, n)) = 0 /\ Cardinality(Thrown(lost, n)) = 0
    BY <1>2, FS_EmptySet
  <2>2. Count(uiQueue, Showing(n)) = 0 /\ Count(tasks, Sleeping(n)) = 0
    BY <1>1, <1>3, FS_EmptySet DEF Count
  <2>3. One(n, shown) = 0 /\ One(n, missed) = 0
    BY <1>1 DEF One
  <2> QED
    BY <2>1, <2>2, <2>3 DEF Where
<1>5. \A k \in Attempt : Len(stream[k]) = 0 /\ DOMAIN stream[k] = {}
  BY <1>1
<1> QED
  BY <1>1, <1>4, <1>5 DEF PlacesInv, One

\* Steps that pass no response on.
LEMMA PlacesFrame ==
    ASSUME PlacesInv,
           UNCHANGED <<stream, shown, missed, lost, responses, refused>>,
           \A n \in Nat \ {0} :
                /\ Count(uiQueue', Showing(n)) = Count(uiQueue, Showing(n))
                /\ Count(tasks', Sleeping(n)) = Count(tasks, Sleeping(n))
    PROVE  PlacesInv'
<1>1. \A n \in Nat \ {0} : Where(n)' = Where(n)
  BY DEF Where
<1> QED
  BY <1>1 DEF PlacesInv

LEMMA CountsTyped ==
    ASSUME ClientInv, NEW n
    PROVE  /\ uiQueue \in Seq(Posted) /\ tasks \in Seq(Job)
           /\ Cardinality(Unread(stream, n)) \in Nat
           /\ Cardinality(Thrown(lost, n)) \in Nat
           /\ Count(uiQueue, Showing(n)) \in Nat
           /\ Count(tasks, Sleeping(n)) \in Nat
<1>1. uiQueue \in Seq(Posted) /\ tasks \in Seq(Job)
  BY DEF ClientInv, ClientTypeOK, Posted, Job
<1> QED
  BY <1>1, UnreadType, ThrownType, CountType

\* Messages and tasks that have nothing to do with responses.
LEMMA QuietPost ==
    ASSUME ClientInv, NEW m \in Posted, m.what \notin Display,
           uiQueue' = Append(uiQueue, m)
    PROVE  \A n : Count(uiQueue', Showing(n)) = Count(uiQueue, Showing(n))
<1> TAKE n
<1>1. m \notin Showing(n)
  BY DEF Showing
<1> QED
  BY <1>1, CountsTyped, CountAppend DEF One

LEMMA QuietTask ==
    ASSUME ClientInv, NEW t \in Job, t.kind \notin Display,
           tasks' = Append(tasks, t)
    PROVE  \A n : Count(tasks', Sleeping(n)) = Count(tasks, Sleeping(n))
<1> TAKE n
<1>1. t \notin Sleeping(n)
  BY DEF Sleeping
<1> QED
  BY <1>1, CountsTyped, CountAppend DEF One

\* A handler of such a message posts one like it at most.
LEMMA QuietHandler ==
    ASSUME ClientInv, NEW what, what \notin Display, Handles(what),
           NEW messages, Posts(messages),
           \/ messages = << >>
           \/ \E m \in Posted : m.what \notin Display /\ messages = <<m>>
    PROVE  \A n : Count(uiQueue', Showing(n)) = Count(uiQueue, Showing(n))
<1> TAKE n
<1>1. /\ uiQueue \in Seq(Posted) /\ uiQueue # << >>
      /\ Head(uiQueue).what = what
  BY Handled DEF ClientInv, Handles
<1>2. messages = << >> \/ \E m \in Posted \ Showing(n) : messages = <<m>>
  BY DEF Showing
<1>3. Count(uiQueue', Showing(n)) + One(Head(uiQueue), Showing(n))
            = Count(uiQueue, Showing(n))
  BY <1>1, <1>2, CountPosts DEF Posts
<1>4. Head(uiQueue) \notin Showing(n)
  BY <1>1 DEF Showing
<1>5. uiQueue' \in Seq(Posted)
  <2>1. \E Fresh \in SUBSET Posted :
            messages = << >> \/ \E m \in Fresh : messages = <<m>>
    OBVIOUS
  <2> QED
    BY <1>1, <2>1, MovesPosts
<1>6. Count(uiQueue', Showing(n)) \in Nat
  BY <1>5, CountType
<1> QED
  BY <1>3, <1>4, <1>6 DEF One

\* The task that is run had nothing to do with them.
LEMMA QuietRun ==
    ASSUME ClientInv, NEW task, Runs(task), task.kind \notin Display
    PROVE  \A n : Count(tasks', Sleeping(n)) = Count(tasks, Sleeping(n))
<1> TAKE n
<1>1. /\ tasks \in Seq(Job) /\ tasks # << >> /\ tasks' \in Seq(Job)
      /\ tasks' = Tail(tasks) /\ Head(tasks).kind \notin Display
  BY Running DEF Runs, ClientInv
<1>2. Head(tasks) \notin Sleeping(n)
  BY <1>1 DEF Sleeping
<1>3. Count(tasks', Sleeping(n)) + One(Head(tasks), Sleeping(n))
            = Count(tasks, Sleeping(n))
  BY <1>1, CountTail
<1>4. Count(tasks', Sleeping(n)) \in Nat
  BY <1>1, CountType
<1> QED
  BY <1>2, <1>3, <1>4 DEF One

-----------------------------------------------------------------------------
(* The steps. *)

LEMMA PlacesUser ==
    ASSUME ClientInv, PlacesInv, ClickLogin \/ ClickSend PROVE PlacesInv'
<1> USE DEF serverVars, historyVars
<1>1. CASE ClickLogin
  <2> DEFINE t == Task("connect", 0, logins + 1)
  <2>1. tasks' = Append(tasks, t) /\ logins + 1 \in Attempt
    BY <1>1, ClientBoundsAssumption
    DEF ClickLogin, ClientInv, ClientTypeOK, Attempt
  <2>2. t \in Job /\ t.kind = "connect"
    <3>1. logins + 1 \in {0} \cup Attempt /\ "connect" \in TaskKind
      BY <2>1 DEF TaskKind
    <3> QED
      BY <3>1 DEF Task, Job
  <2> HIDE DEF t
  <2>3. \A n : Count(tasks', Sleeping(n)) = Count(tasks, Sleeping(n))
    BY <2>1, <2>2, QuietTask DEF Display
  <2> QED
    BY <1>1, <2>3, PlacesFrame DEF ClickLogin
<1>2. CASE ClickSend
  <2> DEFINE m == Message("SendMessage", typed + 1)
  <2>1. uiQueue' = Append(uiQueue, m) /\ typed + 1 \in Nat
    BY <1>2, ClientBoundsAssumption DEF ClickSend, ClientInv, ClientTypeOK
  <2>2. m \in Posted /\ m.what = "SendMessage"
    BY <2>1, MessageTyped DEF What
  <2> HIDE DEF m
  <2>3. \A n : Count(uiQueue', Showing(n)) = Count(uiQueue, Showing(n))
    BY <2>1, <2>2, QuietPost DEF Display
  <2> QED
    BY <1>2, <2>3, PlacesFrame DEF ClickSend
<1> QED
  BY <1>1, <1>2

LEMMA PlacesSends ==
    ASSUME ClientInv, PlacesInv, HandleConnected \/ HandleSendMessage
    PROVE  PlacesInv'
<1>1. PICK what \in {"connected", "SendMessage"}, kind \in {"login", "message"} :
        Handles(what) /\ Sends(kind)
  BY DEF HandleConnected, HandleSendMessage
<1>2. UNCHANGED <<stream, shown, missed, lost, responses, refused>>
  BY DEF HandleConnected, HandleSendMessage, serverVars, historyVars
<1>3. CASE mConnection = 0
  BY <1>1, <1>2, <1>3, PlacesFrame DEF Sends
<1>4. CASE mConnection # 0
  <2> DEFINE m  == Message("DisplayError", 0)
             t  == Task(kind, Arg, mConnection)
             ms == IF sock[mConnection] = "new" THEN <<m>> ELSE << >>
  <2>1. m \in Posted /\ m.what \notin Display
    BY MessageTyped DEF What, Display
  <2>2. t \in Job /\ t.kind \notin Display
    <3>1. Arg \in Nat /\ mConnection \in {0} \cup Attempt
      BY <1>1, Handled DEF ClientInv, ClientTypeOK
    <3>2. kind \in TaskKind /\ kind \notin Display
      BY DEF TaskKind, Display
    <3> QED
      BY <3>1, <3>2, TaskTyped
  <2>3. Posts(ms) /\ tasks' = Append(tasks, t)
    BY <1>1, <1>4 DEF Sends
  <2>4. what \notin Display
    BY DEF Display
  <2>5. ms = << >> \/ ms = <<m>>
    OBVIOUS
  <2> HIDE DEF m, t, ms
  <2>6. \A n : Count(uiQueue', Showing(n)) = Count(uiQueue, Showing(n))
    BY <1>1, <2>1, <2>3, <2>4, <2>5, QuietHandler
  <2>7. \A n : Count(tasks', Sleeping(n)) = Count(tasks, Sleeping(n))
    BY <2>2, <2>3, QuietTask
  <2> QED
    BY <1>2, <2>6, <2>7, PlacesFrame
<1> QED
  BY <1>3, <1>4

\* Handlers of messages that are about no response.
LEMMA PlacesOther ==
    ASSUME ClientInv, PlacesInv,
           \/ HandleCallback \/ HandleLoginFailed \/ HandleExpectation
           \/ HandleSocketAWOL \/ ExecPending
    PROVE  PlacesInv'
<1>0. PICK what \in What \ Display : \E messages :
        /\ Handles(what) /\ Posts(messages)
        /\ \/ messages = << >>
           \/ \E other \in What \ Display : messages = <<Message(other, 0)>>
  BY DEF HandleCallback, HandleLoginFailed, HandleExpectation,
     HandleSocketAWOL, ExecPending, CommitPosts, What, Display
<1>1. PICK messages :
        /\ Handles(what) /\ Posts(messages)
        /\ \/ messages = << >>
           \/ \E other \in What \ Display : messages = <<Message(other, 0)>>
  BY <1>0
<1>2. UNCHANGED <<stream, shown, missed, lost, responses, refused, tasks>>
  BY DEF HandleCallback, HandleLoginFailed, HandleExpectation,
     HandleSocketAWOL, ExecPending, serverVars, historyVars
<1>3. \/ messages = << >>
      \/ \E m \in Posted : m.what \notin Display /\ messages = <<m>>
  BY <1>1, MessageTyped
<1>4. \A n : Count(uiQueue', Showing(n)) = Count(uiQueue, Showing(n))
  BY <1>1, <1>3, QuietHandler
<1> QED
  BY <1>2, <1>4, PlacesFrame

\* A response is drawn, missed, or stalled by a task.
LEMMA PlacesDisplay ==
    ASSUME ClientInv, PlacesInv, NEW what \in Display, Handles(what),
           UNCHANGED <<stream, responses, refused>>,
           NEW messages, Posts(messages),
           \/ messages = << >>
           \/ \E m \in Posted : m.what \notin Display /\ messages = <<m>>,
           NEW added,
           \/ Shows(added) /\ UNCHANGED tasks
           \/ Stalls
    PROVE  PlacesInv'
<1>1. /\ uiQueue \in Seq(Posted) /\ uiQueue # << >> /\ tasks \in Seq(Job)
      /\ Head(uiQueue) \in Posted /\ Head(uiQueue).what = what
      /\ Head(uiQueue).arg = Arg /\ Arg \in Nat
  BY Handled, MovesTail DEF ClientInv, Handles, Arg
<1>0. what \in TaskKind /\ 0 \in {0} \cup Attempt /\ UNCHANGED lost
  BY DEF TaskKind, Shows, Stalls, historyVars
<1>2. ASSUME NEW n \in Nat \ {0}
      PROVE  Where(n)' = Where(n)
  <2>1. /\ Cardinality(Unread(stream, n)) \in Nat
        /\ Cardinality(Thrown(lost, n)) \in Nat
        /\ Count(uiQueue, Showing(n)) \in Nat
        /\ Count(tasks, Sleeping(n)) \in Nat
    BY CountsTyped
  <2>2. /\ Count(uiQueue', Showing(n)) + One(Head(uiQueue), Showing(n))
                = Count(uiQueue, Showing(n))
        /\ Count(uiQueue', Showing(n)) \in Nat
    <3>1. messages = << >> \/ \E m \in Posted \ Showing(n) : messages = <<m>>
      BY DEF Showing
    <3>2. \E Fresh \in SUBSET Posted :
            messages = << >> \/ \E m \in Fresh : messages = <<m>>
      OBVIOUS
    <3>3. uiQueue' \in Seq(Posted)
      BY <1>1, <3>2, MovesPosts
    <3>4. Count(uiQueue', Showing(n)) \in Nat
      BY <3>3, CountType
    <3>5. uiQueue' = Tail(uiQueue) \o messages
      BY DEF Posts
    <3>6. Count(Tail(uiQueue) \o messages, Showing(n))
                + One(Head(uiQueue), Showing(n)) = Count(uiQueue, Showing(n))
      BY <1>1, <3>1, CountPosts
    <3> QED
      BY <3>4, <3>5, <3>6
  <2>3. Head(uiQueue) \in Showing(n) <=> n = Arg
    BY <1>1 DEF Showing
  <2>4. CASE n # Arg
    <3>1. One(n, shown') = One(n, shown) /\ One(n, missed') = One(n, missed)
          /\ Count(tasks', Sleeping(n)) = Count(tasks, Sleeping(n))
      <4>1. CASE Shows(added) /\ UNCHANGED tasks
        BY <2>4, <4>1 DEF Shows, Draws, One
      <4>2. CASE Stalls
        <5> DEFINE t == Task(what, Arg, 0)
        <5>1. t \in Job /\ t.arg = Arg
          BY <1>0, <1>1, TaskTyped
        <5>2. tasks' = Append(tasks, t) /\ UNCHANGED <<shown, missed>>
          BY <1>1, <4>2 DEF Stalls, historyVars
        <5> HIDE DEF t
        <5>3. t \notin Sleeping(n)
          BY <2>4, <5>1 DEF Sleeping
        <5> QED
          BY <1>1, <2>1, <5>1, <5>2, <5>3, CountAppend DEF One
      <4> QED
        BY <4>1, <4>2
    <3>2. Count(uiQueue', Showing(n)) = Count(uiQueue, Showing(n))
      BY <2>1, <2>2, <2>3, <2>4 DEF One
    <3> QED
      BY <1>0, <3>1, <3>2 DEF Where
  <2>5. CASE n = Arg
    <3>1. /\ Count(uiQueue, Showing(n)) = Count(uiQueue', Showing(n)) + 1
          /\ Count(uiQueue, Showing(n)) >= 1
      BY <2>1, <2>2, <2>3, <2>5 DEF One
    <3>2. n \notin shown /\ n \notin missed
      BY <2>1, <3>1 DEF PlacesInv, Where, One
    <3>3. \/ /\ One(n, shown') + One(n, missed') = 1
             /\ tasks' = tasks
          \/ /\ UNCHANGED <<shown, missed>>
             /\ Count(tasks', Sleeping(n)) = Count(tasks, Sleeping(n)) + 1
      <4>1. CASE Shows(added) /\ UNCHANGED tasks
        BY <2>5, <3>2, <4>1 DEF Shows, Draws, One
      <4>2. CASE Stalls
        <5> DEFINE t == Task(what, Arg, 0)
        <5>1. t \in Job /\ t.arg = Arg /\ t.kind = what
          BY <1>0, <1>1 DEF Task, Job
        <5>2. tasks' = Append(tasks, t) /\ UNCHANGED <<shown, missed>>
          BY <1>1, <4>2 DEF Stalls, historyVars
        <5> HIDE DEF t
        <5>3. t \in Sleeping(n)
          BY <2>5, <5>1 DEF Sleeping
        <5> QED
          BY <1>1, <5>1, <5>2, <5>3, CountAppend DEF One
      <4> QED
        BY <4>1, <4>2
    <3>4. One(n, shown) = 0 /\ One(n, missed) = 0
      BY <3>2 DEF One
    <3>5. One(n, shown') \in Nat /\ One(n, missed') \in Nat
      BY DEF One
    <3> HIDE DEF One, Count, Showing, Sleeping
    <3>6. CASE tasks' = tasks /\ One(n, shown') + One(n, missed') = 1
      BY <1>0, <2>1, <2>2, <3>1, <3>4, <3>5, <3>6, SMTT(20) DEF Where
    <3>7. CASE /\ UNCHANGED <<shown, missed>>
               /\ Count(tasks', Sleeping(n)) = Count(tasks, Sleeping(n)) + 1
      BY <1>0, <2>1, <2>2, <3>1, <3>4, <3>7, SMTT(20) DEF Where
    <3> QED
      BY <3>3, <3>6, <3>7
  <2> QED
    BY <2>4, <2>5
<1> QED
  BY <1>2 DEF PlacesInv

LEMMA PlacesDisplays ==
    ASSUME ClientInv, PlacesInv, HandleDisplayLogin \/ HandleDisplayMessage
    PROVE  PlacesInv'
<1>0. PICK what \in Display : \E messages :
        /\ Handles(what) /\ Posts(messages)
        /\ messages = << >> \/ messages = <<Message("execPending", 0)>>
  BY DEF HandleDisplayLogin, HandleDisplayMessage, CommitPosts, Display
<1>1. PICK messages :
        /\ Handles(what) /\ Posts(messages)
        /\ messages = << >> \/ messages = <<Message("execPending", 0)>>
  BY <1>0
<1>2. \E added : \/ Shows(added) /\ UNCHANGED tasks
                 \/ Stalls
  BY DEF HandleDisplayLogin, HandleDisplayMessage
<1>3. UNCHANGED <<stream, responses, refused>>
  BY DEF HandleDisplayLogin, HandleDisplayMessage, serverVars
<1>4. \/ messages = << >>
      \/ \E m \in Posted : m.what \notin Display /\ messages = <<m>>
  BY <1>1, MessageTyped DEF What, Display
<1> QED
  BY <1>1, <1>2, <1>3, <1>4, PlacesDisplay

LEMMA PlacesExecutor ==
    ASSUME ClientInv, PlacesInv, NEW task,
           RunConnect(task) \/ RunSend(task) \/ RunStall(task)
    PROVE  PlacesInv'
<1>1. /\ tasks \in Seq(Job) /\ uiQueue \in Seq(Posted) /\ task \in Job
      /\ tasks # << >> /\ task = Head(tasks) /\ tasks' = Tail(tasks)
      /\ tasks' \in Seq(Job)
  BY Running DEF RunConnect, RunSend, RunStall, ClientInv, Runs
<1>2. UNCHANGED <<stream, shown, missed, lost, responses, refused>>
  BY DEF RunConnect, RunSend, RunStall, serverVars, historyVars
<1>3. CASE RunConnect(task) \/ RunSend(task)
  <2>1. Runs(task) /\ task.kind \notin Display
    BY <1>3 DEF RunConnect, RunSend, Display
  <2>2. \/ UNCHANGED uiQueue
        \/ \E what \in What \ Display, arg \in Nat :
                uiQueue' = Append(uiQueue, Message(what, arg))
    <3>1. task.arg \in Nat
      BY <1>1 DEF Job
    <3>2. RunConnect(task) => task.conn \in Nat
      BY <1>1 DEF Job, Attempt
    <3> QED
      BY <1>3, <3>1, <3>2 DEF RunConnect, RunSend, What, Display
  <2>3. \A n : Count(uiQueue', Showing(n)) = Count(uiQueue, Showing(n))
    BY <2>2, QuietPost, MessageTyped
  <2>4. \A n : Count(tasks', Sleeping(n)) = Count(tasks, Sleeping(n))
    BY <2>1, QuietRun
  <2> QED
    BY <1>2, <2>3, <2>4, PlacesFrame
<1>4. CASE RunStall(task)
  <2> DEFINE m == Message(task.kind, task.arg)
  <2>1. task.kind \in Display /\ task.arg \in Nat
    BY <1>1, <1>4 DEF RunStall, Job
  <2>2. m \in Posted /\ m.what = task.kind /\ m.arg = task.arg
    <3>1. task.kind \in What
      BY <2>1 DEF Display, What
    <3> QED
      BY <2>1, <3>1, MessageTyped
  <2>3. uiQueue' = Append(uiQueue, m)
    BY <1>4 DEF RunStall
  <2> HIDE DEF m
  <2>4. ASSUME NEW n \in Nat \ {0}
        PROVE  Where(n)' = Where(n)
    <3>1. /\ Cardinality(Unread(stream, n)) \in Nat
          /\ Cardinality(Thrown(lost, n)) \in Nat
          /\ Count(uiQueue, Showing(n)) \in Nat
          /\ Count(tasks, Sleeping(n)) \in Nat
          /\ Count(tasks', Sleeping(n)) \in Nat
      BY <1>1, CountsTyped, CountType
    <3>2. m \in Showing(n) <=> Head(tasks) \in Sleeping(n)
      BY <1>1, <2>1, <2>2 DEF Showing, Sleeping
    <3>3. Count(uiQueue', Showing(n))
            = Count(uiQueue, Showing(n)) + One(m, Showing(n))
      BY <1>1, <2>2, <2>3, CountAppend
    <3>4. Count(tasks', Sleeping(n)) + One(Head(tasks), Sleeping(n))
            = Count(tasks, Sleeping(n))
      BY <1>1, CountTail
    <3>5. One(m, Showing(n)) = One(Head(tasks), Sleeping(n))
          /\ One(m, Showing(n)) \in Nat
      BY <3>2 DEF One
    <3>6. One(n, shown) \in Nat /\ One(n, missed) \in Nat
      BY DEF One
    <3> HIDE DEF One, Showing, Sleeping, Count
    <3> QED
      BY <1>2, <3>1, <3>3, <3>4, <3>5, <3>6, SMTT(20) DEF Where
  <2> QED
    BY <1>2, <2>4 DEF PlacesInv
<1> QED
  BY <1>3, <1>4

LEMMA PlacesReader ==
    ASSUME ClientInv, PlacesInv, LostInv, NEW k \in Attempt, Reader(k)
    PROVE  PlacesInv'
<1> USE DEF serverVars, historyVars
<1>1. CASE TestKill(k) \/ ReadTimesOut(k)
  BY <1>1, PlacesFrame DEF TestKill, ReadTimesOut
<1>2. CASE ReportLoss(k)
  <2>1. \A n : Count(uiQueue', Showing(n)) = Count(uiQueue, Showing(n))
    <3>1. uiQueue' = Append(uiQueue, Message("SocketAWOL", 0))
      BY <1>2 DEF ReportLoss
    <3> QED
      BY <3>1, QuietPost, MessageTyped DEF What, Display
  <2> QED
    BY <1>2, <2>1, PlacesFrame DEF ReportLoss
<1>4. CASE ReadThrows(k)
  <2>1. \A n : Count(uiQueue', Showing(n)) = Count(uiQueue, Showing(n))
    <3>1. uiQueue' = Append(uiQueue, Message("DisplayError", 0))
      BY <1>4 DEF ReadThrows
    <3> QED
      BY <3>1, QuietPost, MessageTyped DEF What, Display
  <2>2. PICK d \in 0 .. Len(stream[k]) :
            /\ stream' = [stream EXCEPT ![k] = SubSeq(@, d + 1, Len(@))]
            /\ lost' = [lost EXCEPT ![k] = { stream[k][i].arg : i \in 1 .. d }]
    BY <1>4 DEF ReadThrows
  <2>3. UNCHANGED <<tasks, shown, missed, responses, refused>>
    BY <1>4 DEF ReadThrows
  <2>4. /\ stream \in [Attempt -> Seq(Answer)] /\ stream[k] \in Seq(Answer)
        /\ Len(stream[k]) \in Nat /\ d \in Nat
        /\ lost \in [Attempt -> SUBSET Nat]
    <3>1. stream \in [Attempt -> Seq(Answer)] /\ lost \in [Attempt -> SUBSET Nat]
      BY DEF ClientInv, ClientTypeOK, Answer
    <3> HIDE DEF Answer
    <3>2. stream[k] \in Seq(Answer) /\ Len(stream[k]) \in Nat
      BY <3>1
    <3> QED
      BY <3>1, <3>2
  <2>5. Len(stream[k]) <= responses + One(k, refused)
        /\ responses \in Nat /\ responses <= MaxResponses
        /\ One(k, refused) \in {0, 1} /\ MaxResponses \in Nat
    BY ClientBoundsAssumption DEF PlacesInv, ClientInv, ClientTypeOK, One
  <2>6. Dropped(stream, stream', lost, lost', k, d)
    <3>1. lost[k] = {}
      BY <1>4 DEF LostInv, ReadThrows
    <3>2. /\ stream'[k] = SubSeq(stream[k], d + 1, Len(stream[k]))
          /\ lost'[k] = { stream[k][i].arg : i \in 1 .. d }
          /\ \A j \in Attempt \ {k} : stream'[j] = stream[j] /\ lost'[j] = lost[j]
      <4> HIDE DEF Answer
      <4> QED
        BY <2>2, <2>4
    <3>3. Len(stream[k]) <= MaxResponses + 1
      BY <2>4, <2>5
    <3> QED
      BY <2>4, <3>1, <3>2, <3>3 DEF Dropped
  <2>7. ASSUME NEW n \in Nat \ {0}
        PROVE  Where(n)' = Where(n)
    <3>1. /\ Cardinality(Unread(stream, n)) \in Nat
          /\ Cardinality(Thrown(lost, n)) \in Nat
          /\ Count(uiQueue, Showing(n)) \in Nat
          /\ Count(tasks, Sleeping(n)) \in Nat
          /\ One(n, shown) \in Nat /\ One(n, missed) \in Nat
      BY CountsTyped DEF One
    <3>2. Where(n) <= 1
      BY <2>5 DEF PlacesInv
    <3>3. Cardinality(Unread(stream, n)) + Cardinality(Thrown(lost, n)) <= 1
      BY <3>1, <3>2 DEF Where
    <3>4. Cardinality(Unread(stream', n)) + Cardinality(Thrown(lost', n))
            = Cardinality(Unread(stream, n)) + Cardinality(Thrown(lost, n))
      BY <2>6, <3>3, UnreadDropped
    <3>5. /\ Cardinality(Unread(stream', n)) \in Nat
          /\ Cardinality(Thrown(lost', n)) \in Nat
      BY UnreadType, ThrownType
    <3> DEFINE u  == Cardinality(Unread(stream, n))
               u2 == Cardinality(Unread(stream', n))
               l  == Cardinality(Thrown(lost, n))
               l2 == Cardinality(Thrown(lost', n))
               queued  == Count(uiQueue, Showing(n))
               stalled == Count(tasks, Sleeping(n))
               drawn   == One(n, shown)
               ignored == One(n, missed)
    <3>6. Where(n)' = u2 + queued + stalled + drawn + ignored + l2
      BY <2>1, <2>3 DEF Where
    <3>7. Where(n) = u + queued + stalled + drawn + ignored + l
      BY DEF Where
    <3>8. /\ u \in Nat /\ u2 \in Nat /\ l \in Nat /\ l2 \in Nat
          /\ queued \in Nat /\ stalled \in Nat
          /\ drawn \in Nat /\ ignored \in Nat
          /\ u2 + l2 = u + l
      BY <3>1, <3>4, <3>5
    <3> HIDE DEF u, u2, l, l2, queued, stalled, drawn, ignored
    <3> QED
      BY <3>6, <3>7, <3>8
  <2>8. ASSUME NEW j \in Attempt
        PROVE  /\ Len(stream'[j]) <= responses + One(j, refused)
               /\ \A i \in DOMAIN stream'[j] :
                    stream'[j][i].kind = "error" => stream'[j][i].arg = 0
    <3>1. CASE j # k
      BY <2>6, <3>1 DEF Dropped, PlacesInv
    <3>2. CASE j = k
      <4>1. /\ Len(stream'[k]) = Len(stream[k]) - d
            /\ DOMAIN stream'[k] = 1 .. Len(stream[k]) - d
            /\ \A i \in 1 .. Len(stream[k]) - d :
                    stream'[k][i] = stream[k][i + d]
        <5>1. Rest(stream, stream', k, d)
          BY <2>6, DroppedRest, Zenon
        <5> QED
          BY <5>1 DEF Rest
      <4>2. \A i \in 1 .. Len(stream[k]) - d : i + d \in DOMAIN stream[k]
        BY <2>4
      <4>3. \A i \in DOMAIN stream[k] :
                stream[k][i].kind = "error" => stream[k][i].arg = 0
        BY DEF PlacesInv
      <4>4. Len(stream[k]) - d <= Len(stream[k])
        BY <2>4
      <4>5. ASSUME NEW i \in DOMAIN stream'[k], stream'[k][i].kind = "error"
            PROVE  stream'[k][i].arg = 0
        <5>1. /\ stream'[k][i] = stream[k][i + d]
              /\ i + d \in DOMAIN stream[k]
          BY <4>1, <4>2
        <5> QED
          BY <4>3, <4>5, <5>1
      <4>6. Len(stream'[k]) <= responses + One(k, refused)
        BY <2>4, <2>5, <4>1, <4>4
      <4> QED
        BY <3>2, <4>5, <4>6
    <3> QED
      BY <3>1, <3>2
  <2> QED
    BY <2>3, <2>7, <2>8 DEF PlacesInv
<1>3. CASE ReadResponse(k)
  <2> DEFINE response == Head(stream[k])
             m == Visit(response)
  <2>1. /\ stream \in [Attempt -> Seq(Answer)] /\ stream[k] # << >>
        /\ stream[k] \in Seq(Answer)
        /\ uiQueue' = Append(uiQueue, m)
        /\ stream' = [stream EXCEPT ![k] = Tail(@)]
        /\ UNCHANGED <<tasks, shown, missed, lost, responses, refused>>
    BY <1>3 DEF ReadResponse, ClientInv, ClientTypeOK, Answer
  <2>2. /\ response \in Answer /\ response = stream[k][1]
        /\ Tail(stream[k]) \in Seq(Answer) /\ 1 \in DOMAIN stream[k]
    <3> HIDE DEF Answer
    <3> QED
      BY <2>1, MovesTail
  <2>3. response.kind = "error" => response.arg = 0
    BY <2>2 DEF PlacesInv
  <2>4. /\ m \in Posted /\ m.arg = response.arg
        /\ m.what \in Display <=> response.kind # "error"
    <3> HIDE DEF response
    <3>1. response.kind \in {"login", "message", "error"} /\ response.arg \in Nat
      BY <2>2 DEF Answer, ResponseKind
    <3> QED
      BY <3>1, MessageTyped DEF Visit, What, Display
  <2> HIDE DEF m, response
  <2>5. /\ responses \in Nat /\ responses <= MaxResponses
        /\ Len(stream[k]) <= MaxResponses + 1 /\ Len(stream[k]) \in Nat
    <3>1. responses \in Nat /\ responses <= MaxResponses
      BY ClientBoundsAssumption DEF ClientInv, ClientTypeOK
    <3>2. Len(stream[k]) <= responses + One(k, refused)
      BY DEF PlacesInv
    <3>3. Len(stream[k]) \in Nat
      BY <2>1
    <3> QED
      BY <3>1, <3>2, <3>3, ClientBoundsAssumption DEF One
  <2>6. ASSUME NEW n \in Nat \ {0}
        PROVE  Where(n)' = Where(n)
    <3> DEFINE c == IF response.arg = n THEN 1 ELSE 0
    <3>1. /\ Cardinality(Unread(stream, n)) \in Nat
          /\ Cardinality(Unread(stream', n)) \in Nat
          /\ Cardinality(Thrown(lost, n)) \in Nat
          /\ Count(uiQueue, Showing(n)) \in Nat
          /\ Count(tasks, Sleeping(n)) \in Nat
      BY CountsTyped, UnreadType
    <3>2. Cardinality(Unread(stream', n)) + c = Cardinality(Unread(stream, n))
      <4>1. Shrunk(stream, stream', k)
        BY <2>1, <2>5 DEF Shrunk
      <4>2. Cardinality(Unread(stream', n))
                + (IF Head(stream[k]).arg = n THEN 1 ELSE 0)
                = Cardinality(Unread(stream, n))
        BY <4>1, UnreadTail
      <4> QED
        BY <4>2 DEF response
    <3>3. Count(uiQueue', Showing(n)) = Count(uiQueue, Showing(n)) + c
      <4>1. m \in Showing(n) <=> response.arg = n
        BY <2>3, <2>4 DEF Showing
      <4>2. uiQueue \in Seq(Posted)
        BY CountsTyped
      <4> QED
        BY <2>1, <2>4, <4>1, <4>2, CountAppend DEF One
    <3>4. One(n, shown) \in Nat /\ One(n, missed) \in Nat /\ c \in Nat
      BY DEF One
    <3> HIDE DEF c
    <3> QED
      BY <2>1, <3>1, <3>2, <3>3, <3>4 DEF Where
  <2>7. ASSUME NEW j \in Attempt
        PROVE  /\ Len(stream'[j]) <= responses + One(j, refused)
               /\ \A i \in DOMAIN stream'[j] :
                    stream'[j][i].kind = "error" => stream'[j][i].arg = 0
    <3>1. CASE j # k
      BY <2>1, <3>1 DEF PlacesInv
    <3>2. CASE j = k
      <4>1. stream'[k] = Tail(stream[k])
        BY <2>1
      <4>2. /\ Len(Tail(stream[k])) = Len(stream[k]) - 1
            /\ DOMAIN Tail(stream[k]) = 1 .. Len(stream[k]) - 1
            /\ \A i \in 1 .. Len(stream[k]) - 1 :
                /\ Tail(stream[k])[i] = stream[k][i + 1]
                /\ i + 1 \in DOMAIN stream[k]
        <5> HIDE DEF Answer
        <5> QED
          BY <2>1
      <4>3. /\ Len(stream[k]) <= responses + One(k, refused)
            /\ \A i \in DOMAIN stream[k] :
                stream[k][i].kind = "error" => stream[k][i].arg = 0
        BY DEF PlacesInv
      <4>4. One(k, refused) \in Nat
        BY DEF One
      <4> QED
        BY <2>5, <3>2, <4>1, <4>2, <4>3, <4>4
    <3> QED
      BY <3>1, <3>2
  <2> QED
    BY <2>1, <2>6, <2>7 DEF PlacesInv
<1> QED
  BY <1>1, <1>2, <1>3, <1>4 DEF Reader

LEMMA PlacesServer ==
    ASSUME ClientInv, PlacesInv, NEW k \in Attempt,
           ServerTells(k) \/ ServerRefuses(k) \/ ServerGoes(k)
    PROVE  PlacesInv'
<1> USE DEF historyVars
<1>1. /\ stream \in [Attempt -> Seq(Answer)] /\ stream[k] \in Seq(Answer)
      /\ Len(stream[k]) \in Nat
      /\ responses \in Nat /\ responses <= MaxResponses
      /\ MaxResponses \in Nat
  <2>1. stream \in [Attempt -> Seq(Answer)]
    BY DEF ClientInv, ClientTypeOK, Answer
  <2>2. stream[k] \in Seq(Answer) /\ Len(stream[k]) \in Nat
    <3> HIDE DEF Answer
    <3> QED
      BY <2>1
  <2>3. responses \in 0 .. MaxResponses
    BY DEF ClientInv, ClientTypeOK
  <2> QED
    BY <2>1, <2>2, <2>3, ClientBoundsAssumption
<1>2. CASE ServerGoes(k)
  BY <1>2, PlacesFrame DEF ServerGoes
<1>3. ASSUME NEW r \in Answer, stream' = [stream EXCEPT ![k] = Append(@, r)],
             Len(stream[k]) <= MaxResponses,
             r.kind = "error" => r.arg = 0
      PROVE  /\ \A n : Cardinality(Unread(stream', n))
                    = Cardinality(Unread(stream, n))
                        + (IF r.arg = n THEN 1 ELSE 0)
             /\ Len(stream'[k]) = Len(stream[k]) + 1
             /\ \A j \in Attempt : \A i \in DOMAIN stream'[j] :
                    stream'[j][i].kind = "error" => stream'[j][i].arg = 0
  <2>1. /\ stream'[k] = Append(stream[k], r)
        /\ \A j \in Attempt \ {k} : stream'[j] = stream[j]
    BY <1>1, <1>3
  <2>2. /\ Len(stream'[k]) = Len(stream[k]) + 1
        /\ DOMAIN stream'[k] = 1 .. Len(stream[k]) + 1
        /\ DOMAIN stream[k] = 1 .. Len(stream[k])
        /\ \A i \in 1 .. Len(stream[k]) : stream'[k][i] = stream[k][i]
        /\ stream'[k][Len(stream[k]) + 1] = r
    <3> HIDE DEF Answer
    <3> QED
      BY <1>1, <2>1
  <2>3. \A i \in 1 .. Len(stream[k]) + 1 :
            i \in 1 .. Len(stream[k]) \/ i = Len(stream[k]) + 1
    BY <1>1
  <2>4. \A j \in Attempt : \A i \in DOMAIN stream'[j] :
            stream'[j][i].kind = "error" => stream'[j][i].arg = 0
    BY <1>3, <2>1, <2>2, <2>3 DEF PlacesInv
  <2>5. ASSUME NEW n
        PROVE  Cardinality(Unread(stream', n))
                    = Cardinality(Unread(stream, n))
                        + (IF r.arg = n THEN 1 ELSE 0)
    <3>1. Grown(stream, stream', k, r)
      BY <1>1, <1>3, <2>1 DEF Grown
    <3> QED
      BY <3>1, UnreadAppend
  <2> QED
    BY <2>2, <2>4, <2>5
<1>4. CASE ServerTells(k)
  <2>1. PICK kind \in {"login", "message"} :
            stream' = [stream EXCEPT ![k] =
                        Append(@, [kind |-> kind, arg |-> responses + 1])]
    BY <1>4 DEF ServerTells
  <2> DEFINE r == [kind |-> kind, arg |-> responses + 1]
  <2>2. r \in Answer /\ r.kind # "error" /\ r.arg = responses + 1
    BY <1>1 DEF ResponseKind, Answer
  <2>3. /\ responses < MaxResponses /\ responses' = responses + 1
        /\ UNCHANGED <<uiQueue, tasks, refused, shown, missed, lost>>
    BY <1>4 DEF ServerTells
  <2> HIDE DEF r
  <2>4. Len(stream[k]) <= MaxResponses
    BY <1>1, <2>3 DEF PlacesInv, One
  <2>5. /\ \A n : Cardinality(Unread(stream', n))
                = Cardinality(Unread(stream, n)) + (IF r.arg = n THEN 1 ELSE 0)
        /\ Len(stream'[k]) = Len(stream[k]) + 1
        /\ \A j \in Attempt : \A i \in DOMAIN stream'[j] :
                stream'[j][i].kind = "error" => stream'[j][i].arg = 0
    BY <1>3, <2>1, <2>2, <2>4 DEF r
  <2>6. ASSUME NEW n \in Nat \ {0}
        PROVE  Where(n)' = IF n <= responses + 1 THEN 1 ELSE 0
    <3>1. /\ Cardinality(Unread(stream, n)) \in Nat
          /\ Cardinality(Thrown(lost, n)) \in Nat
          /\ Count(uiQueue, Showing(n)) \in Nat
          /\ Count(tasks, Sleeping(n)) \in Nat
      BY CountsTyped
    <3>2. One(n, shown) \in Nat /\ One(n, missed) \in Nat
      BY DEF One
    <3>3. Where(n)' = Where(n) + (IF n = responses + 1 THEN 1 ELSE 0)
      <4>1. Cardinality(Unread(stream', n)) = Cardinality(Unread(stream, n))
                + (IF n = responses + 1 THEN 1 ELSE 0)
        BY <2>2, <2>5
      <4>2. Where(n)' = Cardinality(Unread(stream', n))
                + Count(uiQueue, Showing(n)) + Count(tasks, Sleeping(n))
                + One(n, shown) + One(n, missed)
                + Cardinality(Thrown(lost, n))
        BY <2>3 DEF Where
      <4> QED
        BY <3>1, <3>2, <4>1, <4>2 DEF Where
    <3>4. Where(n) = IF n <= responses THEN 1 ELSE 0
      BY DEF PlacesInv
    <3> QED
      BY <1>1, <3>3, <3>4
  <2>7. ASSUME NEW j \in Attempt
        PROVE  Len(stream'[j]) <= responses + 1 + One(j, refused)
    <3>1. Len(stream[j]) <= responses + One(j, refused)
      BY DEF PlacesInv
    <3>2. Len(stream[j]) \in Nat /\ One(j, refused) \in Nat
      BY <1>1 DEF One
    <3>3. Len(stream'[j]) <= Len(stream[j]) + 1
      BY <1>1, <2>1, <2>5, <3>2
    <3> QED
      BY <1>1, <2>5, <3>1, <3>2, <3>3
  <2> QED
    BY <2>3, <2>5, <2>6, <2>7 DEF PlacesInv
<1>5. CASE ServerRefuses(k)
  <2> DEFINE r == [kind |-> "error", arg |-> 0]
  <2>1. /\ stream' = [stream EXCEPT ![k] = Append(@, r)]
        /\ k \notin refused /\ refused' = refused \cup {k}
        /\ UNCHANGED <<uiQueue, tasks, responses, shown, missed, lost>>
    BY <1>5 DEF ServerRefuses
  <2>2. r \in Answer /\ r.arg = 0
    BY DEF ResponseKind, Answer
  <2> HIDE DEF r
  <2>3. Len(stream[k]) <= responses
    BY <1>1, <2>1 DEF PlacesInv, One
  <2>4. /\ \A n : Cardinality(Unread(stream', n))
                = Cardinality(Unread(stream, n)) + (IF r.arg = n THEN 1 ELSE 0)
        /\ Len(stream'[k]) = Len(stream[k]) + 1
        /\ \A j \in Attempt : \A i \in DOMAIN stream'[j] :
                stream'[j][i].kind = "error" => stream'[j][i].arg = 0
    <3>1. Len(stream[k]) <= MaxResponses
      BY <1>1, <2>3
    <3> QED
      BY <1>3, <2>1, <2>2, <3>1
  <2>5. ASSUME NEW n \in Nat \ {0}
        PROVE  Where(n)' = Where(n)
    <3>1. Cardinality(Unread(stream, n)) \in Nat
      BY CountsTyped
    <3>2. Cardinality(Unread(stream', n)) = Cardinality(Unread(stream, n))
      BY <2>2, <2>4, <3>1
    <3> QED
      BY <2>1, <3>2 DEF Where
  <2>6. ASSUME NEW j \in Attempt
        PROVE  Len(stream'[j]) <= responses + One(j, refused')
    <3>1. CASE j = k
      BY <1>1, <2>1, <2>3, <2>4, <3>1 DEF One
    <3>2. CASE j # k
      <4>1. stream'[j] = stream[j] /\ One(j, refused') = One(j, refused)
        BY <1>1, <2>1, <3>2 DEF One
      <4> QED
        BY <4>1 DEF PlacesInv
    <3> QED
      BY <3>1, <3>2
  <2> QED
    BY <2>1, <2>4, <2>5, <2>6 DEF PlacesInv
<1> QED
  BY <1>2, <1>4, <1>5

LEMMA PlacesNext ==
    ClientInv /\ PlacesInv /\ LostInv /\ [Next]_vars => PlacesInv'
<1> SUFFICES ASSUME ClientInv, PlacesInv, LostInv, [Next]_vars PROVE PlacesInv'
  OBVIOUS
<1>1. CASE FinishClose \/ UNCHANGED vars
  BY <1>1, PlacesFrame DEF FinishClose, vars, serverVars, historyVars
<1>2. CASE UiThread
  BY <1>1, <1>2, PlacesSends, PlacesOther, PlacesDisplays DEF UiThread
<1>3. CASE Executor
  BY <1>3, PlacesExecutor DEF Executor
<1>4. CASE \E k \in Attempt : Reader(k)
  BY <1>4, PlacesReader
<1>5. CASE Environment
  BY <1>5, PlacesUser, PlacesServer DEF Environment
<1> QED
  BY <1>1, <1>2, <1>3, <1>4, <1>5 DEF Next

(***************************************************************************)
(* ResponseThread, Handler, the stalling AsyncTask: whatever the number of *)
(* connections and responses, each response to everybody is in exactly one *)
(* place from the moment the server sends it.  None is lost between        *)
(* reader, message queue and executor, and none shown twice; what a read   *)
(* that throws takes with it is lost, and that read is the last of its     *)
(* connection.                                                             *)
(***************************************************************************)
THEOREM ResponsesAreAccounted == Spec => []ResponsesAccounted
<1>1. ClientInv /\ PlacesInv /\ LostInv => ResponsesAccounted
  <2> SUFFICES ASSUME ClientInv, PlacesInv, LostInv, NEW n \in 1 .. responses
               PROVE  Places(n) = 1
    BY DEF ResponsesAccounted, LostInv
  <2>1. n \in Nat \ {0} /\ n <= responses /\ responses \in Nat
    BY ClientBoundsAssumption DEF ClientInv, ClientTypeOK
  <2>2. Where(n) = 1
    BY <2>1 DEF PlacesInv
  <2>3. Held(uiQueue, Showing(n)) =
            { i \in DOMAIN uiQueue :
                uiQueue[i].what \in Display /\ uiQueue[i].arg = n }
    BY CountsTyped, SeqElement DEF Held, Showing
  <2>4. Held(tasks, Sleeping(n)) =
            { i \in DOMAIN tasks :
                tasks[i].kind \in Display /\ tasks[i].arg = n }
    BY CountsTyped, SeqElement DEF Held, Sleeping
  <2>5. \A S : Cardinality({n} \cap S) = One(n, S)
    <3> TAKE S
    <3>1. {n} \cap S = IF n \in S THEN {n} ELSE {}
      OBVIOUS
    <3> QED
      BY <3>1, FS_EmptySet, FS_Singleton DEF One
  <2>6. Places(n) = Where(n)
    BY <2>3, <2>4, <2>5 DEF Places, Where, Count, Unread, Thrown
  <2> QED
    BY <2>2, <2>6
<1> QED
  BY <1>1, PlacesInit, PlacesNext, LostInit, LostNext, ClientInvariant, PTL
  DEF Spec
=============================================================================
