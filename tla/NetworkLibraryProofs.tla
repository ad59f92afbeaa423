-------------------------- MODULE NetworkLibraryProofs --------------------------
(***************************************************************************)
(* What NetworkLibrary promises, for any sockets and any descriptor limit: *)
(* numbers that change hands are never taken for those they were.          *)
(***************************************************************************)
EXTENDS NetworkLibrary, TLAPS

\* A number is given to an object that had none, and is in its field while
\* the object is open.
NumbersFollowObjects ==
    /\ \A s \in open : life[s] = "live"
    /\ \A f \in Fd : table[f] \in Sock => life[table[f]] # "unborn"
    /\ \A f \in Fd : table[f] \in open => fd[table[f]] = f

\* The set that select() is about to get names nothing that is closed,
\* unless somebody closed it after the set was built.
SetIsFresh ==
    /\ master => serverFd # NoFd
    /\ pc = "built" /\ ~meddled => \A f \in fdSet : table[f] # "free"

\* A number of a socket that is not open is that of a connection that ended,
\* and the waiter has the number of the only event.
NumbersStay ==
    /\ \A f \in Fd : table[f] \in Sock \ open => stream[table[f]] = "end"
    /\ \A f \in Fd : table[f] = "event" => f = killFd

\* A handler is called for a socket only from inside of wait().
CalledInWait == pc # "handling" => cur = Nobody

IInv ==
    /\ TypeOK
    /\ OpenOwnsNumber
    /\ NumbersStay
    /\ WaitThrowsHasCause
    /\ NumbersFollowObjects
    /\ SetIsFresh
    /\ CalledInWait

-----------------------------------------------------------------------------
\* What every action leaves alone, in terms of variables.
USE DEF NoneOfSockets, NoneOfWaiter, WithoutMeddling,
        socketVars, serverVars, setVars, waitVars

\* No socket is the listener, the event, a free entry or nobody.
LEMMA NotSockets ==
    /\ "free" \notin Sock /\ "listener" \notin Sock
    /\ "event" \notin Sock /\ "nobody" \notin Sock
BY SockAssumption

\* The table after a number was given out, and after one was given back.
LEMMA Allocated ==
    ASSUME NEW owner, NEW f \in Fd, TypeOK, Allocate(owner, f)
    PROVE  /\ table[f] = "free"
           /\ table' = [table EXCEPT ![f] = owner]
           /\ table'[f] = owner
           /\ \A g \in Fd \ {f} : table'[g] = table[g]
BY DEF TypeOK, Allocate, Free

LEMMA GivenBack ==
    ASSUME NEW f \in Fd, TypeOK, CloseNumber(f)
    PROVE  /\ table' = [table EXCEPT ![f] = "free"]
           /\ table'[f] = "free"
           /\ \A g \in Fd \ {f} : table'[g] = table[g]
           /\ meddled' = (meddled \/ (pc = "built" /\ f \in fdSet))
BY DEF TypeOK, CloseNumber

\* A number that is free is nobody's, and nobody shares one.
LEMMA FreeIsNobodys ==
    ASSUME IInv, NEW f \in Fd, table[f] = "free"
    PROVE  f # killFd /\ f # serverFd /\ \A s \in open : fd[s] # f
BY FdAssumption, NotSockets DEF IInv, TypeOK, OpenOwnsNumber, NoFd

\* A number belongs to at most one open socket.
LEMMA OneSocketEach ==
    ASSUME IInv, NEW s \in open
    PROVE  /\ s \in Sock /\ fd[s] \in Fd
           /\ fd[s] # killFd /\ fd[s] # serverFd
           /\ \A t \in open \ {s} : fd[t] # fd[s]
<1>1. s \in Sock /\ fd[s] \in Fd /\ table[fd[s]] = s
  BY DEF IInv, TypeOK, OpenOwnsNumber
<1>2. fd[s] # killFd /\ fd[s] # serverFd
  BY <1>1, FdAssumption, NotSockets DEF IInv, OpenOwnsNumber, NoFd
<1>3. \A t \in open \ {s} : fd[t] # fd[s]
  BY <1>1 DEF IInv, OpenOwnsNumber
<1> QED
  BY <1>1, <1>2, <1>3

\* The event's number is no socket's and not the listener's.
LEMMA OneEvent ==
    ASSUME IInv, killFd # NoFd
    PROVE  /\ killFd \in Fd /\ killFd # serverFd
           /\ \A s \in open : fd[s] # killFd
BY FdAssumption, NotSockets DEF IInv, TypeOK, OpenOwnsNumber, NoFd

\* Whoever did not have the number that changed hands keeps his.
LEMMA OwnersStay ==
    ASSUME IInv, NEW f \in Fd, \A g \in Fd \ {f} : table'[g] = table[g]
    PROVE  /\ killFd \notin {NoFd, f} => table'[killFd] = "event"
           /\ serverFd \notin {NoFd, f} => table'[serverFd] = "listener"
           /\ \A s \in open :
                 fd[s] # f => fd[s] \in Fd /\ table'[fd[s]] = s
BY DEF IInv, TypeOK, OpenOwnsNumber

\* Every step of the library keeps the types.
LEMMA TypeStep ==
    IInv /\ [Next]_vars => TypeOK'
<1> SUFFICES ASSUME IInv, [Next]_vars PROVE TypeOK'
  OBVIOUS
<1> USE FdAssumption, NotSockets
    DEF IInv, TypeOK, NoFd, Other, Nobody, Free, OpenOwnsNumber, SetIsFresh
<1>1. CASE Peer
  BY <1>1 DEF Peer
<1>2. ASSUME NEW s \in Sock, Connect(s) PROVE TypeOK'
  BY <1>2 DEF Connect, Construct, Allocate
<1>3. ASSUME NEW s \in Sock, WriteFails(s) PROVE TypeOK'
  BY <1>3 DEF WriteFails
<1>4. ASSUME NEW s \in Sock, Close(s) PROVE TypeOK'
  <2>1. CASE s \in open
    <3>1. CloseNumber(fd[s]) /\ open' = open \ {s}
      BY <1>4, <2>1 DEF Close, Shut
    <3> QED
      BY <1>4, <2>1, <3>1 DEF Close, Shut, CloseNumber
  <2>2. CASE s \notin open
    BY <1>4, <2>2 DEF Close, Shut
  <2> QED
    BY <2>1, <2>2
<1>5. ASSUME NEW s \in Sock, Destroy(s) PROVE TypeOK'
  <2>1. CASE s \in open
    <3>1. CloseNumber(fd[s]) /\ open' = open \ {s}
      BY <1>5, <2>1 DEF Destroy, Shut
    <3> QED
      BY <1>5, <2>1, <3>1 DEF Destroy, Shut, CloseNumber
  <2>2. CASE s \notin open
    BY <1>5, <2>2 DEF Destroy, Shut
  <2> QED
    BY <2>1, <2>2
<1>6. CASE Serve
  BY <1>6 DEF Serve, Allocate
<1>7. CASE StopServing
  BY <1>7 DEF StopServing
<1>8. CASE Kill
  BY <1>8 DEF Kill
<1>9. ASSUME NEW s \in Sock, Accept(s) PROVE TypeOK'
  BY <1>9 DEF Accept, Construct, Allocate
<1>10. ASSUME NEW s \in Sock, Read(s) PROVE TypeOK'
  BY <1>10 DEF Read
<1>11. ASSUME NEW s \in Sock, AddSocket(s) PROVE TypeOK'
  BY <1>11 DEF AddSocket
<1>12. ASSUME NEW s \in Sock, RemoveSocket(s) PROVE TypeOK'
  BY <1>12 DEF RemoveSocket
<1>13. CASE SetServer
  BY <1>13 DEF SetServer
<1>14. CASE DestroyWaiter
  BY <1>14 DEF DestroyWaiter, CloseNumber
<1>15. CASE BuildSet
  <2>1. Watched \subseteq Fd
    BY DEF Watched
  <2> QED
    BY <1>15, <2>1 DEF BuildSet
<1>16. CASE EnterSelect
  <2>1. CASE killFd # NoFd
    <3>1. killFd' = killFd /\ table' = table /\ UNCHANGED <<setVars, signal>>
      BY <1>16, <2>1 DEF EnterSelect, EventNumber
    <3> QED
      BY <1>16, <2>1, <3>1 DEF EnterSelect, Calls
  <2>2. ASSUME NEW f \in Fd, killFd = NoFd, Allocate("event", f), killFd' = f
        PROVE TypeOK'
    <3>1. table' \in [Fd -> Sock \cup Other]
      BY <2>2, Allocated
    <3>2. /\ fdSet' \subseteq Fd
          /\ forever' \in BOOLEAN
          /\ pc' \in {"blocked", "threw"}
      BY <1>16, <2>2 DEF EnterSelect, Calls
    <3> QED
      BY <1>16, <2>2, <3>1, <3>2 DEF EnterSelect
  <2>3. CASE killFd = NoFd /\ UNCHANGED <<table, killFd>>
    BY <1>16, <2>3 DEF EnterSelect, Calls
  <2> QED
    BY <1>16, <2>1, <2>2, <2>3 DEF EnterSelect, EventNumber
<1>17. CASE LeaveSelect
  <2>1. /\ signal' = FALSE \/ UNCHANGED signal
        /\ \/ Returns("idle", Nobody) \/ Returns("handling", Nobody)
           \/ \E s \in sockets : Returns("handling", s)
    BY <1>17, Zenon DEF LeaveSelect, SelectReturns, Dispatch
  <2>2. /\ pc' \in {"idle", "handling"} /\ cur' \in sockets \cup {Nobody}
        /\ fdSet' = {} /\ forever' = FALSE /\ meddled' = FALSE
    BY <2>1 DEF Returns
  <2> QED
    BY <1>17, <2>1, <2>2 DEF LeaveSelect, SelectReturns
<1>18. CASE HandlerReturns
  BY <1>18 DEF HandlerReturns
<1>19. CASE UNCHANGED vars
  BY <1>19 DEF vars
<1> QED
  BY <1>1, <1>2, <1>3, <1>4, <1>5, <1>6, <1>7, <1>8, <1>9, <1>10, <1>11,
     <1>12, <1>13, <1>14, <1>15, <1>16, <1>17, <1>18, <1>19
     DEF Next, AnyThread, WaitingThread, Wait

\* No step closes or gives out a number that is in use.
LEMMA OwnStep ==
    IInv /\ [Next]_vars => OpenOwnsNumber'
<1> SUFFICES ASSUME IInv, [Next]_vars PROVE OpenOwnsNumber'
  OBVIOUS
<1>0. TypeOK /\ OpenOwnsNumber
  BY DEF IInv
<1> USE <1>0, FdAssumption, NotSockets DEF TypeOK, OpenOwnsNumber, NoFd
<1>1. CASE Peer
  BY <1>1 DEF Peer
<1>2. ASSUME NEW s \in Sock, Connect(s) PROVE OpenOwnsNumber'
  <2>1. ASSUME NEW f \in Fd, Construct(s, f) PROVE OpenOwnsNumber'
    <3>1. Allocate(s, f)
      BY <2>1 DEF Construct
    <3>2. f # killFd /\ f # serverFd /\ \A t \in open : fd[t] # f
      BY <3>1, Allocated, FreeIsNobodys
    <3>3. table'[f] = s /\ \A g \in Fd \ {f} : table'[g] = table[g]
      BY <3>1, Allocated
    <3> QED
      BY <1>2, <2>1, <3>2, <3>3, OwnersStay DEF Connect, Construct
  <2>2. ASSUME NEW f \in Fd, Allocate(s, f), UNCHANGED <<fd, open>>
        PROVE OpenOwnsNumber'
    <3>1. f # killFd /\ f # serverFd /\ \A t \in open : fd[t] # f
      BY <2>2, Allocated, FreeIsNobodys
    <3>2. \A g \in Fd \ {f} : table'[g] = table[g]
      BY <2>2, Allocated
    <3> QED
      BY <1>2, <2>2, <3>1, <3>2, OwnersStay DEF Connect
  <2> QED
    BY <1>2, <2>1, <2>2 DEF Connect
<1>3. ASSUME NEW s \in Sock, WriteFails(s) PROVE OpenOwnsNumber'
  BY <1>3 DEF WriteFails
<1>4. ASSUME NEW s \in Sock, Close(s) PROVE OpenOwnsNumber'
  <2>1. CASE s \in open
    <3>1. CloseNumber(fd[s]) /\ open' = open \ {s}
      BY <1>4, <2>1 DEF Close, Shut
    <3>2. /\ fd[s] \in Fd /\ fd[s] # killFd /\ fd[s] # serverFd
          /\ \A t \in open \ {s} : fd[t] # fd[s]
      BY <2>1, OneSocketEach
    <3>3. \A g \in Fd \ {fd[s]} : table'[g] = table[g]
      BY <3>1, <3>2, GivenBack
    <3>4. /\ \A t \in open' : fd[t] \in Fd /\ table'[fd[t]] = t
          /\ killFd # NoFd => table'[killFd] = "event"
          /\ serverFd # NoFd => table'[serverFd] = "listener"
      BY <3>1, <3>2, <3>3, OwnersStay
    <3>5. /\ UNCHANGED <<killFd, serverFd>>
          /\ \A t \in open' : fd'[t] = fd[t]
      BY <1>4, <3>1 DEF Close
    <3> QED
      BY <3>4, <3>5
  <2>2. CASE s \notin open
    BY <1>4, <2>2 DEF Close, Shut
  <2> QED
    BY <2>1, <2>2
<1>5. ASSUME NEW s \in Sock, Destroy(s) PROVE OpenOwnsNumber'
  <2>1. CASE s \in open
    <3>1. CloseNumber(fd[s]) /\ open' = open \ {s}
      BY <1>5, <2>1 DEF Destroy, Shut
    <3>2. /\ fd[s] \in Fd /\ fd[s] # killFd /\ fd[s] # serverFd
          /\ \A t \in open \ {s} : fd[t] # fd[s]
      BY <2>1, OneSocketEach
    <3>3. \A g \in Fd \ {fd[s]} : table'[g] = table[g]
      BY <3>1, <3>2, GivenBack
    <3>4. /\ \A t \in open' : fd[t] \in Fd /\ table'[fd[t]] = t
          /\ killFd # NoFd => table'[killFd] = "event"
          /\ serverFd # NoFd => table'[serverFd] = "listener"
      BY <3>1, <3>2, <3>3, OwnersStay
    <3>5. /\ UNCHANGED <<killFd, serverFd>>
          /\ \A t \in open' : fd'[t] = fd[t]
      BY <1>5, <3>1 DEF Destroy
    <3> QED
      BY <3>4, <3>5
  <2>2. CASE s \notin open
    BY <1>5, <2>2 DEF Destroy, Shut
  <2> QED
    BY <2>1, <2>2
<1>6. CASE Serve
  <2>1. PICK f \in Fd : /\ Allocate("listener", f)
                        /\ serverFd' \in {f, serverFd}
    BY <1>6 DEF Serve
  <2>2. f # killFd /\ f # serverFd /\ \A s \in open : fd[s] # f
    BY <2>1, Allocated, FreeIsNobodys
  <2>3. table'[f] = "listener" /\ \A g \in Fd \ {f} : table'[g] = table[g]
    BY <2>1, Allocated
  <2> QED
    BY <1>6, <2>1, <2>2, <2>3, OwnersStay DEF Serve
<1>7. CASE StopServing
  BY <1>7 DEF StopServing
<1>8. CASE Kill
  BY <1>8 DEF Kill
<1>9. ASSUME NEW s \in Sock, Accept(s) PROVE OpenOwnsNumber'
  <2>1. PICK f \in Fd : Construct(s, f)
    BY <1>9 DEF Accept
  <2>2. Allocate(s, f)
    BY <2>1 DEF Construct
  <2>3. f # killFd /\ f # serverFd /\ \A t \in open : fd[t] # f
    BY <2>2, Allocated, FreeIsNobodys
  <2>4. table'[f] = s /\ \A g \in Fd \ {f} : table'[g] = table[g]
    BY <2>2, Allocated
  <2> QED
    BY <1>9, <2>1, <2>3, <2>4, OwnersStay DEF Accept, Construct
<1>10. ASSUME NEW s \in Sock, Read(s) PROVE OpenOwnsNumber'
  BY <1>10 DEF Read
<1>11. ASSUME NEW s \in Sock, AddSocket(s) PROVE OpenOwnsNumber'
  BY <1>11 DEF AddSocket
<1>12. ASSUME NEW s \in Sock, RemoveSocket(s) PROVE OpenOwnsNumber'
  BY <1>12 DEF RemoveSocket
<1>13. CASE SetServer
  BY <1>13 DEF SetServer
<1>14. CASE DestroyWaiter
  <2>1. CASE killFd # NoFd
    <3>1. killFd \in Fd /\ killFd # serverFd /\ \A s \in open : fd[s] # killFd
      BY <2>1, OneEvent
    <3>2. CloseNumber(killFd)
      BY <1>14, <2>1 DEF DestroyWaiter
    <3>3. \A g \in Fd \ {killFd} : table'[g] = table[g]
      BY <3>1, <3>2, GivenBack
    <3> QED
      BY <1>14, <3>1, <3>3, OwnersStay DEF DestroyWaiter
  <2>2. CASE killFd = NoFd
    BY <1>14, <2>2 DEF DestroyWaiter
  <2> QED
    BY <2>1, <2>2
<1>15. CASE BuildSet
  BY <1>15 DEF BuildSet, Watched
<1>16. CASE EnterSelect
  <2>1. CASE killFd # NoFd
    <3>1. killFd' = killFd /\ table' = table /\ UNCHANGED <<setVars, signal>>
      BY <1>16, <2>1 DEF EnterSelect, EventNumber
    <3> QED
      BY <1>16, <2>1, <3>1 DEF EnterSelect, Calls
  <2>2. ASSUME NEW f \in Fd, killFd = NoFd, Allocate("event", f), killFd' = f
        PROVE OpenOwnsNumber'
    <3>1. f # serverFd /\ \A s \in open : fd[s] # f
      BY <2>2, Allocated, FreeIsNobodys
    <3>2. table'[f] = "event" /\ \A g \in Fd \ {f} : table'[g] = table[g]
      BY <2>2, Allocated
    <3> QED
      BY <1>16, <2>2, <3>1, <3>2, OwnersStay DEF EnterSelect
  <2>3. CASE killFd = NoFd /\ UNCHANGED <<table, killFd>>
    BY <1>16, <2>3 DEF EnterSelect, Calls
  <2> QED
    BY <1>16, <2>1, <2>2, <2>3 DEF EnterSelect, EventNumber
<1>17. CASE LeaveSelect
  BY <1>17 DEF LeaveSelect, SelectReturns, Dispatch, Returns
<1>18. CASE HandlerReturns
  BY <1>18 DEF HandlerReturns
<1>19. CASE UNCHANGED vars
  BY <1>19 DEF vars
<1> QED
  BY <1>1, <1>2, <1>3, <1>4, <1>5, <1>6, <1>7, <1>8, <1>9, <1>10, <1>11,
     <1>12, <1>13, <1>14, <1>15, <1>16, <1>17, <1>18, <1>19
     DEF Next, AnyThread, WaitingThread, Wait

\* A step that forgets a number is that of a connection that ended.
LEMMA LostStep ==
    IInv /\ [Next]_vars => NumbersStay'
<1> SUFFICES ASSUME IInv, [Next]_vars PROVE NumbersStay'
  OBVIOUS
<1> USE FdAssumption, NotSockets
    DEF IInv, TypeOK, NoFd, Other, Nobody, Free, OpenOwnsNumber,
                                   NumbersFollowObjects, NumbersStay
<1>1. CASE Peer
  BY <1>1 DEF Peer
<1>2. ASSUME NEW s \in Sock, Connect(s) PROVE NumbersStay'
  BY <1>2 DEF Connect, Construct, Allocate
<1>3. ASSUME NEW s \in Sock, WriteFails(s) PROVE NumbersStay'
  BY <1>3 DEF WriteFails
<1>4. ASSUME NEW s \in Sock, Close(s) PROVE NumbersStay'
  BY <1>4 DEF Close, Shut, CloseNumber
<1>5. ASSUME NEW s \in Sock, Destroy(s) PROVE NumbersStay'
  BY <1>5 DEF Destroy, Shut, CloseNumber
<1>6. CASE Serve
  <2>1. PICK f \in Fd : Allocate("listener", f)
    BY <1>6 DEF Serve
  <2>2. /\ table'[f] \notin Sock \cup {"event"}
        /\ \A g \in Fd \ {f} : table'[g] = table[g]
    BY <2>1, Allocated
  <2> QED
    <3>1. UNCHANGED <<open, stream, killFd>>
      BY <1>6 DEF Serve
    <3>2. \A g \in Fd :
            table'[g] \in Sock \cup {"event"} => table'[g] = table[g]
      BY <2>2
    <3> QED
      BY <3>1, <3>2
<1>7. CASE StopServing
  BY <1>7 DEF StopServing
<1>8. CASE Kill
  BY <1>8 DEF Kill
<1>9. ASSUME NEW s \in Sock, Accept(s) PROVE NumbersStay'
  <2>1. PICK f \in Fd : Construct(s, f)
    BY <1>9 DEF Accept
  <2>2. /\ table' = [table EXCEPT ![f] = s]
        /\ open' = open \cup {s}
        /\ UNCHANGED <<stream, killFd>>
    BY <1>9, <2>1, Allocated DEF Accept, Construct
  <2> QED
    BY <2>2
<1>10. ASSUME NEW s \in Sock, Read(s) PROVE NumbersStay'
  BY <1>10 DEF Read
<1>11. ASSUME NEW s \in Sock, AddSocket(s) PROVE NumbersStay'
  BY <1>11 DEF AddSocket
<1>12. ASSUME NEW s \in Sock, RemoveSocket(s) PROVE NumbersStay'
  BY <1>12 DEF RemoveSocket
<1>13. CASE SetServer
  BY <1>13 DEF SetServer
<1>14. CASE DestroyWaiter
  BY <1>14 DEF DestroyWaiter, CloseNumber
<1>15. CASE BuildSet
  BY <1>15 DEF BuildSet, Watched
<1>16. CASE EnterSelect
  BY <1>16 DEF EnterSelect, EventNumber, Calls, Allocate
<1>17. CASE LeaveSelect
  BY <1>17 DEF LeaveSelect, SelectReturns, Dispatch, Returns
<1>18. CASE HandlerReturns
  BY <1>18 DEF HandlerReturns
<1>19. CASE UNCHANGED vars
  BY <1>19 DEF vars
<1> QED
  BY <1>1, <1>2, <1>3, <1>4, <1>5, <1>6, <1>7, <1>8, <1>9, <1>10, <1>11,
     <1>12, <1>13, <1>14, <1>15, <1>16, <1>17, <1>18, <1>19
     DEF Next, AnyThread, WaitingThread, Wait

\* select() does not fail for a set whose numbers are all in use by then.
LEMMA NoneIsFree ==
    ASSUME NEW set, \A f \in set : table'[f] # "free"
    PROVE  set \cap Free' = {}
<1>1. \A f \in Free' : table'[f] = "free"
  BY DEF Free
<1> QED
  BY <1>1

\* A wait that throws had a cause.
LEMMA ThrowStep ==
    IInv /\ [Next]_vars => WaitThrowsHasCause'
<1> SUFFICES ASSUME IInv, [Next]_vars PROVE WaitThrowsHasCause'
  OBVIOUS
<1> USE FdAssumption, NotSockets
    DEF IInv, TypeOK, NoFd, Other, Nobody, Free, OpenOwnsNumber,
                                   SetIsFresh, WaitThrowsHasCause
<1>1. CASE Peer
  BY <1>1 DEF Peer
<1>2. ASSUME NEW s \in Sock, Connect(s) PROVE WaitThrowsHasCause'
  BY <1>2 DEF Connect, Construct, Allocate
<1>3. ASSUME NEW s \in Sock, WriteFails(s) PROVE WaitThrowsHasCause'
  BY <1>3 DEF WriteFails
<1>4. ASSUME NEW s \in Sock, Close(s) PROVE WaitThrowsHasCause'
  BY <1>4 DEF Close, Shut, CloseNumber
<1>5. ASSUME NEW s \in Sock, Destroy(s) PROVE WaitThrowsHasCause'
  BY <1>5 DEF Destroy, Shut, CloseNumber
<1>6. CASE Serve
  BY <1>6 DEF Serve, Allocate
<1>7. CASE StopServing
  BY <1>7 DEF StopServing
<1>8. CASE Kill
  BY <1>8 DEF Kill
<1>9. ASSUME NEW s \in Sock, Accept(s) PROVE WaitThrowsHasCause'
  BY <1>9 DEF Accept, Construct, Allocate
<1>10. ASSUME NEW s \in Sock, Read(s) PROVE WaitThrowsHasCause'
  BY <1>10 DEF Read
<1>11. ASSUME NEW s \in Sock, AddSocket(s) PROVE WaitThrowsHasCause'
  BY <1>11 DEF AddSocket
<1>12. ASSUME NEW s \in Sock, RemoveSocket(s) PROVE WaitThrowsHasCause'
  BY <1>12 DEF RemoveSocket
<1>13. CASE SetServer
  BY <1>13 DEF SetServer
<1>14. CASE DestroyWaiter
  BY <1>14 DEF DestroyWaiter, CloseNumber
<1>15. CASE BuildSet
  BY <1>15 DEF BuildSet, Watched
<1>16. CASE EnterSelect
  <2>1. CASE killFd # NoFd
    <3>1. killFd' = killFd /\ table' = table /\ UNCHANGED <<setVars, signal>>
      BY <1>16, <2>1 DEF EnterSelect, EventNumber
    <3>2. table[killFd] = "event" /\ pc = "built"
      BY <1>16, <2>1 DEF EnterSelect
    <3>3. ~meddled => (fdSet \cup {killFd}) \cap Free' = {}
      <4>1. ~meddled => \A f \in fdSet \cup {killFd} : table[f] # "free"
        BY <3>2
      <4> QED
        BY <3>1, <4>1, NoneIsFree
    <3>4. pc' = "threw" => (fdSet \cup {killFd}) \cap Free' # {}
      BY <1>16, <2>1, <3>1 DEF EnterSelect, Calls
    <3> QED
      BY <1>16, <3>3, <3>4 DEF EnterSelect
  <2>2. ASSUME NEW f \in Fd, killFd = NoFd, Allocate("event", f), killFd' = f
        PROVE WaitThrowsHasCause'
    <3>1. table'[f] = "event" /\ \A g \in Fd \ {f} : table'[g] = table[g]
      BY <2>2, Allocated
    <3>2. pc = "built" /\ meddled' = meddled /\ killFd' # NoFd
      BY <1>16, <2>2 DEF EnterSelect
    <3>3. ~meddled => \A g \in fdSet \cup {f} : table'[g] # "free"
      <4>1. ~meddled => \A g \in fdSet : g \in Fd /\ table[g] # "free"
        BY <3>2
      <4> QED
        BY <3>1, <4>1
    <3>4. pc' = "threw" => (fdSet \cup {f}) \cap Free' # {}
      BY <1>16, <2>2, <3>2 DEF EnterSelect, Calls
    <3>5. ~meddled => (fdSet \cup {f}) \cap Free' = {}
      BY <3>3, NoneIsFree
    <3> QED
      BY <3>2, <3>4, <3>5
  <2>3. CASE killFd = NoFd /\ UNCHANGED <<table, killFd>>
    BY <1>16, <2>3 DEF EnterSelect, Calls
  <2> QED
    BY <1>16, <2>1, <2>2, <2>3 DEF EnterSelect, EventNumber
<1>17. CASE LeaveSelect
  BY <1>17 DEF LeaveSelect, SelectReturns, Dispatch, Returns
<1>18. CASE HandlerReturns
  BY <1>18 DEF HandlerReturns
<1>19. CASE UNCHANGED vars
  BY <1>19 DEF vars
<1> QED
  BY <1>1, <1>2, <1>3, <1>4, <1>5, <1>6, <1>7, <1>8, <1>9, <1>10, <1>11,
     <1>12, <1>13, <1>14, <1>15, <1>16, <1>17, <1>18, <1>19
     DEF Next, AnyThread, WaitingThread, Wait

\* Numbers stay in the fields of their objects.
LEMMA FollowStep ==
    IInv /\ [Next]_vars => NumbersFollowObjects'
<1> SUFFICES ASSUME IInv, [Next]_vars PROVE NumbersFollowObjects'
  OBVIOUS
<1> USE FdAssumption, NotSockets
    DEF IInv, TypeOK, NoFd, Other, Nobody, Free, OpenOwnsNumber,
                                   NumbersFollowObjects
<1>1. CASE Peer
  BY <1>1 DEF Peer
<1>2. ASSUME NEW s \in Sock, Connect(s) PROVE NumbersFollowObjects'
  BY <1>2 DEF Connect, Construct, Allocate
<1>3. ASSUME NEW s \in Sock, WriteFails(s) PROVE NumbersFollowObjects'
  BY <1>3 DEF WriteFails
<1>4. ASSUME NEW s \in Sock, Close(s) PROVE NumbersFollowObjects'
  BY <1>4 DEF Close, Shut, CloseNumber
<1>5. ASSUME NEW s \in Sock, Destroy(s) PROVE NumbersFollowObjects'
  BY <1>5 DEF Destroy, Shut, CloseNumber
<1>6. CASE Serve
  BY <1>6 DEF Serve, Allocate
<1>7. CASE StopServing
  BY <1>7 DEF StopServing
<1>8. CASE Kill
  BY <1>8 DEF Kill
<1>9. ASSUME NEW s \in Sock, Accept(s) PROVE NumbersFollowObjects'
  BY <1>9 DEF Accept, Construct, Allocate
<1>10. ASSUME NEW s \in Sock, Read(s) PROVE NumbersFollowObjects'
  BY <1>10 DEF Read
<1>11. ASSUME NEW s \in Sock, AddSocket(s) PROVE NumbersFollowObjects'
  BY <1>11 DEF AddSocket
<1>12. ASSUME NEW s \in Sock, RemoveSocket(s) PROVE NumbersFollowObjects'
  BY <1>12 DEF RemoveSocket
<1>13. CASE SetServer
  BY <1>13 DEF SetServer
<1>14. CASE DestroyWaiter
  BY <1>14 DEF DestroyWaiter, CloseNumber
<1>15. CASE BuildSet
  BY <1>15 DEF BuildSet, Watched
<1>16. CASE EnterSelect
  BY <1>16 DEF EnterSelect, EventNumber, Calls, Allocate
<1>17. CASE LeaveSelect
  BY <1>17 DEF LeaveSelect, SelectReturns, Dispatch, Returns
<1>18. CASE HandlerReturns
  BY <1>18 DEF HandlerReturns
<1>19. CASE UNCHANGED vars
  BY <1>19 DEF vars
<1> QED
  BY <1>1, <1>2, <1>3, <1>4, <1>5, <1>6, <1>7, <1>8, <1>9, <1>10, <1>11,
     <1>12, <1>13, <1>14, <1>15, <1>16, <1>17, <1>18, <1>19
     DEF Next, AnyThread, WaitingThread, Wait

\* Who closes a number of the set has meddled.
LEMMA FreshShut ==
    ASSUME IInv, NEW s \in Sock, Shut(s),
           UNCHANGED <<serverVars, setVars, waitVars>>
    PROVE  SetIsFresh'
<1>1. UNCHANGED <<pc, fdSet, master, serverFd>>
  BY DEF serverVars, setVars, waitVars
<1>2. fdSet \subseteq Fd /\ table \in [Fd -> Sock \cup Other]
      /\ meddled \in BOOLEAN
  BY DEF IInv, TypeOK
<1>3. SetIsFresh
  BY DEF IInv
<1>4. CASE s \notin open
  <2>1. UNCHANGED <<table, meddled>>
    BY <1>4 DEF Shut
  <2> QED
    BY <1>1, <1>3, <2>1 DEF SetIsFresh
<1>5. CASE s \in open
  <2>1. CloseNumber(fd[s])
    BY <1>5 DEF Shut
  <2>2. \A f \in fdSet \ {fd[s]} : table'[f] = table[f]
    BY <1>2, <2>1, SMTT(20) DEF CloseNumber
  <2>3. meddled' = (meddled \/ (pc = "built" /\ fd[s] \in fdSet))
    BY <2>1 DEF CloseNumber
  <2>4. ASSUME pc = "built", ~meddled', NEW f \in fdSet
        PROVE  table'[f] # "free"
    <3>1. ~meddled /\ f # fd[s]
      BY <1>2, <2>3, <2>4
    <3> QED
      BY <1>3, <2>2, <2>4, <3>1 DEF SetIsFresh
  <2> QED
    BY <1>1, <1>3, <2>4 DEF SetIsFresh
<1> QED
  BY <1>4, <1>5

\* A step that makes the set stale is a close.
LEMMA FreshStep ==
    IInv /\ [Next]_vars => SetIsFresh'
<1> SUFFICES ASSUME IInv, [Next]_vars PROVE SetIsFresh'
  OBVIOUS
<1> USE FdAssumption, NotSockets
    DEF IInv, TypeOK, NoFd, Other, Nobody, Free, OpenOwnsNumber, SetIsFresh
<1>1. CASE Peer
  BY <1>1 DEF Peer
<1>2. ASSUME NEW s \in Sock, Connect(s) PROVE SetIsFresh'
  BY <1>2 DEF Connect, Construct, Allocate
<1>3. ASSUME NEW s \in Sock, WriteFails(s) PROVE SetIsFresh'
  BY <1>3 DEF WriteFails
<1>4. ASSUME NEW s \in Sock, Close(s) PROVE SetIsFresh'
  BY <1>4, FreshShut DEF Close, NoneOfWaiter
<1>5. ASSUME NEW s \in Sock, Destroy(s) PROVE SetIsFresh'
  BY <1>5, FreshShut DEF Destroy, NoneOfWaiter
<1>6. CASE Serve
  BY <1>6 DEF Serve, Allocate
<1>7. CASE StopServing
  BY <1>7 DEF StopServing
<1>8. CASE Kill
  BY <1>8 DEF Kill
<1>9. ASSUME NEW s \in Sock, Accept(s) PROVE SetIsFresh'
  BY <1>9 DEF Accept, Construct, Allocate
<1>10. ASSUME NEW s \in Sock, Read(s) PROVE SetIsFresh'
  BY <1>10 DEF Read
<1>11. ASSUME NEW s \in Sock, AddSocket(s) PROVE SetIsFresh'
  BY <1>11 DEF AddSocket
<1>12. ASSUME NEW s \in Sock, RemoveSocket(s) PROVE SetIsFresh'
  BY <1>12 DEF RemoveSocket
<1>13. CASE SetServer
  BY <1>13 DEF SetServer
<1>14. CASE DestroyWaiter
  BY <1>14 DEF DestroyWaiter, CloseNumber
<1>15. CASE BuildSet
  BY <1>15 DEF BuildSet, Watched
<1>16. CASE EnterSelect
  BY <1>16 DEF EnterSelect, EventNumber, Calls, Allocate
<1>17. CASE LeaveSelect
  BY <1>17 DEF LeaveSelect, SelectReturns, Dispatch, Returns
<1>18. CASE HandlerReturns
  BY <1>18 DEF HandlerReturns
<1>19. CASE UNCHANGED vars
  BY <1>19 DEF vars
<1> QED
  BY <1>1, <1>2, <1>3, <1>4, <1>5, <1>6, <1>7, <1>8, <1>9, <1>10, <1>11,
     <1>12, <1>13, <1>14, <1>15, <1>16, <1>17, <1>18, <1>19
     DEF Next, AnyThread, WaitingThread, Wait

\* cur is set only from dispatch to the handler's return.
LEMMA CalledStep ==
    IInv /\ [Next]_vars => CalledInWait'
<1> SUFFICES ASSUME IInv, [Next]_vars PROVE CalledInWait'
  OBVIOUS
<1> USE FdAssumption, NotSockets
    DEF IInv, TypeOK, NoFd, Other, Nobody, Free, CalledInWait
<1>1. CASE Peer
  BY <1>1 DEF Peer
<1>2. ASSUME NEW s \in Sock, Connect(s) PROVE CalledInWait'
  BY <1>2 DEF Connect, Construct, Allocate
<1>3. ASSUME NEW s \in Sock, WriteFails(s) PROVE CalledInWait'
  BY <1>3 DEF WriteFails
<1>4. ASSUME NEW s \in Sock, Close(s) PROVE CalledInWait'
  BY <1>4 DEF Close, Shut, CloseNumber
<1>5. ASSUME NEW s \in Sock, Destroy(s) PROVE CalledInWait'
  BY <1>5 DEF Destroy, Shut, CloseNumber
<1>6. CASE Serve
  BY <1>6 DEF Serve, Allocate
<1>7. CASE StopServing
  BY <1>7 DEF StopServing
<1>8. CASE Kill
  BY <1>8 DEF Kill
<1>9. ASSUME NEW s \in Sock, Accept(s) PROVE CalledInWait'
  BY <1>9 DEF Accept, Construct, Allocate
<1>10. ASSUME NEW s \in Sock, Read(s) PROVE CalledInWait'
  BY <1>10 DEF Read
<1>11. ASSUME NEW s \in Sock, AddSocket(s) PROVE CalledInWait'
  BY <1>11 DEF AddSocket
<1>12. ASSUME NEW s \in Sock, RemoveSocket(s) PROVE CalledInWait'
  BY <1>12 DEF RemoveSocket
<1>13. CASE SetServer
  BY <1>13 DEF SetServer
<1>14. CASE DestroyWaiter
  BY <1>14 DEF DestroyWaiter, CloseNumber
<1>15. CASE BuildSet
  BY <1>15 DEF BuildSet, Watched
<1>16. CASE EnterSelect
  BY <1>16 DEF EnterSelect, EventNumber, Calls, Allocate
<1>17. CASE LeaveSelect
  BY <1>17 DEF LeaveSelect, SelectReturns, Dispatch, Returns
<1>18. CASE HandlerReturns
  BY <1>18 DEF HandlerReturns
<1>19. CASE UNCHANGED vars
  BY <1>19 DEF vars
<1> QED
  BY <1>1, <1>2, <1>3, <1>4, <1>5, <1>6, <1>7, <1>8, <1>9, <1>10, <1>11,
     <1>12, <1>13, <1>14, <1>15, <1>16, <1>17, <1>18, <1>19
     DEF Next, AnyThread, WaitingThread, Wait

-----------------------------------------------------------------------------
(***************************************************************************)
(* socket, socket_server, flex_waiter: numbers, flags, the descriptor set  *)
(* and the threads' places agree after every step; all theorems below are  *)
(* parts of this.                                                          *)
(***************************************************************************)
THEOREM Invariant == Spec => []IInv
<1>1. Init => IInv
  <2> SUFFICES ASSUME Init PROVE IInv
    OBVIOUS
  <2>1. TypeOK
    BY DEF Init, TypeOK, NoFd, Other, Nobody
  <2>2. /\ OpenOwnsNumber /\ NumbersStay /\ WaitThrowsHasCause
        /\ SetIsFresh /\ CalledInWait
    BY FdAssumption, NotSockets
       DEF Init, OpenOwnsNumber, NumbersStay, WaitThrowsHasCause,
           SetIsFresh, CalledInWait, NoFd
  <2>3. NumbersFollowObjects
    BY NotSockets DEF Init, NumbersFollowObjects
  <2> QED
    BY <2>1, <2>2, <2>3 DEF IInv
<1>2. IInv /\ [Next]_vars => IInv'
  BY TypeStep, OwnStep, LostStep, ThrowStep, FollowStep, FreshStep, CalledStep
     DEF IInv
<1> QED
  BY <1>1, <1>2, PTL DEF Spec

(***************************************************************************)
(* socket, socket_server, flex_waiter: every field has a value of its      *)
(* type; what is handed to FD_SET is a number of the process and never -1. *)
(***************************************************************************)
THEOREM TypeCorrect == Spec => []TypeOK
BY Invariant, PTL DEF IInv

(***************************************************************************)
(* socket::close, ~socket, ~flex_waiter: what is open has a number of its  *)
(* own, whatever is closed, destroyed and given out again around it.       *)
(***************************************************************************)
THEOREM NumbersAreOwn == Spec => []OpenOwnsNumber
BY Invariant, PTL DEF IInv

(***************************************************************************)
(* socket, socket_server, flex_waiter: a number is lost only with a        *)
(* connection that its peer refused or ended, or with a socket_server.     *)
(***************************************************************************)
THEOREM LossHasCause == Spec => []LostNumberHasCause
<1>1. IInv => LostNumberHasCause
  BY DEF IInv, NumbersStay, LostNumberHasCause, Lost
<1> QED
  BY <1>1, Invariant, PTL

(***************************************************************************)
(* flex_waiter::wait: it throws for lack of a number for its event, or     *)
(* because a number of its set was closed after the set was built.         *)
(***************************************************************************)
THEOREM ThrowHasCause == Spec => []WaitThrowsHasCause
BY Invariant, PTL DEF IInv

(***************************************************************************)
(* flex_waiter::wait: onSocket is called for an open socket only when it   *)
(* has something to read.                                                  *)
(***************************************************************************)
THEOREM HandlerReads == Spec => HandlerCanRead
<1> DEFINE Step == pc = "blocked" /\ cur' \in open => stream[cur'] # "quiet"
<1>1. IInv /\ [Next]_vars => [Step]_vars
  <2> SUFFICES ASSUME IInv, Next, pc = "blocked", cur' \in open
               PROVE  stream[cur'] # "quiet"
    BY DEF IInv
  <2>1. CASE LeaveSelect
    <3>1. Active(cur')
      BY <2>1, NotSockets
         DEF LeaveSelect, SelectReturns, Dispatch, Returns, IInv, TypeOK, Nobody
    <3>2. table[fd[cur']] = cur'
      BY DEF IInv, OpenOwnsNumber
    <3> QED
      BY <3>1, <3>2, OneSocketEach DEF Active, IsSet, Ready
  <2>2. CASE ~LeaveSelect
    <3>1. UNCHANGED cur
      BY <2>2
         DEF Next, AnyThread, WaitingThread, Wait, Peer, Connect, WriteFails,
             Close, Destroy, Serve, StopServing, Kill, Accept, Read, AddSocket,
             RemoveSocket, SetServer, DestroyWaiter, BuildSet, EnterSelect,
             HandlerReturns
    <3> QED
      BY <3>1, NotSockets DEF IInv, TypeOK, CalledInWait, Nobody
  <2> QED
    BY <2>1, <2>2
<1> QED
  BY <1>1, Invariant, PTL DEF Spec, HandlerCanRead
=============================================================================
