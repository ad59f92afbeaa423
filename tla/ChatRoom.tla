------------------------------ MODULE ChatRoom ------------------------------
(***************************************************************************)
(* What the chat server promises, without its threads, locks and sockets:  *)
(* a room whose members carry distinct names and all hear the same posts   *)
(* in the same order.  Posts are numbered as they are made and told in     *)
(* rounds: a round tells one post to every member, members come and go     *)
(* between rounds, and the next round begins when nobody is missing.  A    *)
(* member that is lost (its connection broke) is told no more.             *)
(***************************************************************************)
EXTENDS Naturals

CONSTANTS
    Conn,   \* whoever may be a member
    Name,   \* names proper
    NoName  \* a member that has not chosen a name

VARIABLES
    members,    \* who is in the room
    name,       \* what each is called
    lost,       \* members that cannot be told anything any more
    posted,     \* number of posts made
    round,      \* number of posts told to everybody
    heard       \* number of the last post each member was told

vars == <<members, name, lost, posted, round, heard>>

TypeOK ==
    /\ members \in SUBSET Conn
    /\ name \in [Conn -> Name \cup {NoName}]
    /\ lost \in SUBSET Conn
    /\ posted \in Nat
    /\ round \in Nat
    /\ heard \in [Conn -> Nat]

Init ==
    /\ members = {}
    /\ name = [c \in Conn |-> NoName]
    /\ lost = {}
    /\ posted = 0
    /\ round = 0
    /\ heard = [c \in Conn |-> 0]

Present == members \ lost

\* No round is going on: nobody has been told more than the others.
BetweenRounds == \A c \in Present : heard[c] = round

\* A newcomer is told the posts from the next round on.
Join(c) ==
    /\ c \notin members
    /\ BetweenRounds
    /\ members' = members \cup {c}
    /\ name' = [name EXCEPT ![c] = NoName]
    /\ heard' = [heard EXCEPT ![c] = round]
    /\ lost' = lost \ {c}
    /\ UNCHANGED <<posted, round>>

Leave(c) ==
    /\ c \in members
    /\ BetweenRounds
    /\ members' = members \ {c}
    /\ name' = [name EXCEPT ![c] = NoName]
    /\ heard' = [heard EXCEPT ![c] = 0]
    /\ lost' = lost \ {c}
    /\ UNCHANGED <<posted, round>>

\* A member takes a name that nobody in the room has.
Call(c, n) ==
    /\ c \in members
    /\ \A d \in members : name[d] # n
    /\ name' = [name EXCEPT ![c] = n]
    /\ UNCHANGED <<members, lost, posted, round, heard>>

Post ==
    /\ posted' = posted + 1
    /\ UNCHANGED <<members, name, lost, round, heard>>

\* A member is told the post of the round.
Tell(c) ==
    /\ c \in Present
    /\ round < posted
    /\ heard[c] = round
    /\ heard' = [heard EXCEPT ![c] = round + 1]
    /\ UNCHANGED <<members, name, lost, posted, round>>

\* The round ends when every member that can be told has been.
EndRound ==
    /\ round < posted
    /\ \A c \in Present : heard[c] = round + 1
    /\ round' = round + 1
    /\ UNCHANGED <<members, name, lost, posted, heard>>

\* Connections break, one or, when the server stops, all of them.
Lose(group) ==
    /\ group \subseteq members
    /\ lost' = lost \cup group
    /\ UNCHANGED <<members, name, posted, round, heard>>

Next ==
    \/ \E c \in Conn :
        \/ Join(c) \/ Leave(c) \/ Tell(c)
        \/ \E n \in Name \cup {NoName} : Call(c, n)
    \/ Post \/ EndRound
    \/ \E group \in SUBSET members : Lose(group)

Spec == Init /\ [][Next]_vars
=============================================================================
