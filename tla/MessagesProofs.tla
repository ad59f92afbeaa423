--------------------------- MODULE MessagesProofs ---------------------------
(***************************************************************************)
(* The properties of Messages for every set of taken names and every       *)
(* clock ClockAssumption allows, every nanosecond of a minute among them.  *)
(* The leaves name SMT because Zenon writes numbers in unary.              *)
(***************************************************************************)
EXTENDS Messages, TLAPS

\* The texts a moment may be rounded to.
Texts(moment) ==
    { SecondText(moment.second, micro) : micro \in Rounded(moment.nano) }

\* The time of a response is one of those its moment may be rounded to.
TimeInv ==
    /\ stamped.second \in 0 .. 59
    /\ stamped.nano \in Nat /\ stamped.nano < 1000000000
    /\ wire.type \in {"LoginResponse", "MessageResponse"} =>
        wire.object.datetime \in Texts(stamped)

\* What is on its way is what was said, by the one who said it.
WireInv ==
    /\ wire.type = "LoginRequest" =>
        said = [what |-> "login", who |-> wire.object.sender, text |-> NoText]
    /\ wire.type = "MessageRequest" =>
        said = [what |-> "message", who |-> wire.object.sender,
                text |-> wire.object.content]
    /\ wire.type = "LoginResponse" =>
        said = [what |-> "login", who |-> wire.object.joiningUsername,
                text |-> NoText]
    /\ wire.type = "MessageResponse" =>
        said = [what |-> "message", who |-> wire.object.originator,
                text |-> wire.object.content]
    /\ wire.type = "ServerError" => wire.object.code = USER_NAME_IN_USE
    /\ wire.type # "none" => shown = Nothing

Inv == TimeInv /\ WireInv /\ ShownAsSaid /\ LostByRoundingOnly

-----------------------------------------------------------------------------
(***************************************************************************)
(* operator<< and the client's pattern: a time the client cannot read was  *)
(* rounded up to the full ten seconds or the full minute.                  *)
(***************************************************************************)
LEMMA UnreadableByRounding ==
    ASSUME NEW second \in 0 .. 59, NEW nano \in Nat, nano < 1000000000,
           NEW micro \in Rounded(nano),
           ~ReadsTime(SecondText(second, micro))
    PROVE  second \in {9, 59} /\ nano >= 999999500
<1> DEFINE below == nano \div 1000
<1>1. below \in Nat /\ below < 1000000 /\ nano = (1000 * below) + (nano % 1000)
      /\ nano % 1000 \in 0 .. 999
  BY SMT
<1>2. micro = below \/ (micro = below + 1 /\ nano % 1000 >= 500)
  BY SMT, <1>1 DEF Rounded
<1>3. CASE micro < 1000000
  <2>1. micro \div 1000000 = 0
    BY SMT, <1>1, <1>2, <1>3
  <2>2. second + micro \div 1000000 = second
    BY SMT, <2>1
  <2> QED
    BY SMT, <2>2 DEF SecondText, ReadsTime
<1>4. CASE ~(micro < 1000000)
  <2>1. micro = 1000000 /\ nano >= 999999500
    BY SMT, <1>1, <1>2, <1>4
  <2>2. second + micro \div 1000000 = second + 1
    BY SMT, <2>1
  <2> QED
    BY SMT, <2>1, <2>2 DEF SecondText, ReadsTime
<1> QED
  BY SMT, <1>3, <1>4

\* MainActivity.onCreate: the form is shown, and nothing has been said.
LEMMA InitInv == Init => Inv
  BY SMT DEF Init, Inv, TimeInv, WireInv, ShownAsSaid, LostByRoundingOnly,
         NoJson, Nothing

\* Each handler keeps what is on its way, and what is shown, true to what
\* was said.
LEMMA StepInv == Inv /\ [Next]_vars => Inv'
<1> SUFFICES ASSUME Inv, [Next]_vars PROVE Inv'
  BY SMT
<1> USE DEF Inv
<1>1. CASE Edit
  BY SMT, <1>1 DEF Edit, TimeInv, WireInv, ShownAsSaid, LostByRoundingOnly
<1>2. CASE SignIn
  <2>1. shown' = Nothing /\ stamped' = stamped
        /\ (wire' = NoJson
            \/ (wire' = LoginRequest(username)
                /\ said' = [what |-> "login", who |-> username, text |-> NoText]))
    BY SMT, <1>2 DEF SignIn
  <2> QED
    BY SMT, <2>1 DEF TimeInv, WireInv, ShownAsSaid, LostByRoundingOnly, Nothing,
                NoJson, LoginRequest
<1>3. CASE Send
  BY SMT, <1>3 DEF Send, TimeInv, WireInv, ShownAsSaid, LostByRoundingOnly,
              Nothing, MessageRequest
<1>4. CASE ServerAnswers
  <2>1. PICK second \in Seconds, nano \in Nanos : \E micro \in Rounded(nano) :
            /\ wire' = Answer(wire, SecondText(second, micro))
            /\ stamped' = [second |-> second, nano |-> nano]
    BY SMT, <1>4 DEF ServerAnswers
  <2>2. PICK micro \in Rounded(nano) :
            /\ wire' = Answer(wire, SecondText(second, micro))
            /\ stamped' = [second |-> second, nano |-> nano]
    BY SMT, <2>1
  <2>3. said' = said /\ shown' = shown
        /\ wire.type \in {"LoginRequest", "MessageRequest"}
    BY SMT, <1>4 DEF ServerAnswers
  <2> DEFINE time == SecondText(second, micro)
             name == wire.object.sender
  <2>4. second \in 0 .. 59 /\ nano \in Nat /\ nano < 1000000000
    BY SMT, ClockAssumption
  <2>5. \/ /\ wire.type = "LoginRequest"
           /\ \/ wire' = LoginResponse(time, name)
              \/ wire' = ServerError(time, USER_NAME_IN_USE, NameInUse)
        \/ /\ wire.type = "MessageRequest"
           /\ wire' = MessageResponse(time, name, wire.object.content)
    BY SMT, <2>2, <2>3 DEF Answer
  <2>6. TimeInv'
    <3> HIDE DEF time
    <3>1. wire'.type \in {"LoginResponse", "MessageResponse"} =>
                wire'.object.datetime = time
      BY SMT, <2>5 DEF LoginResponse, MessageResponse, ServerError
    <3>2. time \in Texts(stamped')
      BY SMT, <2>2 DEF Texts, time
    <3>3. /\ stamped'.second \in 0 .. 59
          /\ stamped'.nano \in Nat /\ stamped'.nano < 1000000000
      BY SMT, <2>2, <2>4
    <3> QED
      BY SMT, <3>1, <3>2, <3>3 DEF TimeInv
  <2>7. WireInv'
    <3> HIDE DEF time
    <3> QED
      BY SMT, <2>3, <2>5
         DEF WireInv, LoginResponse, MessageResponse, ServerError
  <2>8. ShownAsSaid' /\ LostByRoundingOnly'
    BY SMT, <2>3 DEF ShownAsSaid, LostByRoundingOnly, WireInv, Nothing
  <2> QED
    BY SMT, <2>6, <2>7, <2>8
<1>5. CASE ClientReads
  <2>1. wire.type \in {"LoginResponse", "MessageResponse", "ServerError"}
        /\ shown' = Display(wire) /\ wire' = NoJson
        /\ said' = said /\ stamped' = stamped
    BY SMT, <1>5 DEF ClientReads
  <2>2. TimeInv' /\ WireInv'
    BY SMT, <2>1 DEF TimeInv, WireInv, NoJson
  <2>3. \/ shown' = said /\ said.what \in {"login", "message"}
        \/ shown'.what = "error"
        \/ /\ wire.type \in {"LoginResponse", "MessageResponse"}
           /\ ~ReadsTime(wire.object.datetime)
    BY SMT, <2>1 DEF WireInv, Display, KnownCodes, USER_NAME_IN_USE
  <2>4. shown' = said \/ shown'.what \in {"error", "lost"}
    <3>1. CASE /\ wire.type \in {"LoginResponse", "MessageResponse"}
               /\ ~ReadsTime(wire.object.datetime)
      <4>1. shown' = Lost
        BY SMT, <2>1, <3>1 DEF Display
      <4> QED
        BY SMT, <4>1 DEF Lost
    <3> QED
      BY SMT, <2>3, <3>1
  <2>5. ShownAsSaid'
    BY SMT, <2>1, <2>4 DEF ShownAsSaid
  <2>6. LostByRoundingOnly'
    <3>1. CASE /\ wire.type \in {"LoginResponse", "MessageResponse"}
               /\ ~ReadsTime(wire.object.datetime)
      <4>1. stamped.second \in {9, 59} /\ stamped.nano >= 999999500
        <5>1. wire.object.datetime \in Texts(stamped)
          BY SMT, <3>1 DEF TimeInv
        <5>2. PICK micro \in Rounded(stamped.nano) :
                    wire.object.datetime = SecondText(stamped.second, micro)
          BY SMT, <5>1 DEF Texts
        <5>3. ~ReadsTime(SecondText(stamped.second, micro))
          BY SMT, <3>1, <5>2
        <5> QED
          BY SMT, <5>3, UnreadableByRounding DEF TimeInv
      <4> QED
        BY SMT, <2>1, <4>1 DEF LostByRoundingOnly
    <3>2. CASE ~(/\ wire.type \in {"LoginResponse", "MessageResponse"}
                 /\ ~ReadsTime(wire.object.datetime))
      BY SMT, <2>3, <3>2 DEF LostByRoundingOnly
    <3> QED
      BY SMT, <3>1, <3>2
  <2> QED
    BY SMT, <2>2, <2>5, <2>6
<1>6. CASE UNCHANGED vars
  <2>1. said' = said /\ wire' = wire /\ stamped' = stamped /\ shown' = shown
    BY SMT, <1>6 DEF vars
  <2> QED
    BY SMT, <2>1 DEF TimeInv, WireInv, ShownAsSaid, LostByRoundingOnly
<1> QED
  BY SMT, <1>1, <1>2, <1>3, <1>4, <1>5, <1>6 DEF Next

LEMMA InvHolds == Spec => []Inv
  BY InitInv, StepInv, PTL DEF Spec

(***************************************************************************)
(* message.hpp, MessageResponse.java and their like: what the client shows *)
(* as said is what was said, by the one who said it.                       *)
(***************************************************************************)
THEOREM WhatIsShownWasSaid == Spec => []ShownAsSaid
  <1>1. Inv => ShownAsSaid
    BY DEF Inv
  <1> QED
    BY <1>1, InvHolds, PTL

(***************************************************************************)
(* chrono_io, GsonUtils: the client gives a connection up for a response   *)
(* only if its time stamp was rounded up to the full ten seconds or the    *)
(* full minute.                                                            *)
(***************************************************************************)
THEOREM OnlyRoundingLoses == Spec => []LostByRoundingOnly
  <1>1. Inv => LostByRoundingOnly
    BY DEF Inv
  <1> QED
    BY <1>1, InvHolds, PTL

-----------------------------------------------------------------------------
(* Refusals. *)

\* What the server decided is on its way with the reason it decided for.
DecisionInv ==
    /\ wire.type = "ServerError" =>
        /\ said.what = "login" /\ said.who \in Taken
        /\ wire.object.code = USER_NAME_IN_USE
        /\ wire.object.message = NameInUse
    /\ wire.type = "LoginResponse" => said.who \notin Taken

LEMMA RefusalInit == Init => DecisionInv /\ RefusalIsShown
  BY SMT DEF Init, DecisionInv, RefusalIsShown, NoJson

\* visitLogin: it refuses names that are taken, and no others.
LEMMA AnswerDecides ==
    ASSUME Inv, ServerAnswers
    PROVE  DecisionInv'
<1>1. PICK time :
        /\ wire' = Answer(wire, time) /\ said' = said
        /\ wire.type \in {"LoginRequest", "MessageRequest"}
  BY SMT DEF ServerAnswers
<1>2. CASE wire.type = "MessageRequest"
  BY SMT, <1>1, <1>2 DEF Answer, MessageResponse, DecisionInv
<1>3. CASE wire.type = "LoginRequest"
  <2>1. said.what = "login" /\ said.who = wire.object.sender
    BY SMT, <1>3 DEF Inv, WireInv
  <2>2. CASE wire.object.sender \in Taken
    BY SMT, <1>1, <1>3, <2>1, <2>2 DEF Answer, ServerError, DecisionInv
  <2>3. CASE wire.object.sender \notin Taken
    BY SMT, <1>1, <1>3, <2>1, <2>3 DEF Answer, LoginResponse, DecisionInv
  <2> QED
    BY <2>2, <2>3
<1> QED
  BY <1>1, <1>2, <1>3

\* The visitors of the client: an error is shown for a refusal only.
LEMMA ReadingShows ==
    ASSUME Inv, DecisionInv, ClientReads
    PROVE  RefusalIsShown'
<1>1. /\ wire.type \in {"LoginResponse", "MessageResponse", "ServerError"}
      /\ shown' = Display(wire) /\ said' = said
  BY SMT DEF ClientReads
<1>2. CASE wire.type = "ServerError"
  <2>1. shown' = [what |-> "error", who |-> NoText, text |-> NameInUse]
    BY SMT, <1>1, <1>2 DEF Display, DecisionInv, KnownCodes, USER_NAME_IN_USE
  <2> QED
    BY SMT, <1>1, <1>2, <2>1 DEF DecisionInv, RefusalIsShown
<1>3. CASE wire.type \in {"LoginResponse", "MessageResponse"}
  <2>1. shown'.what # "error"
    BY SMT, <1>1, <1>3 DEF Display, Lost
  <2>2. ~(said.what = "login" /\ said.who \in Taken)
    <3>1. wire.type = "MessageResponse" => said.what = "message"
      BY SMT DEF Inv, WireInv
    <3> QED
      BY SMT, <1>3, <3>1 DEF DecisionInv
  <2> QED
    BY SMT, <1>1, <2>1, <2>2 DEF RefusalIsShown
<1> QED
  BY <1>1, <1>2, <1>3

LEMMA RefusalStep ==
    Inv /\ DecisionInv /\ RefusalIsShown /\ [Next]_vars
        => DecisionInv' /\ RefusalIsShown'
<1> SUFFICES ASSUME Inv, DecisionInv, RefusalIsShown, [Next]_vars
             PROVE  DecisionInv' /\ RefusalIsShown'
  OBVIOUS
<1>1. CASE Edit \/ UNCHANGED vars
  <2>1. said' = said /\ wire' = wire /\ shown' = shown
    BY SMT, <1>1 DEF Edit, vars
  <2> QED
    BY SMT, <2>1 DEF DecisionInv, RefusalIsShown, Idle
<1>2. CASE SignIn \/ Send
  <2>1. shown' = Nothing /\ wire'.type \in {"none", "LoginRequest",
                                            "MessageRequest"}
    BY SMT, <1>2 DEF SignIn, Send, NoJson, LoginRequest, MessageRequest
  <2> QED
    BY SMT, <2>1 DEF DecisionInv, RefusalIsShown
<1>3. CASE ServerAnswers
  <2>1. DecisionInv'
    BY <1>3, AnswerDecides
  <2>2. ~Idle'
    BY SMT, <1>3 DEF ServerAnswers, Answer, MessageResponse, LoginResponse,
       ServerError, Idle
  <2> QED
    BY <2>1, <2>2 DEF RefusalIsShown
<1>4. CASE ClientReads
  <2>1. wire'.type = "none"
    BY SMT, <1>4 DEF ClientReads, NoJson
  <2>2. DecisionInv'
    BY SMT, <2>1 DEF DecisionInv
  <2> QED
    BY <1>4, <2>2, ReadingShows
<1> QED
  BY <1>1, <1>2, <1>3, <1>4 DEF Next

(***************************************************************************)
(* server::visitLogin, ResponseThread.run: whoever asks for a name that    *)
(* another has is told so, and nobody else is, for any clock.              *)
(***************************************************************************)
THEOREM RefusalsAreExplained == Spec => []RefusalIsShown
  BY InitInv, StepInv, RefusalInit, RefusalStep, PTL DEF Spec

-----------------------------------------------------------------------------
(* The login form. *)

LEMMA EmptyIsMarked ==
    ASSUME IsEmpty, MarkEmpty
    PROVE  \E text \in {address', port', username'} : text \in ErrorTexts
  BY DEF IsEmpty, MarkEmpty, ErrorTexts

LEMMA InvalidIsMarked ==
    ASSUME ~IsValid, MarkInvalid
    PROVE  \E text \in {address', port', username'} : text \in ErrorTexts
<1>1. \/ ~IsValidHostname \/ IsShort(username) \/ ~IsValidPort
  BY DEF IsValid
<1> QED
  BY <1>1 DEF MarkInvalid, ErrorTexts

(***************************************************************************)
(* LoginFragment: a click on the sign-in button that does not log in shows *)
(* an error in a field, whatever the three texts are.                      *)
(***************************************************************************)
THEOREM FailuresAreExplained == Spec => FailureIsExplained
<1>1. ASSUME SignIn, Idle'
      PROVE  \E text \in {address', port', username'} : text \in ErrorTexts
  <2>1. wire' # LoginRequest(username)
    BY SMT, <1>1 DEF Idle, LoginRequest
  <2>2. \/ IsEmpty /\ MarkEmpty
        \/ ~IsEmpty /\ ~IsValid /\ MarkInvalid
    BY <1>1, <2>1 DEF SignIn
  <2> QED
    BY <2>2, EmptyIsMarked, InvalidIsMarked
<1> QED
  BY <1>1, PTL DEF Spec, FailureIsExplained

=============================================================================
