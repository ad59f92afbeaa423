------------------------------ MODULE Messages ------------------------------
(***************************************************************************)
(* What one person types, as it travels: from the login form or the room   *)
(* of the client, as JSON, to the server's visitor, and from the server's  *)
(* response, as JSON again, to the client's visitor and the screen.  The   *)
(* two sides are in two languages and agree only by the names and formats  *)
(* both write down: type tags, properties, time stamps and error codes.    *)
(*                                                                         *)
(* One thing travels at a time: what may overtake what is the subject of   *)
(* ChatClient and ChatServer.  A JSON text is a type tag with an object, a *)
(* record of its properties.  Texts are strings; of a long one the first   *)
(* word stands for it.                                                     *)
(***************************************************************************)
EXTENDS Naturals

CONSTANTS
    Taken,      \* user names that others carry on the server
    Seconds,    \* the server's clock when it answers: seconds of a minute,
    Nanos       \* and the nanoseconds after them

ASSUME ClockAssumption ==
    /\ Seconds \subseteq 0 .. 59
    /\ \A nano \in Nanos : nano \in Nat /\ nano < 1000000000

VARIABLES
    address, port, username,    \* the fields of LoginFragment
    account,    \* MainActivity.username, NoText before a login
    inRoom,     \* is the room shown, or the form?
    said,       \* what the person last sent, Nothing after a click that failed
    wire,       \* the JSON on its way
    stamped,    \* when the server answered it
    shown       \* what the client made of the answer

formVars == <<address, port, username>>
vars == <<formVars, account, inRoom, said, wire, stamped, shown>>

NoText == ""

-----------------------------------------------------------------------------
(* Time stamps. *)

\* The server formats a double of seconds with six decimals, rounded.  An
\* exact tie may go either way, as the double is not exact.
Rounded(nano) ==
    LET below == nano \div 1000
    IN  { micro \in {below, below + 1} :
            nano <= 1000 * micro + 500 /\ 1000 * micro <= nano + 500 }

\* Mutant of SecondText: a zero is put before ten as well.
SecondText_PadsTen(second, micro) ==
    LET value == second + micro \div 1000000
    IN  [second |-> value,
         digits |-> (IF second <= 10 THEN 1 ELSE 0) +
                    (IF value < 10 THEN 1 ELSE 2)]

(***************************************************************************)
(* The seconds of a stamp: their value, and the digits before the point.   *)
(* A zero is put before them if the seconds are below ten before rounding. *)
(***************************************************************************)
SecondText(second, micro) ==
    LET value == second + micro \div 1000000
    IN  [second |-> value,
         digits |-> (IF second < 10 THEN 1 ELSE 0) +
                    (IF value < 10 THEN 1 ELSE 2)]

\* Pattern "ss" of the client: at most two digits, and at most 59.
ReadsTime(text) == text.digits <= 2 /\ text.second <= 59

-----------------------------------------------------------------------------
(* The JSON of both sides. *)

\* AbstractNetworkInstance.toJson, of the two requests.
LoginRequest(name) ==
    [type   |-> "LoginRequest",
     object |-> [datetime |-> "now", sender |-> name]]

MessageRequest(name, content) ==
    [type   |-> "MessageRequest",
     object |-> [datetime |-> "now", sender |-> name, content |-> content]]

LoginResponse(time, name) ==
    [type   |-> "LoginResponse",
     object |-> [datetime |-> time, sender |-> "@server",
                 joiningUsername |-> name]]

\* Mutant of MessageResponse: the arguments of the constructor exchanged.
MessageResponse_Exchanged(time, name, content) ==
    [type   |-> "MessageResponse",
     object |-> [datetime |-> time, sender |-> name,
                 originator |-> "@server", content |-> content]]

MessageResponse(time, name, content) ==
    [type   |-> "MessageResponse",
     object |-> [datetime |-> time, sender |-> "@server",
                 originator |-> name, content |-> content]]

ServerError(time, code, text) ==
    [type   |-> "ServerError",
     object |-> [datetime |-> time, sender |-> "@server", code |-> code,
                 message |-> text, originator |-> "@server"]]

USER_NAME_IN_USE == 1
NameInUse == "Username in use."   \* the message of the error

\* Mutant of KnownCodes: one of the server's codes is missing.
KnownCodes_Incomplete == {50, 2, 200, 201, 202, 203, 210}

\* The codes ErrorCode.fromCCode does not throw for.
KnownCodes == {50, 1, 2, 200, 201, 202, 203, 210}

-----------------------------------------------------------------------------
(* The two visitors. *)

\* server::visitLogin and visitMessage, through the visitor.
Answer(json, time) ==
    LET sender == json.object.sender
    IN  IF json.type = "MessageRequest"
        THEN MessageResponse(time, sender, json.object.content)
        ELSE IF sender \in Taken
             THEN ServerError(time, USER_NAME_IN_USE, NameInUse)
             ELSE LoginResponse(time, sender)

Nothing == [what |-> "nothing", who |-> NoText, text |-> NoText]

\* An exception in the reading thread: the connection counts as lost.
Lost == [what |-> "lost", who |-> NoText, text |-> NoText]

(***************************************************************************)
(* AbstractResponseVisitor.visit and MyResponseVisitor.  Gson reads the    *)
(* time stamp of a login or a message; an error is dispatched by way of an *)
(* exception before, and read without its time stamp.                      *)
(***************************************************************************)
Display(json) ==
    LET object == json.object
    IN  IF json.type = "ServerError"
        THEN IF object.code \in KnownCodes
             THEN [what |-> "error", who |-> NoText, text |-> object.message]
             ELSE Lost
        ELSE IF ~ReadsTime(object.datetime) THEN Lost
        ELSE IF json.type = "LoginResponse"
        THEN [what |-> "login", who |-> object.joiningUsername, text |-> NoText]
        ELSE [what |-> "message", who |-> object.originator,
              text |-> object.content]

-----------------------------------------------------------------------------
(* The login form.  An error is reported as the new contents of a field,   *)
(* from where it is read again at the next click.                          *)

ErrorTexts == {"This field is required", "This server address is invalid",
               "This port is invalid", "This username is invalid"}

ValidHosts   == {"10.0.2.2"}
AddressTexts == {NoText, "not a host"} \cup ValidHosts

\* Integer.parseInt, which throws for all other texts.
ParseInt  == [text \in {"0", "9001", "65535", "65536"} |->
                CASE text = "0" -> 0         [] text = "9001" -> 9001
                  [] text = "65535" -> 65535 [] text = "65536" -> 65536]
PortTexts == {NoText, "port"} \cup DOMAIN ParseInt

NameTexts == {NoText, "me", "jsmith2", "bob"}
IsShort(name) == name \in {NoText, "me"}

\* The defaults that a new LoginFragment shows.
DefaultForm ==
    address' = "10.0.2.2" /\ port' = "9001" /\ username' = "jsmith2"

Idle == wire.type = "none"
NoJson == [type |-> "none"]

Init ==
    /\ address = "10.0.2.2" /\ port = "9001" /\ username = "jsmith2"
    /\ account = NoText /\ inRoom = FALSE
    /\ said = Nothing
    /\ wire = NoJson
    /\ stamped = [second |-> 0, nano |-> 0]
    /\ shown = Nothing

\* The person edits a field: a TextWatcher keeps its text.
Edit ==
    /\ Idle
    /\ ~inRoom
    /\ \/ address' \in AddressTexts /\ UNCHANGED <<port, username>>
       \/ port' \in PortTexts /\ UNCHANGED <<address, username>>
       \/ username' \in NameTexts /\ UNCHANGED <<address, port>>
    /\ UNCHANGED <<account, inRoom, said, wire, stamped, shown>>

IsEmpty == address = NoText \/ port = NoText \/ username = NoText

\* Fields without data say so, and nothing else is looked at.
MarkEmpty ==
    LET Filled(text) == IF text = NoText THEN "This field is required" ELSE text
    IN  /\ address' = Filled(address)
        /\ port' = Filled(port)
        /\ username' = Filled(username)

IsValidHostname == address \in ValidHosts
IsNumber        == port \in DOMAIN ParseInt
IsValidPort     == IsNumber /\ ParseInt[port] > 0 /\ ParseInt[port] <= 65535
IsValid         == IsValidHostname /\ ~IsShort(username) /\ IsValidPort

\* Mutant of MarkInvalid: a port that is no number is only logged.
MarkInvalid_LogsOnly ==
    /\ address' = IF IsValidHostname THEN address
                  ELSE "This server address is invalid"
    /\ username' = IF IsShort(username) THEN "This username is invalid"
                   ELSE username
    /\ port' = IF IsNumber /\ ~IsValidPort THEN "This port is invalid" ELSE port

\* All of the three are looked at, a port that is no number last.
MarkInvalid ==
    /\ address' = IF IsValidHostname THEN address
                  ELSE "This server address is invalid"
    /\ username' = IF IsShort(username) THEN "This username is invalid"
                   ELSE username
    /\ port' = IF IsValidPort THEN port ELSE "This port is invalid"

\* The sign-in button.  MainActivity.login keeps the name once the request is
\* sent, before it is answered.
SignIn ==
    /\ Idle
    /\ ~inRoom
    /\ \/ /\ \/ IsEmpty /\ MarkEmpty
             \/ ~IsEmpty /\ ~IsValid /\ MarkInvalid
          /\ said' = Nothing
          /\ wire' = NoJson
          /\ UNCHANGED account
       \/ /\ ~IsEmpty /\ IsValid
          /\ account' = username
          /\ said' = [what |-> "login", who |-> username, text |-> NoText]
          /\ wire' = LoginRequest(username)
          /\ UNCHANGED formVars
    /\ shown' = Nothing
    /\ UNCHANGED <<inRoom, stamped>>

\* The send button of the room.
Send ==
    /\ Idle
    /\ inRoom
    /\ \E content \in {NoText, "hello"} :
        /\ said' = [what |-> "message", who |-> account, text |-> content]
        /\ wire' = MessageRequest(account, content)
    /\ shown' = Nothing
    /\ UNCHANGED <<formVars, account, inRoom, stamped>>

ServerAnswers ==
    /\ wire.type \in {"LoginRequest", "MessageRequest"}
    /\ \E second \in Seconds, nano \in Nanos : \E micro \in Rounded(nano) :
        /\ wire' = Answer(wire, SecondText(second, micro))
        /\ stamped' = [second |-> second, nano |-> nano]
    /\ UNCHANGED <<formVars, account, inRoom, said, shown>>

\* The answer to a login opens the room, a loss goes back to a new form.
ClientReads ==
    /\ wire.type \in {"LoginResponse", "MessageResponse", "ServerError"}
    /\ shown' = Display(wire)
    /\ wire' = NoJson
    /\ \/ /\ shown'.what = "login"
          /\ inRoom' = TRUE
          /\ UNCHANGED <<account, formVars>>
       \/ /\ shown'.what = "lost"
          /\ account' = NoText
          /\ inRoom' = FALSE
          /\ DefaultForm
       \/ /\ shown'.what \in {"message", "error"}
          /\ UNCHANGED <<account, inRoom, formVars>>
    /\ UNCHANGED <<said, stamped>>

Next == Edit \/ SignIn \/ Send \/ ServerAnswers \/ ClientReads

Spec == Init /\ [][Next]_vars

-----------------------------------------------------------------------------
(***************************************************************************)
(* message.hpp, MessageResponse.java and their like: what the client shows *)
(* as said is what was said, by the one who said it.                       *)
(***************************************************************************)
ShownAsSaid == shown.what \in {"login", "message"} => shown = said

(***************************************************************************)
(* server::visitLogin, ResponseThread.run: a login under a name that       *)
(* another has is refused, and the person is told why, for any time stamp. *)
(***************************************************************************)
RefusalIsShown ==
    Idle /\ shown # Nothing =>
        ((shown.what = "error" /\ shown.text = NameInUse)
            <=> (said.what = "login" /\ said.who \in Taken))

(***************************************************************************)
(* chrono_io, GsonUtils: the client gives a connection up for a response   *)
(* only if its time stamp was rounded up to the full ten seconds or the    *)
(* full minute, less than a microsecond away.                              *)
(***************************************************************************)
LostByRoundingOnly ==
    shown.what = "lost" =>
        stamped.second \in {9, 59} /\ stamped.nano >= 999999500

(***************************************************************************)
(* LoginFragment, the sign-in button: a click that does not log in leaves  *)
(* an error in a field.                                                    *)
(***************************************************************************)
FailureIsExplained ==
    [][ SignIn /\ Idle' =>
            \E text \in {address', port', username'} : text \in ErrorTexts
      ]_vars
=============================================================================
