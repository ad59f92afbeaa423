------------------------------ MODULE Instances ------------------------------
(***************************************************************************)
(* The message library of the server, se3313::msg, as any program may use  *)
(* it: instances are built, printed as JSON, read back and given to a      *)
(* visitor.  ChatServer has the calls the server makes; here are all of    *)
(* them, the responses read in C++ and the response visitor included.      *)
(*                                                                         *)
(* A text travels between programs that need not agree on the version of   *)
(* the library: a property may be missing, another type tag given, a date  *)
(* written in a form operator>> does not read, a code outside of the enum. *)
(* A program that receives an instance may print it again and pass it on.  *)
(***************************************************************************)
EXTENDS Integers, FiniteSets

CONSTANTS
    Who,        \* names of senders
    Word,       \* texts of the other properties
    Minutes,    \* the clock: minutes since the epoch,
    Micros,     \* microseconds of a minute,
    Nanos,      \* and nanoseconds after them
    MaxTrips,   \* bound: times an instance is printed and read
    MaxEdits    \* bound: parts of a text that somebody else edits

ASSUME ClockAssumption ==
    /\ Minutes \subseteq Nat
    /\ Micros \subseteq Nat /\ \A micro \in Micros : micro < 60000000
    /\ Nanos \subseteq Nat /\ \A nano \in Nanos : nano < 1000

VARIABLES
    origin,     \* the instance that was built first
    text,       \* the JSON on its way
    edited,     \* what of it is not as the library would write it
    trips,      \* how often it was printed
    answer      \* what the library made of it

vars == <<origin, text, edited, trips, answer>>

-----------------------------------------------------------------------------
(* Time points and their text. *)

Epoch == [minute |-> 0, micro |-> 0, nano |-> 0]

\* operator<<: the seconds are a double, printed with six decimals.  An exact
\* tie may be rounded either way, and the full minute is not carried over.
DateTexts(time) ==
    { [readable |-> TRUE, minute |-> time.minute, micro |-> micro] :
        micro \in { m \in {time.micro, time.micro + 1} :
                      IF m = time.micro THEN time.nano <= 500
                                        ELSE time.nano >= 500 } }

\* Mutant of DateRead: the seconds are two digits, as in the client.
DateRead_Strict(date) ==
    IF date.readable /\ date.micro < 60000000
    THEN [minute |-> date.minute, micro |-> date.micro, nano |-> 0]
    ELSE Epoch

\* operator>> adds the seconds to the minute, whatever their number.  If it
\* fails nobody looks: the time stays what its constructor made it.
DateRead(date) ==
    IF date.readable
    THEN [minute |-> date.minute + date.micro \div 60000000,
          micro  |-> date.micro % 60000000,
          nano   |-> 0]
    ELSE Epoch

-----------------------------------------------------------------------------
(* Instances. *)

Common == {"datetime", "sender"}

\* The properties a class adds: subToJson puts them, fromJson asks for them.
RequestLoginOwn    == {}
RequestMessageOwn  == {"content"}
ResponseLoginOwn   == {"joiningUsername"}
ResponseMessageOwn == {"originator", "content"}
ErrorOwn           == {"code", "message", "originator"}

Own == [request_login    |-> RequestLoginOwn,
        request_message  |-> RequestMessageOwn,
        response_login   |-> ResponseLoginOwn,
        response_message |-> ResponseMessageOwn,
        response_error   |-> ErrorOwn]

\* The type tags.
Kind == DOMAIN Own

Instance(kind, time, sender, own) ==
    [kind |-> kind, time |-> time, sender |-> sender, own |-> own]

\* The constructors; those without a time take that of the clock, those of a
\* response without a sender take @server.
RequestLogin(time, sender) ==
    Instance("request_login", time, sender, [p \in {} |-> sender])

RequestMessage(time, sender, content) ==
    Instance("request_message", time, sender, [content |-> content])

ResponseLogin(time, sender, name) ==
    Instance("response_login", time, sender, [joiningUsername |-> name])

ResponseMessage(time, sender, originator, content) ==
    Instance("response_message", time, sender,
             [originator |-> originator, content |-> content])

Error(time, sender, originator, code, message) ==
    Instance("response_error", time, sender,
             [code |-> code, message |-> message, originator |-> originator])

SERVER_SENDER == "@server"

ErrorCode == {0, 50, 1, 2, 200, 201, 202, 203, 210}

IsErrorMsg(instance) == instance.kind = "response_error"

\* sender() is virtual, and of a login response always the server.
Sender(instance) ==
    IF instance.kind = "response_login" THEN SERVER_SENDER ELSE instance.sender

-----------------------------------------------------------------------------
(* From an instance to JSON. *)

BaseJson(instance, date) == [datetime |-> date, sender |-> Sender(instance)]

ObjectJson(instance, date) ==
    [p \in Common \cup Own[instance.kind] |->
        IF p \in Common THEN BaseJson(instance, date)[p] ELSE instance.own[p]]

\* toJson and json::to; the choice is that of rounding.
ToJson(instance) ==
    { [type |-> instance.kind, object |-> ObjectJson(instance, date)] :
        date \in DateTexts(instance.time) }

-----------------------------------------------------------------------------
(* From JSON to an instance. *)

\* extractFrom: both the type and the object, or nothing.
Extracts(json) == {"type", "object"} \subseteq DOMAIN json

\* get_value<uint16_t>: a minus is read and wraps around; a number that does
\* not fit, or no number, is an exception.
CodeReads(number) == number \in -65535 .. 65535
CodeRead(number)  == number % 65536

\* fromJson of a class returns, or else throws for what it misses.
FromJsonReturns(kind, object) ==
    /\ Own[kind] \cup Common \subseteq DOMAIN object
    /\ kind = "response_error" => CodeReads(object["code"])

\* Mutant of FromJson: the code is kept as it was written.
FromJson_Wide(kind, object) ==
    Instance(kind, DateRead(object["datetime"]), object["sender"],
             [p \in Own[kind] |-> object[p]])

FromJson(kind, object) ==
    Instance(kind, DateRead(object["datetime"]), object["sender"],
             [p \in Own[kind] |->
                IF p = "code" THEN CodeRead(object[p]) ELSE object[p]])

-----------------------------------------------------------------------------
(* The visitors. *)

NoInstance == [kind |-> "none"]

Outcome(by, call, got) == [by |-> by, call |-> call, got |-> got]

\* visit() of a visitor with functions for the types of a table.  For lack of
\* a type, an object or a function it calls error(); fromJson never returns
\* null, so that the error for a bad object is never reported.
Visit(by, table, json) ==
    IF ~Extracts(json) \/ json["type"] \notin table
    THEN Outcome(by, "error", NoInstance)
    ELSE IF FromJsonReturns(json["type"], json["object"])
    THEN Outcome(by, "visit", FromJson(json["type"], json["object"]))
    ELSE Outcome(by, "exception", NoInstance)

RequestTable == {"request_login", "request_message"}

\* Mutant of ResponseTable: an entry is forgotten.
ResponseTable_Forgets == {"response_message"}

\* No entry for errors: they are reported as a type that is not known.
ResponseTable == {"response_login", "response_message"}

\* fromJson<T>, for an expected class T, does not look at the type.
ReadAs(kind, json) ==
    IF ~Extracts(json) THEN Outcome(kind, "null", NoInstance)
    ELSE IF FromJsonReturns(kind, json["object"])
    THEN Outcome(kind, "read", FromJson(kind, json["object"]))
    ELSE Outcome(kind, "exception", NoInstance)

-----------------------------------------------------------------------------
(* Programs that use the library. *)

Waiting == Outcome("nobody", "none", NoInstance)
NoText  == [p \in {} |-> "none"]

Init ==
    /\ origin = NoInstance
    /\ text = NoText
    /\ edited = {}
    /\ trips = 0
    /\ answer = Waiting

Output(instance) ==
    /\ trips < MaxTrips
    /\ trips' = trips + 1
    /\ text' \in ToJson(instance)
    /\ answer' = Waiting

\* What a program builds first, and prints.
Build(instance) ==
    /\ origin = NoInstance
    /\ origin' = instance
    /\ Output(instance)
    /\ UNCHANGED edited

Time == [minute: Minutes, micro: Micros, nano: Nanos]

BuildAny ==
    \E time \in Time, sender \in Who \cup {SERVER_SENDER} :
        \/ Build(RequestLogin(time, sender))
        \/ \E name \in Who : Build(ResponseLogin(time, sender, name))
        \/ \E word \in Word :
            \/ Build(RequestMessage(time, sender, word))
            \/ \E name \in Who :
                \/ Build(ResponseMessage(time, sender, name, word))
                \/ \E code \in ErrorCode :
                        Build(Error(time, sender, name, code, word))

OnItsWay == origin # NoInstance /\ answer = Waiting

\* A program of another version leaves a property out, of the two at the top
\* or of the object, or writes another type, date or code.
Without(f, p) == [q \in DOMAIN f \ {p} |-> f[q]]

With(f, p, value) == [f EXCEPT ![p] = value]

\* Numbers at the limits of those get_value<uint16_t> reads.
ForeignCode == {-65536, -1, 65535, 65536}

ForeignDate == [readable |-> FALSE, minute |-> 0, micro |-> 0]

Object(json) == IF "object" \in DOMAIN json THEN json["object"] ELSE NoText

Edit ==
    /\ OnItsWay
    /\ Cardinality(edited) < MaxEdits
    /\ \/ \E p \in DOMAIN text :
            /\ text' = Without(text, p)
            /\ edited' = edited \cup {p}
       \/ \E p \in DOMAIN Object(text) :
            /\ text' = With(text, "object", Without(Object(text), p))
            /\ edited' = edited \cup {p}
       \/ \E tag \in Kind \cup {"unknown"} :
            /\ "type" \in DOMAIN text
            /\ text' = With(text, "type", tag)
            /\ edited' = edited \cup {"type"}
       \/ /\ "datetime" \in DOMAIN Object(text)
          /\ text' = With(text, "object",
                          With(Object(text), "datetime", ForeignDate))
          /\ edited' = edited \cup {"datetime"}
       \/ \E code \in ForeignCode :
            /\ "code" \in DOMAIN Object(text)
            /\ text' = With(text, "object", With(Object(text), "code", code))
            /\ edited' = edited \cup {"code"}
    /\ UNCHANGED <<origin, trips, answer>>

Receive ==
    /\ OnItsWay
    /\ \/ answer' = Visit("request", RequestTable, text)
       \/ answer' = Visit("response", ResponseTable, text)
       \/ \E kind \in Kind : answer' = ReadAs(kind, text)
    /\ UNCHANGED <<origin, text, edited, trips>>

Arrived == answer.call \in {"visit", "read"}

\* A visitor passes on what it was called with.
Relay ==
    /\ answer.call = "visit"
    /\ Output(answer.got)
    /\ UNCHANGED <<origin, edited>>

Next == BuildAny \/ Edit \/ Receive \/ Relay

Spec == Init /\ [][Next]_vars

-----------------------------------------------------------------------------
\* The values of uint16_t.
Code == { number \in Nat : number < 65536 }

(***************************************************************************)
(* fromJson, the visitors: whatever is missing or was written by another   *)
(* program, an instance that is handed over carries what the first one     *)
(* was built with, property by property, and nothing is made up for one    *)
(* that is missing.  Two can be edited and still be read: a code becomes   *)
(* one of 16 bits, and for a date that operator>> cannot read every        *)
(* program after it is given the epoch, which nobody built: the one value  *)
(* the library makes up.  The date that is not edited is TimeSettles.      *)
(***************************************************************************)
NothingMadeUp ==
    Arrived =>
        LET got == answer.got
        IN  /\ got.kind \in Kind
            /\ Sender(got) = Sender(origin)
            /\ DOMAIN got.own \subseteq DOMAIN origin.own
            /\ \A p \in DOMAIN got.own :
                    IF p = "code" /\ "code" \in edited
                    THEN got.own[p] \in Code
                    ELSE got.own[p] = origin.own[p]
            /\ "datetime" \in edited => got.time = Epoch

(***************************************************************************)
(* abstract_message_visitor: what was printed by the library and not       *)
(* edited is never refused: the visitor of its side visits it, as what it  *)
(* is, after any number of relays.  Errors are reported, as unknown.       *)
(***************************************************************************)
Side(kind) == IF kind \in RequestTable THEN "request" ELSE "response"

UneditedIsVisited ==
    edited = {} /\ answer.by = Side(origin.kind) =>
        IF IsErrorMsg(origin)
        THEN answer.call = "error"
        ELSE answer.call = "visit" /\ answer.got.kind = origin.kind

(***************************************************************************)
(* chrono_io, extractCommonParams: a date is off by half a microsecond at  *)
(* most when it is first read, across the full minute as well, and no      *)
(* relay moves it any further.                                             *)
(***************************************************************************)
Moment(time) == 60000000 * time.minute + time.micro

TimeSettles ==
    Arrived /\ "datetime" \notin edited =>
        LET late == Moment(answer.got.time) - Moment(origin.time)
        IN  /\ answer.got.time.nano = 0
            /\ \/ late = 0 /\ origin.time.nano <= 500
               \/ late = 1 /\ origin.time.nano >= 500
=============================================================================
