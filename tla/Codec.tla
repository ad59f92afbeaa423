------------------------------- MODULE Codec -------------------------------
(***************************************************************************)
(* The wire format of a request as far as the server can tell it apart:    *)
(* what a client writes into its TCP stream, how the stream may be cut     *)
(* into pieces, and which bytes msg::json::from accepts.  TCP keeps no     *)
(* message boundaries, and socket::read returns whatever has arrived, so   *)
(* one read may return a part of a request, or more than one request.      *)
(*                                                                         *)
(* A request is abstracted to its type tag and its sender.  Its text is a  *)
(* sequence of segments: "whole" is the complete text, "head" a front that *)
(* contains no closing brace, "brace" a front that contains one (all the   *)
(* texts nest an object, so a cut between the two closing braces is        *)
(* possible), and "tail" the rest of a text after a "head" or a "brace".   *)
(***************************************************************************)
EXTENDS Naturals, SequencesExt

CONSTANTS
    Name,       \* user names a person may type
    NoName,     \* the empty std::string
    Requests    \* the requests the clients of an instance send

\* The empty string is not one of the names proper.
ASSUME NameAssumption == NoName \notin Name

\* A stored or transmitted name: server::sockets pairs a socket with one.
Names == Name \cup {NoName}

(***************************************************************************)
(* Type "other" stands for every text that is JSON with a type tag the     *)
(* visitor has no entry for, or without the tag or the object; type        *)
(* "incomplete" for a known tag whose object lacks a property.             *)
(***************************************************************************)
RequestType == {"login", "message", "other", "incomplete"}

Request == [type: RequestType, sender: Names]

ASSUME RequestsAssumption == Requests \subseteq Request

Segment == [req: Request, piece: {"whole", "head", "brace", "tail"}]

\* The text of r as one segment, and cut in two by the network.
Piece(r, p) == [req |-> r, piece |-> p]

Whole(r) == << Piece(r, "whole") >>

Halves(r) == { << Piece(r, front), Piece(r, "tail") >> :
                    front \in {"head", "brace"} }

\* Mutant of Trimmed: cut after the first request instead of the last brace.
Trimmed_FirstRequest(text) ==
    IF Len(text) > 1 /\ text[1].piece = "whole" THEN << text[1] >> ELSE text

(***************************************************************************)
(* json::from drops everything after the last closing brace.  Only a final *)
(* "head" has no brace, and it is dropped only if a brace precedes it.     *)
(***************************************************************************)
Trimmed(text) ==
    IF Len(text) > 1 /\ Last(text).piece = "head" THEN Front(text) ELSE text

(***************************************************************************)
(* read_json accepts one complete JSON text: an unfinished one and text    *)
(* after the end of one are both errors, thrown as an exception.           *)
(***************************************************************************)
Parses(text) ==
    LET kept == Trimmed(text)
    IN  \/ Len(kept) = 1 /\ kept[1].piece = "whole"
        \/ /\ Len(kept) = 2
           /\ kept[1].piece \in {"head", "brace"}
           /\ kept[2].piece = "tail"

\* The request that a text which parses stands for.
Parsed(text) == text[1].req

\* Mutant of Unknown: error() returns a response, which is then queued.
Unknown_Answered(r) == FALSE

\* abstract_message_visitor::visit finds no function for it, and error()
\* returns a null pointer.
Unknown(r) == r.type = "other"

\* fromJson misses a property, and throws.
Incomplete(r) == r.type = "incomplete"
=============================================================================
