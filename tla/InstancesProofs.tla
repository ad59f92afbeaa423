--------------------------- MODULE InstancesProofs ---------------------------
(***************************************************************************)
(* What a program is handed carries what another one built, for all values *)
(* of the constants: any number of relays and of edits.  An answer says    *)
(* nothing but what was in the text, so the invariant is one of the text.  *)
(***************************************************************************)
EXTENDS Instances, TLAPS

\* The instance that was built has the properties of its class.
OriginInv ==
    origin # NoInstance =>
        /\ origin.kind \in Kind
        /\ origin.time \in Time
        /\ DOMAIN origin.own = Own[origin.kind]
        /\ origin.kind = "response_error" => origin.own["code"] \in ErrorCode

\* The text gives the moment of the first instance, rounded.
Gives(date, time) ==
    /\ date.readable
    /\ date.minute \in Nat /\ date.micro \in Nat
    /\ \/ Moment(date) = Moment(time) /\ time.nano <= 500
       \/ Moment(date) = Moment(time) + 1 /\ time.nano >= 500

\* A date that is read as the epoch.
GivesEpoch(date) == date.readable => date.minute = 0 /\ date.micro = 0

\* A property of the text is one of the first instance, unless it is edited.
Carries(object, first, changed) ==
    /\ DOMAIN object \subseteq Common \cup DOMAIN first.own
    /\ "sender" \in DOMAIN object => object["sender"] = Sender(first)
    /\ \A p \in DOMAIN object \ Common :
            /\ p = "code" /\ "code" \in changed => object[p] \in Int
            /\ p # "code" \/ "code" \notin changed => object[p] = first.own[p]
    /\ "datetime" \in DOMAIN object /\ "datetime" \notin changed
            => Gives(object["datetime"], first.time)
    /\ "datetime" \in DOMAIN object /\ "datetime" \in changed
            => GivesEpoch(object["datetime"])

\* Nothing of the text is missing.
Whole ==
    /\ {"type", "object"} \subseteq DOMAIN text
    /\ text["type"] = origin.kind
    /\ DOMAIN text["object"] = Common \cup Own[origin.kind]

TextInv ==
    origin # NoInstance =>
        /\ DOMAIN text \subseteq {"type", "object"}
        /\ "object" \in DOMAIN text => Carries(text["object"], origin, edited)
        /\ edited = {} => Whole

\* An answer is what a visitor or fromJson made of the text.
Answers ==
    { Visit("request", RequestTable, text),
      Visit("response", ResponseTable, text) }
    \cup { ReadAs(kind, text) : kind \in Kind }

AnswerInv ==
    answer # Waiting => origin # NoInstance /\ answer \in Answers

\* Before there is an instance there is nothing to edit.
UneditedInv == origin = NoInstance => edited = {}

InstancesInv == OriginInv /\ TextInv /\ AnswerInv /\ UneditedInv

-----------------------------------------------------------------------------
(* Classes and texts. *)

LEMMA Classes ==
    /\ Kind = {"request_login", "request_message", "response_login",
               "response_message", "response_error"}
    /\ \A kind \in Kind :
        /\ "joiningUsername" \in Own[kind] <=> kind = "response_login"
        /\ "code" \in Own[kind] <=> kind = "response_error"
        /\ Common \cap Own[kind] = {}
    /\ RequestTable \subseteq Kind /\ ResponseTable \subseteq Kind
<1>1. Kind = {"request_login", "request_message", "response_login",
              "response_message", "response_error"}
  BY DEF Kind, Own
<1>2. /\ Own["request_login"] = {}
      /\ Own["request_message"] = {"content"}
      /\ Own["response_login"] = {"joiningUsername"}
      /\ Own["response_message"] = {"originator", "content"}
      /\ Own["response_error"] = {"code", "message", "originator"}
  BY DEF Own, RequestLoginOwn, RequestMessageOwn, ResponseLoginOwn,
     ResponseMessageOwn, ErrorOwn
<1>3. RequestTable \subseteq Kind /\ ResponseTable \subseteq Kind
  BY <1>1 DEF RequestTable, ResponseTable
<1>4. \A kind \in Kind :
        /\ "joiningUsername" \in Own[kind] <=> kind = "response_login"
        /\ "code" \in Own[kind] <=> kind = "response_error"
        /\ Common \cap Own[kind] = {}
  BY <1>1, <1>2 DEF Common
<1> QED
  BY <1>1, <1>3, <1>4

LEMMA TimeTyped ==
    ASSUME NEW time \in Time
    PROVE  time.minute \in Nat /\ time.micro \in Nat /\ time.nano \in Nat
<1>1. Minutes \subseteq Nat /\ Micros \subseteq Nat /\ Nanos \subseteq Nat
  BY ClockAssumption, SMT
<1>2. time.minute \in Minutes /\ time.micro \in Micros /\ time.nano \in Nanos
  BY DEF Time
<1> QED
  BY <1>1, <1>2

\* A date that is printed is rounded to a neighbour.
LEMMA PrintedDate ==
    ASSUME NEW time \in Time, NEW date \in DateTexts(time)
    PROVE  Gives(date, time)
<1>1. time.minute \in Nat /\ time.micro \in Nat /\ time.nano \in Nat
  BY TimeTyped
<1>2. PICK micro \in {time.micro, time.micro + 1} :
        /\ IF micro = time.micro THEN time.nano <= 500 ELSE time.nano >= 500
        /\ date = [readable |-> TRUE, minute |-> time.minute, micro |-> micro]
  BY DEF DateTexts
<1>3. CASE micro = time.micro
  BY <1>1, <1>2, <1>3 DEF Gives, Moment
<1>4. CASE micro = time.micro + 1
  BY <1>1, <1>2, <1>4 DEF Gives, Moment
<1> QED
  BY <1>2, <1>3, <1>4

\* A date that is read is the moment it gives, in full minutes and the rest.
LEMMA ReadDate ==
    ASSUME NEW time \in Time, NEW date, Gives(date, time)
    PROVE  /\ DateRead(date).minute \in Nat /\ DateRead(date).micro \in Nat
           /\ DateRead(date).nano = 0
           /\ \/ Moment(DateRead(date)) = Moment(time) /\ time.nano <= 500
              \/ Moment(DateRead(date)) = Moment(time) + 1 /\ time.nano >= 500
<1> DEFINE q == date.micro \div 60000000
           r == date.micro % 60000000
<1>1. date.readable /\ date.minute \in Nat /\ date.micro \in Nat
  BY DEF Gives
<1>2. q \in Nat /\ r \in Nat /\ date.micro = 60000000 * q + r
  BY <1>1
<1>3. /\ DateRead(date).minute = date.minute + q
      /\ DateRead(date).micro = r /\ DateRead(date).nano = 0
  BY <1>1 DEF DateRead
<1> HIDE DEF q, r
<1>4. Moment(DateRead(date)) = Moment(date)
  BY <1>1, <1>2, <1>3 DEF Moment
<1> QED
  BY <1>1, <1>2, <1>3, <1>4 DEF Gives

\* It is printed again as it was read.
LEMMA RelayedDate ==
    ASSUME NEW time \in Time, NEW got,
           got.minute \in Nat, got.micro \in Nat, got.nano = 0,
           \/ Moment(got) = Moment(time) /\ time.nano <= 500
           \/ Moment(got) = Moment(time) + 1 /\ time.nano >= 500,
           NEW date \in DateTexts(got)
    PROVE  Gives(date, time)
<1>1. PICK micro \in {got.micro, got.micro + 1} :
        /\ IF micro = got.micro THEN got.nano <= 500 ELSE got.nano >= 500
        /\ date = [readable |-> TRUE, minute |-> got.minute, micro |-> micro]
  BY DEF DateTexts
<1>2. micro = got.micro
  BY <1>1
<1>3. /\ date.readable /\ date.minute = got.minute /\ date.micro = got.micro
      /\ Moment(date) = Moment(got)
  BY <1>1, <1>2 DEF Moment
<1> QED
  BY <1>3 DEF Gives

\* So it is with the epoch that was read for want of a date.
LEMMA ReadEpoch ==
    ASSUME NEW date, GivesEpoch(date)
    PROVE  DateRead(date) = Epoch
<1>1. CASE date.readable
  <2>1. date.minute = 0 /\ date.micro = 0
    BY <1>1 DEF GivesEpoch
  <2>2. 0 + 0 \div 60000000 = 0 /\ 0 % 60000000 = 0
    OBVIOUS
  <2> QED
    BY <1>1, <2>1, <2>2 DEF DateRead, Epoch
<1>2. CASE ~date.readable
  BY <1>2 DEF DateRead
<1> QED
  BY <1>1, <1>2

LEMMA PrintedEpoch ==
    ASSUME NEW date \in DateTexts(Epoch)
    PROVE  GivesEpoch(date)
<1>1. PICK micro \in {0, 0 + 1} :
        /\ IF micro = 0 THEN 0 <= 500 ELSE 0 >= 500
        /\ date = [readable |-> TRUE, minute |-> 0, micro |-> micro]
  BY DEF DateTexts, Epoch
<1>2. micro = 0
  BY <1>1
<1> QED
  BY <1>1, <1>2 DEF GivesEpoch

\* What is printed of an instance.
LEMMA Printed ==
    ASSUME NEW instance, NEW json \in ToJson(instance)
    PROVE  \E date \in DateTexts(instance.time) :
            /\ DOMAIN json = {"type", "object"}
            /\ json["type"] = instance.kind
            /\ DOMAIN json["object"] = Common \cup Own[instance.kind]
            /\ json["object"]["datetime"] = date
            /\ json["object"]["sender"] = Sender(instance)
            /\ \A p \in Own[instance.kind] \ Common :
                    json["object"][p] = instance.own[p]
<1>1. PICK date \in DateTexts(instance.time) :
        json = [type |-> instance.kind, object |-> ObjectJson(instance, date)]
  BY DEF ToJson
<1>2. /\ DOMAIN json = {"type", "object"} /\ json["type"] = instance.kind
      /\ json["object"] = ObjectJson(instance, date)
  BY <1>1
<1>3. /\ DOMAIN ObjectJson(instance, date) = Common \cup Own[instance.kind]
      /\ ObjectJson(instance, date)["datetime"] = date
      /\ ObjectJson(instance, date)["sender"] = Sender(instance)
      /\ \A p \in Own[instance.kind] \ Common :
            ObjectJson(instance, date)[p] = instance.own[p]
  <2>1. /\ BaseJson(instance, date)["datetime"] = date
        /\ BaseJson(instance, date)["sender"] = Sender(instance)
    BY DEF BaseJson
  <2> HIDE DEF BaseJson
  <2>2. "datetime" \in Common /\ "sender" \in Common
    BY DEF Common
  <2> QED
    BY <2>1, <2>2 DEF ObjectJson
<1> QED
  BY <1>2, <1>3

-----------------------------------------------------------------------------
(* What is read carries what was built. *)

\* An answer comes from the object of the text, read as a class.
LEMMA ReadFrom ==
    ASSUME AnswerInv, Arrived
    PROVE  /\ origin # NoInstance /\ Extracts(text)
           /\ \E kind \in Kind :
                /\ FromJsonReturns(kind, text["object"])
                /\ answer.got = FromJson(kind, text["object"])
                /\ answer.call = "visit" => text["type"] = kind
<1>1. answer # Waiting
  BY DEF Arrived, Waiting, Outcome
<1>2. origin # NoInstance /\ answer \in Answers
  BY <1>1 DEF AnswerInv
<1>3. ASSUME NEW by, NEW table \in SUBSET Kind,
             answer = Visit(by, table, text)
      PROVE  /\ Extracts(text)
             /\ \E kind \in Kind :
                    /\ FromJsonReturns(kind, text["object"])
                    /\ answer.got = FromJson(kind, text["object"])
                    /\ text["type"] = kind
  <2>1. CASE ~Extracts(text) \/ text["type"] \notin table
    BY <1>3, <2>1 DEF Visit, Outcome, Arrived
  <2>2. CASE Extracts(text) /\ text["type"] \in table
    <3>1. CASE FromJsonReturns(text["type"], text["object"])
      BY <1>3, <2>2, <3>1 DEF Visit, Outcome
    <3>2. CASE ~FromJsonReturns(text["type"], text["object"])
      BY <1>3, <2>2, <3>2 DEF Visit, Outcome, Arrived
    <3> QED
      BY <3>1, <3>2
  <2> QED
    BY <2>1, <2>2
<1>4. ASSUME NEW kind \in Kind, answer = ReadAs(kind, text)
      PROVE  /\ Extracts(text)
             /\ FromJsonReturns(kind, text["object"])
             /\ answer.got = FromJson(kind, text["object"])
             /\ answer.call # "visit"
  <2>1. CASE ~Extracts(text)
    BY <1>4, <2>1 DEF ReadAs, Outcome, Arrived
  <2>2. CASE Extracts(text) /\ ~FromJsonReturns(kind, text["object"])
    BY <1>4, <2>2 DEF ReadAs, Outcome, Arrived
  <2>3. CASE Extracts(text) /\ FromJsonReturns(kind, text["object"])
    BY <1>4, <2>3 DEF ReadAs, Outcome
  <2> QED
    BY <2>1, <2>2, <2>3
<1> QED
  BY <1>2, <1>3, <1>4, Classes DEF Answers

LEMMA CodeIsRead == \A number \in Int : CodeRead(number) \in Code
  BY SMT DEF CodeRead, Code

LEMMA CodeStays == \A code \in ErrorCode : CodeRead(code) = code
  BY DEF CodeRead, ErrorCode

\* A property as NothingMadeUp has it, and a time as TimeSettles does.
Kept(p, value) ==
    /\ p = "code" /\ "code" \in edited => value \in Code
    /\ p # "code" \/ "code" \notin edited => value = origin.own[p]

Settled(time) ==
    /\ time.minute \in Nat /\ time.micro \in Nat /\ time.nano = 0
    /\ \/ Moment(time) = Moment(origin.time) /\ origin.time.nano <= 500
       \/ Moment(time) = Moment(origin.time) + 1 /\ origin.time.nano >= 500

\* An instance of a class that carries what the first one was built with.
Genuine(got, kind) ==
    /\ got.kind = kind
    /\ Sender(got) = Sender(origin)
    /\ DOMAIN got.own = Own[kind] /\ Own[kind] \subseteq DOMAIN origin.own
    /\ \A p \in Own[kind] : Kept(p, got.own[p])
    /\ "datetime" \notin edited => Settled(got.time)
    /\ "datetime" \in edited => got.time = Epoch

\* fromJson of whatever class returns such an instance.
LEMMA ReadCarries ==
    ASSUME OriginInv, origin # NoInstance,
           NEW object, Carries(object, origin, edited), NEW kind \in Kind,
           FromJsonReturns(kind, object)
    PROVE  Genuine(FromJson(kind, object), kind)
<1> DEFINE got == FromJson(kind, object)
<1>1. /\ got.kind = kind /\ got.sender = object["sender"]
      /\ got.time = DateRead(object["datetime"])
      /\ got.own = [p \in Own[kind] |-> IF p = "code" THEN CodeRead(object[p])
                                                      ELSE object[p]]
  BY DEF FromJson, Instance
<1> HIDE DEF got
<1>2. /\ Own[kind] \subseteq DOMAIN object \ Common
      /\ "sender" \in DOMAIN object /\ "datetime" \in DOMAIN object
  BY Classes DEF FromJsonReturns, Common
<1>3. DOMAIN got.own = Own[kind] /\ Own[kind] \subseteq DOMAIN origin.own
  BY <1>1, <1>2 DEF Carries
<1>4. Sender(got) = Sender(origin)
  <2>1. object["sender"] = Sender(origin)
    BY <1>2 DEF Carries
  <2>2. ASSUME kind = "response_login"
        PROVE  origin.kind = "response_login"
    <3>1. "joiningUsername" \in DOMAIN origin.own
      BY <1>3, <2>2, Classes
    <3>2. origin.kind \in Kind /\ DOMAIN origin.own = Own[origin.kind]
      BY DEF OriginInv
    <3> QED
      BY <3>1, <3>2, Classes
  <2> QED
    BY <1>1, <2>1, <2>2 DEF Sender
<1>5. ASSUME NEW p \in Own[kind]
      PROVE  Kept(p, got.own[p])
  <2>1. CASE p # "code"
    <3>1. got.own[p] = object[p]
      BY <1>1, <2>1
    <3>2. object[p] = origin.own[p]
      BY <1>2, <2>1 DEF Carries
    <3> QED
      BY <2>1, <3>1, <3>2 DEF Kept
  <2>2. CASE p = "code"
    <3>1. got.own[p] = CodeRead(object["code"])
      BY <1>1, <2>2
    <3>2. CASE "code" \in edited
      <4>1. object["code"] \in Int
        BY <1>2, <2>2, <3>2 DEF Carries
      <4>2. CodeRead(object["code"]) \in Code
        BY <4>1, CodeIsRead
      <4> QED
        BY <2>2, <3>1, <3>2, <4>2 DEF Kept
    <3>3. CASE "code" \notin edited
      <4>1. object["code"] = origin.own["code"]
        BY <1>2, <2>2, <3>3 DEF Carries
      <4>2. origin.kind = "response_error"
        <5>1. "code" \in DOMAIN origin.own
          BY <1>3, <2>2
        <5>2. origin.kind \in Kind /\ DOMAIN origin.own = Own[origin.kind]
          BY DEF OriginInv
        <5> QED
          BY <5>1, <5>2, Classes
      <4>3. origin.own["code"] \in ErrorCode
        BY <4>2 DEF OriginInv
      <4> QED
        BY <2>2, <3>1, <3>3, <4>1, <4>3, CodeStays DEF Kept
    <3> QED
      BY <3>2, <3>3
  <2> QED
    BY <2>1, <2>2
<1>6. ASSUME "datetime" \notin edited
      PROVE  Settled(got.time)
  <2>1. Gives(object["datetime"], origin.time)
    BY <1>2, <1>6 DEF Carries
  <2>2. origin.time \in Time
    BY DEF OriginInv
  <2> QED
    BY <1>1, <2>1, <2>2, ReadDate DEF Settled
<1>7. ASSUME "datetime" \in edited
      PROVE  got.time = Epoch
  <2>1. GivesEpoch(object["datetime"])
    BY <1>2, <1>7 DEF Carries
  <2> QED
    BY <1>1, <2>1, ReadEpoch
<1>8. got.kind = kind
  BY <1>1
<1>9. Genuine(got, kind)
  BY <1>3, <1>4, <1>5, <1>6, <1>7, <1>8 DEF Genuine
<1> QED
  BY <1>9 DEF got

LEMMA ArrivedCarries ==
    ASSUME InstancesInv, Arrived
    PROVE  /\ origin # NoInstance
           /\ \E kind \in Kind :
                /\ Genuine(answer.got, kind)
                /\ answer.call = "visit" => text["type"] = kind
<1>1. origin # NoInstance /\ Extracts(text)
  BY ReadFrom DEF InstancesInv
<1>2. PICK kind \in Kind :
        /\ FromJsonReturns(kind, text["object"])
        /\ answer.got = FromJson(kind, text["object"])
        /\ answer.call = "visit" => text["type"] = kind
  BY ReadFrom DEF InstancesInv
<1>3. Carries(text["object"], origin, edited)
  BY <1>1 DEF InstancesInv, TextInv, Extracts
<1>4. Genuine(FromJson(kind, text["object"]), kind)
  BY <1>1, <1>2, <1>3, ReadCarries DEF InstancesInv
<1> QED
  BY <1>1, <1>2, <1>4

-----------------------------------------------------------------------------
(* The steps. *)

LEMMA InstancesInit == Init => InstancesInv
  BY DEF Init, InstancesInv, OriginInv, TextInv, AnswerInv, UneditedInv

\* The constructors, each with the properties of its class.
Built(instance) ==
    /\ instance.kind \in Kind
    /\ instance.time \in Time
    /\ DOMAIN instance.own = Own[instance.kind]
    /\ instance.kind = "response_error" => instance.own["code"] \in ErrorCode

LEMMA Constructors ==
    ASSUME NEW time \in Time, NEW sender
    PROVE  /\ Built(RequestLogin(time, sender))
           /\ \A name : Built(ResponseLogin(time, sender, name))
           /\ \A word : Built(RequestMessage(time, sender, word))
           /\ \A name, word :
                Built(ResponseMessage(time, sender, name, word))
           /\ \A name, word : \A code \in ErrorCode :
                Built(Error(time, sender, name, code, word))
<1>1. /\ Own["request_login"] = {}
      /\ Own["request_message"] = {"content"}
      /\ Own["response_login"] = {"joiningUsername"}
      /\ Own["response_message"] = {"originator", "content"}
      /\ Own["response_error"] = {"code", "message", "originator"}
  BY DEF Own, RequestLoginOwn, RequestMessageOwn, ResponseLoginOwn,
     ResponseMessageOwn, ErrorOwn
<1>2. ASSUME NEW kind \in Kind, NEW own, DOMAIN own = Own[kind],
             kind = "response_error" => own["code"] \in ErrorCode
      PROVE  Built(Instance(kind, time, sender, own))
  BY <1>2 DEF Built, Instance
<1>3. Built(RequestLogin(time, sender))
  BY <1>1, <1>2, Classes DEF RequestLogin
<1>4. \A name : Built(ResponseLogin(time, sender, name))
  BY <1>1, <1>2, Classes DEF ResponseLogin
<1>5. \A word : Built(RequestMessage(time, sender, word))
  BY <1>1, <1>2, Classes DEF RequestMessage
<1>6. \A name, word : Built(ResponseMessage(time, sender, name, word))
  BY <1>1, <1>2, Classes DEF ResponseMessage
<1>7. \A name, word : \A code \in ErrorCode :
        Built(Error(time, sender, name, code, word))
  BY <1>1, <1>2, Classes DEF Error
<1> QED
  BY <1>3, <1>4, <1>5, <1>6, <1>7

\* A new instance has the properties of its class, and so has its text.
LEMMA BuildKeeps ==
    ASSUME InstancesInv, BuildAny
    PROVE  InstancesInv'
<1>1. PICK instance : Build(instance) /\ Built(instance)
  <2>1. PICK time \in Time, sender \in Who \cup {SERVER_SENDER} :
        \/ Build(RequestLogin(time, sender))
        \/ \E name \in Who : Build(ResponseLogin(time, sender, name))
        \/ \E word \in Word :
            \/ Build(RequestMessage(time, sender, word))
            \/ \E name \in Who :
                \/ Build(ResponseMessage(time, sender, name, word))
                \/ \E code \in ErrorCode :
                        Build(Error(time, sender, name, code, word))
    BY DEF BuildAny
  <2> QED
    BY <2>1, Constructors
<1>2. /\ origin' = instance /\ text' \in ToJson(instance)
      /\ answer' = Waiting /\ edited' = edited
  BY <1>1 DEF Build, Output
<1>3. PICK date \in DateTexts(instance.time) :
        /\ DOMAIN text' = {"type", "object"}
        /\ text'["type"] = instance.kind
        /\ DOMAIN text'["object"] = Common \cup Own[instance.kind]
        /\ text'["object"]["datetime"] = date
        /\ text'["object"]["sender"] = Sender(instance)
        /\ \A p \in Own[instance.kind] \ Common :
                text'["object"][p] = instance.own[p]
  BY <1>2, Printed
<1>4. OriginInv'
  BY <1>1, <1>2 DEF OriginInv, Built
<1>5. Gives(text'["object"]["datetime"], instance.time)
  BY <1>1, <1>3, PrintedDate DEF Built
<1>6. edited = {}
  BY <1>1 DEF Build, InstancesInv, UneditedInv
<1>7. Whole'
  BY <1>2, <1>3 DEF Whole
<1>8. Carries(text'["object"], origin', edited')
  <2>1. ASSUME NEW p \in Own[instance.kind] \ Common,
               p = "code"
        PROVE  text'["object"][p] \in Int
    <3>1. instance.kind = "response_error"
      BY <1>1, <2>1, Classes DEF Built
    <3>2. instance.own["code"] \in Int
      BY <1>1, <3>1 DEF ErrorCode, Built
    <3> QED
      BY <1>3, <2>1, <3>2
  <2> QED
    BY <1>1, <1>2, <1>3, <1>5, <1>6, <2>1 DEF Carries, Built
<1>9. AnswerInv'
  BY <1>2 DEF AnswerInv
<1> QED
  <2>1. DOMAIN text' \subseteq {"type", "object"}
    BY <1>3
  <2> QED
    BY <1>2, <1>4, <1>6, <1>7, <1>8, <1>9, <2>1
       DEF InstancesInv, TextInv, UneditedInv

\* What was visited is printed with all that it carries.
LEMMA RelayKeeps ==
    ASSUME InstancesInv, Relay
    PROVE  InstancesInv'
<1> DEFINE got == answer.got
<1>1. /\ text' \in ToJson(got) /\ answer' = Waiting
      /\ answer.call = "visit" /\ UNCHANGED <<origin, edited>>
  BY DEF Relay, Output
<1>2. PICK kind \in Kind :
        /\ origin # NoInstance
        /\ Genuine(got, kind)
        /\ answer.call = "visit" => text["type"] = kind
  BY <1>1, ArrivedCarries DEF Arrived
<1> HIDE DEF got
<1>3. PICK date \in DateTexts(got.time) :
        /\ DOMAIN text' = {"type", "object"}
        /\ text'["type"] = got.kind
        /\ DOMAIN text'["object"] = Common \cup Own[got.kind]
        /\ text'["object"]["datetime"] = date
        /\ text'["object"]["sender"] = Sender(got)
        /\ \A p \in Own[got.kind] \ Common : text'["object"][p] = got.own[p]
  BY <1>1, Printed
<1>4. OriginInv' /\ Sender(origin)' = Sender(origin)
  BY <1>1 DEF InstancesInv, OriginInv, Sender
<1>5. origin.time \in Time
  BY <1>2 DEF InstancesInv, OriginInv
<1>6. "datetime" \notin edited =>
            Gives(text'["object"]["datetime"], origin.time)
  BY <1>2, <1>3, <1>5, RelayedDate DEF Genuine, Settled
<1>7. "datetime" \in edited => GivesEpoch(text'["object"]["datetime"])
  BY <1>2, <1>3, PrintedEpoch DEF Genuine
<1>8. Carries(text'["object"], origin', edited')
  <2>1. ASSUME NEW p \in Own[kind] \ Common
        PROVE  /\ p = "code" /\ "code" \in edited => text'["object"][p] \in Int
               /\ p # "code" \/ "code" \notin edited
                    => text'["object"][p] = origin.own[p]
    <3>1. Kept(p, got.own[p]) /\ text'["object"][p] = got.own[p]
      BY <1>2, <1>3 DEF Genuine
    <3>2. Code \subseteq Int
      BY DEF Code
    <3> QED
      BY <3>1, <3>2 DEF Kept
  <2>2. /\ DOMAIN text'["object"] \ Common = Own[kind] \ Common
        /\ DOMAIN text'["object"] \subseteq Common \cup DOMAIN origin.own
        /\ text'["object"]["sender"] = Sender(origin)
    BY <1>2, <1>3 DEF Genuine
  <2> QED
    BY <1>1, <1>4, <1>6, <1>7, <2>1, <2>2 DEF Carries
<1>9. edited = {} => Whole'
  <2>1. edited = {} => kind = origin.kind
    BY <1>1, <1>2 DEF InstancesInv, TextInv, Whole
  <2> QED
    BY <1>1, <1>2, <1>3, <2>1 DEF Whole, Genuine
<1>10. AnswerInv'
  BY <1>1 DEF AnswerInv
<1> QED
  BY <1>1, <1>2, <1>3, <1>4, <1>8, <1>9, <1>10
     DEF InstancesInv, TextInv, UneditedInv

\* Receiving leaves the text as it is.
LEMMA ReceiveKeeps ==
    ASSUME InstancesInv, Receive
    PROVE  InstancesInv'
<1>1. /\ UNCHANGED <<origin, text, edited>> /\ origin # NoInstance
      /\ \/ answer' = Visit("request", RequestTable, text)
         \/ answer' = Visit("response", ResponseTable, text)
         \/ \E kind \in Kind : answer' = ReadAs(kind, text)
  BY DEF Receive, OnItsWay
<1>2. OriginInv'
  BY <1>1 DEF InstancesInv, OriginInv
<1>3. TextInv'
  BY <1>1 DEF InstancesInv, TextInv, Carries, Whole
<1>4. answer' \in Answers /\ Answers' = Answers
  BY <1>1 DEF Answers
<1> QED
  BY <1>1, <1>2, <1>3, <1>4 DEF InstancesInv, AnswerInv, UneditedInv

\* An object that lost a property, or had its date or its code replaced.
LEMMA EditCarries ==
    ASSUME NEW first, NEW changed, NEW object, Carries(object, first, changed),
           NEW p \in DOMAIN object, NEW value, NEW new,
           \/ new = Without(object, p)
           \/ /\ new = With(object, p, value)
              /\ \/ p = "datetime" /\ GivesEpoch(value)
                 \/ p = "code" /\ value \in Int
    PROVE  Carries(new, first, changed \cup {p})
<1> DEFINE more == changed \cup {p}
<1>1. changed \subseteq more /\ p \in more
  OBVIOUS
<1> HIDE DEF more
<1>2. /\ DOMAIN new \subseteq DOMAIN object
      /\ \A q \in DOMAIN new : q # p => new[q] = object[q]
      /\ p \in DOMAIN new =>
            \/ p = "datetime" /\ GivesEpoch(new[p])
            \/ p = "code" /\ new[p] \in Int
  <2>1. CASE new = Without(object, p)
    BY <2>1 DEF Without
  <2>2. CASE /\ new = With(object, p, value)
             /\ \/ p = "datetime" /\ GivesEpoch(value)
                \/ p = "code" /\ value \in Int
    <3>1. /\ DOMAIN new = DOMAIN object /\ new[p] = value
          /\ \A q \in DOMAIN new : q # p => new[q] = object[q]
      BY <2>2 DEF With
    <3> QED
      BY <2>2, <3>1
  <2> QED
    BY <2>1, <2>2
<1>3. ASSUME NEW q \in DOMAIN new \ Common
      PROVE  /\ q = "code" /\ "code" \in more => new[q] \in Int
             /\ q # "code" \/ "code" \notin more => new[q] = first.own[q]
  <2>1. CASE q = p
    BY <1>1, <1>2, <1>3, <2>1 DEF Common
  <2>2. CASE q # p
    <3>1. q \in DOMAIN object \ Common /\ new[q] = object[q]
      BY <1>2, <1>3, <2>2
    <3>2. "code" \in more => "code" \in changed \/ p = "code"
      BY DEF more
    <3> QED
      BY <1>1, <2>2, <3>1, <3>2 DEF Carries
  <2> QED
    BY <2>1, <2>2
<1>4. "sender" \in DOMAIN new => new["sender"] = Sender(first)
  BY <1>2 DEF Carries
<1>5. "datetime" \in DOMAIN new /\ "datetime" \notin more
        => Gives(new["datetime"], first.time)
  BY <1>1, <1>2 DEF Carries
<1>6. "datetime" \in DOMAIN new /\ "datetime" \in more
        => GivesEpoch(new["datetime"])
  <2>1. CASE p = "datetime"
    BY <1>2, <2>1
  <2>2. CASE p # "datetime"
    BY <1>2, <2>2 DEF Carries, more
  <2> QED
    BY <2>1, <2>2
<1>7. DOMAIN new \subseteq Common \cup DOMAIN first.own
  BY <1>2 DEF Carries
<1>8. Carries(new, first, more)
  BY <1>3, <1>4, <1>5, <1>6, <1>7 DEF Carries
<1> QED
  BY <1>8 DEF more

\* What is edited elsewhere leaves the object as it was.
LEMMA StillCarries ==
    ASSUME OriginInv, origin # NoInstance,
           NEW object, Carries(object, origin, edited),
           NEW more, edited \subseteq more,
           "datetime" \in more => "datetime" \in edited
    PROVE  Carries(object, origin, more)
<1>1. ASSUME NEW p \in DOMAIN object \ Common
      PROVE  /\ p = "code" /\ "code" \in more => object[p] \in Int
             /\ p # "code" \/ "code" \notin more => object[p] = origin.own[p]
  <2>1. p # "code" \/ "code" \notin edited => object[p] = origin.own[p]
    BY DEF Carries
  <2>2. CASE p = "code" /\ "code" \notin edited
    <3>1. "code" \in DOMAIN origin.own
      BY <2>2 DEF Carries
    <3>2. origin.own["code"] \in ErrorCode
      BY <3>1, Classes DEF OriginInv
    <3> QED
      BY <2>1, <2>2, <3>2 DEF ErrorCode
  <2>3. CASE p = "code" /\ "code" \in edited
    BY <2>3 DEF Carries
  <2> QED
    BY <2>1, <2>2, <2>3
<1>2. /\ DOMAIN object \subseteq Common \cup DOMAIN origin.own
      /\ "sender" \in DOMAIN object => object["sender"] = Sender(origin)
      /\ "datetime" \in DOMAIN object /\ "datetime" \notin more
            => Gives(object["datetime"], origin.time)
      /\ "datetime" \in DOMAIN object /\ "datetime" \in more
            => GivesEpoch(object["datetime"])
  BY DEF Carries
<1> QED
  BY <1>1, <1>2 DEF Carries

\* Whatever is edited, the object is still one of the first instance.
LEMMA EditKeeps ==
    ASSUME InstancesInv, Edit
    PROVE  InstancesInv'
<1> DEFINE Holds == /\ edited' # {}
                    /\ DOMAIN text' \subseteq {"type", "object"}
                    /\ "object" \in DOMAIN text'
                         => Carries(text'["object"], origin, edited')
<1>1. UNCHANGED <<origin, answer>> /\ origin # NoInstance /\ answer = Waiting
  BY DEF Edit, OnItsWay
<1>2. OriginInv' /\ AnswerInv'
  BY <1>1 DEF InstancesInv, OriginInv, AnswerInv
<1>3. /\ OriginInv
      /\ DOMAIN text \subseteq {"type", "object"}
      /\ "object" \in DOMAIN text => Carries(text["object"], origin, edited)
  BY <1>1 DEF InstancesInv, TextInv
<1>4. \A p \in DOMAIN Object(text) :
        "object" \in DOMAIN text /\ Object(text) = text["object"]
  BY DEF Object, NoText
<1>5. ASSUME NEW p \in DOMAIN text, text' = Without(text, p),
             edited' = edited \cup {p}
      PROVE  Holds
  <2>1. "object" \in DOMAIN text' =>
            "object" \in DOMAIN text /\ text'["object"] = text["object"]
    BY <1>5 DEF Without
  <2>2. /\ edited' # {} /\ edited \subseteq edited'
        /\ "datetime" \in edited' => "datetime" \in edited
    BY <1>3, <1>5
  <2>3. DOMAIN text' \subseteq {"type", "object"}
    BY <1>3, <1>5 DEF Without
  <2> QED
    BY <1>1, <1>3, <2>1, <2>2, <2>3, StillCarries
<1>6. ASSUME NEW tag, "type" \in DOMAIN text, text' = With(text, "type", tag),
             edited' = edited \cup {"type"}
      PROVE  Holds
  <2>1. "object" \in DOMAIN text' =>
            "object" \in DOMAIN text /\ text'["object"] = text["object"]
    BY <1>6 DEF With
  <2>2. /\ edited' # {} /\ edited \subseteq edited'
        /\ "datetime" \in edited' => "datetime" \in edited
    BY <1>6
  <2>3. DOMAIN text' \subseteq {"type", "object"}
    BY <1>3, <1>6 DEF With
  <2> QED
    BY <1>1, <1>3, <2>1, <2>2, <2>3, StillCarries
<1>7. ASSUME NEW p \in DOMAIN Object(text), NEW value, NEW new,
             \/ new = Without(Object(text), p)
             \/ /\ new = With(Object(text), p, value)
                /\ \/ p = "datetime" /\ GivesEpoch(value)
                   \/ p = "code" /\ value \in Int,
             text' = With(text, "object", new), edited' = edited \cup {p}
      PROVE  Holds
  <2>1. Carries(Object(text), origin, edited)
    BY <1>3, <1>4
  <2>2. Carries(new, origin, edited \cup {p})
    BY <1>7, <2>1, EditCarries
  <2>3. "object" \in DOMAIN text
    BY <1>4
  <2>4. text'["object"] = new /\ DOMAIN text' \subseteq {"type", "object"}
    BY <1>3, <1>7, <2>3 DEF With
  <2> QED
    BY <1>7, <2>2, <2>4
<1> HIDE DEF Holds
<1>8. Holds
  <2>1. CASE \E p \in DOMAIN text :
                text' = Without(text, p) /\ edited' = edited \cup {p}
    BY <1>5, <2>1
  <2>2. CASE \E p \in DOMAIN Object(text) :
                /\ text' = With(text, "object", Without(Object(text), p))
                /\ edited' = edited \cup {p}
    BY <1>7, <2>2
  <2>3. CASE \E tag \in Kind \cup {"unknown"} :
                /\ "type" \in DOMAIN text
                /\ text' = With(text, "type", tag)
                /\ edited' = edited \cup {"type"}
    BY <1>6, <2>3
  <2>4. CASE /\ "datetime" \in DOMAIN Object(text)
             /\ text' = With(text, "object",
                             With(Object(text), "datetime", ForeignDate))
             /\ edited' = edited \cup {"datetime"}
    <3>1. GivesEpoch(ForeignDate)
      BY DEF GivesEpoch, ForeignDate
    <3> QED
      BY <1>7, <2>4, <3>1
  <2>5. CASE \E code \in ForeignCode :
                /\ "code" \in DOMAIN Object(text)
                /\ text' = With(text, "object",
                                With(Object(text), "code", code))
                /\ edited' = edited \cup {"code"}
    <3>1. ForeignCode \subseteq Int
      BY DEF ForeignCode
    <3> QED
      BY <1>7, <2>5, <3>1
  <2> QED
    BY <2>1, <2>2, <2>3, <2>4, <2>5 DEF Edit
<1> QED
  BY <1>1, <1>2, <1>8 DEF InstancesInv, TextInv, UneditedInv, Holds

LEMMA NextKeeps == InstancesInv /\ [Next]_vars => InstancesInv'
<1>1. CASE BuildAny
  BY <1>1, BuildKeeps
<1>2. CASE Edit
  BY <1>2, EditKeeps
<1>3. CASE Receive
  BY <1>3, ReceiveKeeps
<1>4. CASE Relay
  BY <1>4, RelayKeeps
<1>5. CASE UNCHANGED vars
  <2>1. UNCHANGED <<origin, text, edited, answer>>
    BY <1>5 DEF vars
  <2>2. (InstancesInv => OriginInv') /\ Answers' = Answers
    BY <2>1 DEF InstancesInv, OriginInv, Answers
  <2> QED
    BY <2>1, <2>2 DEF InstancesInv, TextInv, AnswerInv, UneditedInv, Whole
<1> QED
  BY <1>1, <1>2, <1>3, <1>4, <1>5 DEF Next

LEMMA InstancesAlways == Spec => []InstancesInv
  BY InstancesInit, NextKeeps, PTL DEF Spec

-----------------------------------------------------------------------------
(***************************************************************************)
(* fromJson, the visitors: an instance that is handed over carries what    *)
(* the first one was built with, whoever relayed or edited the text; an    *)
(* edited code is of 16 bits, and an edited date the epoch.                *)
(***************************************************************************)
THEOREM NothingIsMadeUp == Spec => []NothingMadeUp
<1>1. InstancesInv => NothingMadeUp
  <2> SUFFICES ASSUME InstancesInv, Arrived
               PROVE  NothingMadeUp
    BY DEF NothingMadeUp
  <2>1. PICK kind \in Kind : Genuine(answer.got, kind)
    BY ArrivedCarries
  <2>2. /\ answer.got.kind \in Kind
        /\ Sender(answer.got) = Sender(origin)
        /\ DOMAIN answer.got.own \subseteq DOMAIN origin.own
        /\ "datetime" \in edited => answer.got.time = Epoch
    BY <2>1 DEF Genuine
  <2>3. ASSUME NEW p \in DOMAIN answer.got.own
        PROVE  IF p = "code" /\ "code" \in edited
               THEN answer.got.own[p] \in Code
               ELSE answer.got.own[p] = origin.own[p]
    <3>1. Kept(p, answer.got.own[p])
      BY <2>1 DEF Genuine
    <3> QED
      BY <3>1, Zenon DEF Kept
  <2> QED
    BY <2>2, <2>3, Zenon DEF NothingMadeUp
<1> QED
  BY <1>1, InstancesAlways, PTL

(***************************************************************************)
(* chrono_io: a date is rounded when it is first printed and read, and     *)
(* stays so over any number of relays.                                     *)
(***************************************************************************)
THEOREM TimesSettle == Spec => []TimeSettles
<1>1. InstancesInv => TimeSettles
  <2> SUFFICES ASSUME InstancesInv, Arrived, "datetime" \notin edited
               PROVE  /\ answer.got.time.nano = 0
                      /\ \/ /\ Moment(answer.got.time)
                                - Moment(origin.time) = 0
                            /\ origin.time.nano <= 500
                         \/ /\ Moment(answer.got.time)
                                - Moment(origin.time) = 1
                            /\ origin.time.nano >= 500
    BY DEF TimeSettles
  <2>1. Settled(answer.got.time) /\ origin.time \in Time
    BY ArrivedCarries DEF Genuine, InstancesInv, OriginInv
  <2>2. /\ Moment(answer.got.time) \in Int
        /\ Moment(origin.time) \in Int
    BY <2>1, TimeTyped DEF Settled, Moment
  <2> QED
    BY <2>1, <2>2 DEF Settled
<1> QED
  BY <1>1, InstancesAlways, PTL

(***************************************************************************)
(* abstract_message_visitor: what was not edited is visited as what it is, *)
(* or reported if it is an error, after any number of relays.              *)
(***************************************************************************)
THEOREM UneditedAreVisited == Spec => []UneditedIsVisited
<1>1. InstancesInv => UneditedIsVisited
  <2> SUFFICES ASSUME InstancesInv, edited = {},
                      answer.by = Side(origin.kind)
               PROVE  /\ IsErrorMsg(origin) => answer.call = "error"
                      /\ ~IsErrorMsg(origin) =>
                            /\ answer.call = "visit"
                            /\ answer.got.kind = origin.kind
    BY DEF UneditedIsVisited
  <2>1. Side(origin.kind) \in {"request", "response"}
    BY DEF Side
  <2>2. answer # Waiting
    BY <2>1 DEF Waiting, Outcome
  <2>3. origin # NoInstance /\ answer \in Answers
    BY <2>2 DEF InstancesInv, AnswerInv
  <2>4. origin.kind \in Kind /\ Whole
    BY <2>3 DEF InstancesInv, OriginInv, TextInv
  <2>5. /\ \A by, table : Visit(by, table, text).by = by
        /\ \A kind \in Kind : ReadAs(kind, text).by = kind
    BY DEF Visit, ReadAs, Outcome
  <2>6. \/ answer = Visit("request", RequestTable, text)
        \/ answer = Visit("response", ResponseTable, text)
    BY <2>1, <2>3, <2>5, Classes DEF Answers
  <2>7. \E table :
            /\ answer = Visit(answer.by, table, text)
            /\ origin.kind \in table <=> ~IsErrorMsg(origin)
    <3>1. CASE origin.kind \in RequestTable
      <4>1. answer = Visit("request", RequestTable, text)
        BY <2>5, <2>6, <3>1 DEF Side
      <4> QED
        BY <3>1, <4>1 DEF Side, RequestTable, IsErrorMsg
    <3>2. CASE origin.kind \notin RequestTable
      <4>1. answer = Visit("response", ResponseTable, text)
        BY <2>5, <2>6, <3>2 DEF Side
      <4>2. origin.kind \in ResponseTable <=> ~IsErrorMsg(origin)
        BY <2>4, <3>2, Classes DEF RequestTable, ResponseTable, IsErrorMsg
      <4> QED
        BY <3>2, <4>1, <4>2 DEF Side
    <3> QED
      BY <3>1, <3>2
  <2>8. /\ Extracts(text) /\ text["type"] = origin.kind
        /\ ~IsErrorMsg(origin) => FromJsonReturns(origin.kind, text["object"])
    BY <2>4 DEF Whole, Extracts, FromJsonReturns, IsErrorMsg
  <2>9. FromJson(origin.kind, text["object"]).kind = origin.kind
    BY DEF FromJson, Instance
  <2> QED
    BY <2>7, <2>8, <2>9 DEF Visit, Outcome
<1> QED
  BY <1>1, InstancesAlways, PTL

=============================================================================
