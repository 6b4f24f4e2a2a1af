------------------------------ MODULE Message ------------------------------
(***************************************************************************)
(* Messages and the conversion of their values: what an application asks   *)
(* for in the constructor of AmqpMessage, what is sent, and what a         *)
(* receiver reads; and a receiver that forwards a message or replies to    *)
(* it. Messages of other programs arrive as well, with any AMQP type.      *)
(*                                                                         *)
(* A value is a pair of its type and its contents. Qore types are written  *)
(* as in Qore, AMQP types as in proton::type_id. Signed integers go from   *)
(* -LongLimit to LongLimit - 1 where they have 64 bits, and from -IntLimit *)
(* to IntLimit - 1 where they have 32. A second has Thousand milliseconds  *)
(* and a millisecond has Thousand microseconds. An absolute date is what   *)
(* Qore tells of it, the seconds since the epoch and the microseconds in   *)
(* that second; a relative date is its seconds and its microseconds, which *)
(* have its sign, or another one.                                          *)
(*                                                                         *)
(* The conversion of a container calls itself for the elements. Here these *)
(* calls are the constants ElementToQore and ElementToProton; for every    *)
(* value in Values and WireValues they are ProtonToQore and QoreToProton   *)
(* again, which ValuesAssumption and WireAssumption say and the            *)
(* configuration makes true. Containers are finite, and nested as deep as  *)
(* Depth says: a hash does not contain itself.                             *)
(***************************************************************************)
EXTENDS Integers, Sequences, FiniteSets, SequencesExt

CONSTANTS LongLimit, IntLimit, Thousand,
          ElementToQore(_), ElementToProton(_),
          ElementLeft(_),      \* what should be left of the elements of a container
          Values, WireValues,  \* the values of Qore and of AMQP, and the elements of their containers
          Depth(_),
          Requests,            \* the bodies and properties an application asks for
          ForeignMessages      \* the messages of other programs

ASSUME LimitsAssumption ==
    /\ LongLimit \in Nat /\ IntLimit \in 1 .. LongLimit
    /\ Thousand \in Nat \ {0}

VARIABLES
    stage,  \* what becomes of the message
    asked,  \* the body and the properties an application asked for, or nothing
    wire,   \* the Proton message
    got     \* the body and the properties of the message that was received

vars == <<stage, asked, wire, got>>

-----------------------------------------------------------------------------
(* Values                                                                  *)

Nothing == <<"nothing", 0>>
QoreNull == <<"NULL", 0>>
Null == <<"NULL_TYPE", 0>>
Error == <<"error", 0>>

TypeOf(v) == v[1]

Signed(n, limit) == ((n + limit) % (2 * limit)) - limit
Unsigned(n, limit) == n % (2 * limit)

\* / and % of C++
Quotient(a, b) == IF a >= 0 THEN a \div b ELSE -((-a) \div b)
Remainder(a, b) == a - b * Quotient(a, b)

\* an absolute date: microseconds are carried into the seconds
MakeAbsolute(secs, us) ==
    LET second == Thousand * Thousand
    IN <<"date", <<secs + us \div second, us % second>>>>

\* what a value looks like as a string
ToText(v) == <<"string", ToString(v)>>

-----------------------------------------------------------------------------
(* From Proton to Qore                                                     *)

\* the mutant takes the milliseconds for a number without sign
TimestampToDateUnsigned(ms) ==
    LET rest == Remainder(ms, Thousand)
    IN MakeAbsolute(Quotient(ms, Thousand), (IF rest < 0 THEN -rest ELSE rest) * Thousand)

TimestampToDate(ms) == MakeAbsolute(Quotient(ms, Thousand), Remainder(ms, Thousand) * Thousand)

IntegerTypes == {"BYTE", "SHORT", "INT", "LONG", "UBYTE", "USHORT", "UINT", "ULONG"}

ScalarToQore(v) ==
    CASE TypeOf(v) = "NULL_TYPE" -> Nothing
      [] TypeOf(v) = "BOOLEAN" -> <<"bool", v[2]>>
      [] TypeOf(v) \in IntegerTypes -> <<"int", Signed(v[2], LongLimit)>>
      [] TypeOf(v) \in {"FLOAT", "DOUBLE"} -> <<"float", v[2]>>
      [] TypeOf(v) \in {"STRING", "SYMBOL"} -> <<"string", v[2]>>
      [] TypeOf(v) = "BINARY" -> <<"binary", v[2]>>
      [] TypeOf(v) = "TIMESTAMP" -> TimestampToDate(v[2])
      [] OTHER -> ToText(v[2])   \* UUID, CHAR, DECIMAL128 ...

\* the mutant does not read large unsigned identifiers
MessageIdToQoreInRange(v) ==
    IF TypeOf(v) = "ULONG" /\ v[2] >= LongLimit THEN <<"int", LongLimit - 1>> ELSE ScalarToQore(v)

\* scalarBaseToQore(): identifiers have no other types than these
MessageIdToQore(v) == ScalarToQore(v)

\* the name that the key of a map has in a hash
KeyText(key) == IF TypeOf(key) \in {"STRING", "SYMBOL"} THEN key[2] ELSE ToString(key[2])

\* protonMapToHash(): of the keys that have the same name, the last one stays
Named(entries, key) == {i \in DOMAIN entries : KeyText(entries[i][1]) = key}
LastOf(entries, key) == CHOOSE i \in Named(entries, key) : \A j \in Named(entries, key) : j <= i
MapToHash(v) ==
    <<"hash", [key \in {KeyText(v[2][i][1]) : i \in DOMAIN v[2]} |-> ElementToQore(v[2][LastOf(v[2], key)][2])]>>

\* lists and arrays become lists; what has no type in Qore becomes a string
ProtonToQore(v) ==
    CASE TypeOf(v) = "MAP" -> MapToHash(v)
      [] TypeOf(v) \in {"LIST", "ARRAY"} -> <<"list", [i \in DOMAIN v[2] |-> ElementToQore(v[2][i])]>>
      [] OTHER -> ScalarToQore(v)

-----------------------------------------------------------------------------
(* From Qore to Proton                                                     *)

IsNullOrNothing(v) == TypeOf(v) \in {"nothing", "NULL"}

\* a relative date is taken for the time since the epoch
DateToTimestamp(date) == date[1] * Thousand + Quotient(date[2], Thousand)

QoreToScalar(v) ==
    CASE IsNullOrNothing(v) -> Null
      [] TypeOf(v) = "bool" -> <<"BOOLEAN", v[2]>>
      [] TypeOf(v) = "int" -> <<"LONG", v[2]>>
      [] TypeOf(v) = "float" -> <<"DOUBLE", v[2]>>
      [] TypeOf(v) = "string" -> <<"STRING", v[2]>>
      [] TypeOf(v) = "binary" -> <<"BINARY", v[2]>>
      [] TypeOf(v) \in {"date", "relative"} -> <<"TIMESTAMP", DateToTimestamp(v[2])>>
      [] OTHER -> Error          \* AMQP-TYPE-ERROR

\* the mutant does not make an integer unsigned
QoreToMessageIdSigned(v) ==
    CASE TypeOf(v) = "int" -> <<"ULONG", v[2]>>
      [] IsNullOrNothing(v) \/ TypeOf(v) \in {"string", "binary"} -> QoreToScalar(v)
      [] OTHER -> Error

\* the mutant takes 32 bits of an integer
QoreToMessageIdShort(v) ==
    CASE TypeOf(v) = "int" -> <<"ULONG", Unsigned(v[2], IntLimit)>>
      [] IsNullOrNothing(v) \/ TypeOf(v) \in {"string", "binary"} -> QoreToScalar(v)
      [] OTHER -> Error

\* an identifier is unsigned, a string or binary
QoreToMessageId(v) ==
    CASE TypeOf(v) = "int" -> <<"ULONG", Unsigned(v[2], LongLimit)>>
      [] IsNullOrNothing(v) \/ TypeOf(v) \in {"string", "binary"} -> QoreToScalar(v)
      [] OTHER -> Error

\* a map of entries, unless one of them is refused
MapOf(entries) == IF \E i \in DOMAIN entries : entries[i][2] = Error THEN Error ELSE <<"MAP", entries>>

HashToMap(v) ==
    LET keys == SetToSeq(DOMAIN v[2])
    IN MapOf([i \in DOMAIN keys |-> <<<<"STRING", keys[i]>>, ElementToProton(v[2][keys[i]])>>])

ListToProton(v) ==
    LET elements == [i \in DOMAIN v[2] |-> ElementToProton(v[2][i])]
    IN IF Error \in Range(elements) THEN Error ELSE <<"LIST", elements>>

\* a number of arbitrary precision becomes the float next to it
QoreToProton(v) ==
    CASE TypeOf(v) = "hash" -> HashToMap(v)
      [] TypeOf(v) = "list" -> ListToProton(v)
      [] TypeOf(v) = "number" -> <<"DOUBLE", v[2].float>>
      [] OTHER -> QoreToScalar(v)

(***************************************************************************)
(* What should be left of a value: a date loses its microseconds, to the   *)
(* millisecond before it, and a number its precision. Of NULL no value is  *)
(* left, and of a relative date the point in time that is so far from the  *)
(* epoch, less the microseconds.                                           *)
(***************************************************************************)
DateLeft(date) == <<date[1], date[2] - (date[2] % Thousand)>>

RelativeLeft(date) ==
    LET us == date[2] - Remainder(date[2], Thousand)
    IN IF us >= 0 THEN <<date[1], us>> ELSE <<date[1] - 1, us + Thousand * Thousand>>

ValueLeft(v) ==
    CASE TypeOf(v) = "NULL" -> Nothing
      [] TypeOf(v) = "date" -> <<"date", DateLeft(v[2])>>
      [] TypeOf(v) = "relative" -> <<"date", RelativeLeft(v[2])>>
      [] TypeOf(v) = "number" -> <<"float", v[2].float>>
      [] TypeOf(v) \in {"list", "hash"} -> <<TypeOf(v), [i \in DOMAIN v[2] |-> ElementLeft(v[2][i])]>>
      [] OTHER -> v

-----------------------------------------------------------------------------
(* The values that there are                                               *)

LongRange == -LongLimit .. LongLimit - 1
IntRange == -IntLimit .. IntLimit - 1

IsEntries(entries) ==
    /\ Len(entries) \in Nat /\ entries = [i \in 1 .. Len(entries) |-> entries[i]]
    /\ \A i \in DOMAIN entries : entries[i][2] \in WireValues

IsValue(v) ==
    /\ v = <<v[1], v[2]>>
    /\ TypeOf(v) = "nothing" => v = Nothing
    /\ TypeOf(v) = "NULL" => v = QoreNull
    /\ TypeOf(v) = "int" => v[2] \in LongRange
    /\ TypeOf(v) = "date" => v[2] \in Int \X (0 .. Thousand * Thousand - 1)
    /\ TypeOf(v) = "relative" =>
         v[2] \in Int \X (-(Thousand * Thousand) + 1 .. Thousand * Thousand - 1)
    /\ TypeOf(v) = "list" => v[2] \in Seq(Values)
    /\ TypeOf(v) = "hash" => v[2] \in [DOMAIN v[2] -> Values] /\ IsFiniteSet(DOMAIN v[2])

ASSUME ValuesAssumption ==
    \A v \in Values :
        /\ IsValue(v) /\ Depth(v) \in Nat
        /\ TypeOf(v) \in {"list", "hash"} => \A i \in DOMAIN v[2] : Depth(v[2][i]) < Depth(v)
        /\ QoreToProton(v) \in WireValues \cup {Error}
        /\ ElementToProton(v) = QoreToProton(v) /\ ElementLeft(v) = ValueLeft(v)

ASSUME WireAssumption ==
    /\ Null \in WireValues
    /\ \A w \in WireValues :
        /\ w = <<w[1], w[2]>> /\ Depth(w) \in Nat
        /\ TypeOf(w) # "error"
        /\ TypeOf(w) \in IntegerTypes \cup {"TIMESTAMP"} => w[2] \in Int
        /\ TypeOf(w) \in {"LIST", "ARRAY"} =>
             w[2] \in Seq(WireValues) /\ \A i \in DOMAIN w[2] : Depth(w[2][i]) < Depth(w)
        /\ TypeOf(w) = "MAP" =>
             IsEntries(w[2]) /\ \A i \in DOMAIN w[2] : Depth(w[2][i][2]) < Depth(w)
        /\ ProtonToQore(w) \in Values
        /\ ElementToQore(w) = ProtonToQore(w)

-----------------------------------------------------------------------------
(* Messages                                                                *)

IdProperties == {"message_id", "correlation_id"}
TextProperties == {"reply_to", "content_type", "content_encoding", "subject", "to", "group_id", "reply_to_group_id"}
TimeProperties == {"expiry_time", "creation_time"}
Annotations == {"message_annotations", "delivery_annotations"}
MapProperties == {"application_properties"} \cup Annotations
PropertyNames == IdProperties \cup TextProperties \cup TimeProperties \cup MapProperties \cup {"group_sequence"}

\* the text of a property that has none
Empty == ""

\* what Proton has for a property that is not set
Unset(name) ==
    CASE name \in IdProperties -> Null
      [] name \in TextProperties -> <<"STRING", Empty>>
      [] name \in TimeProperties -> <<"TIMESTAMP", 0>>
      [] name \in MapProperties -> <<"MAP", <<>>>>
      [] name = "group_sequence" -> <<"INT", 0>>

\* the values of properties and annotations are scalars
EntriesOf(keyType, v) ==
    LET keys == SetToSeq(DOMAIN v[2])
    IN MapOf([i \in DOMAIN keys |-> <<<<keyType, keys[i]>>, QoreToScalar(v[2][keys[i]])>>])

\* one property in applyProperties(); the footer is not one of them
Applied(name, v) ==
    IF IsNullOrNothing(v) THEN Unset(name)
    ELSE CASE name \in IdProperties -> QoreToMessageId(v)
           [] name \in TextProperties \cup TimeProperties -> QoreToScalar(v)
           [] name = "application_properties" -> EntriesOf("STRING", v)
           [] name \in Annotations -> EntriesOf("SYMBOL", v)
           [] name = "group_sequence" -> <<"INT", Signed(v[2], IntLimit)>>

\* the constructor of an application
NewMessage(body, properties) ==
    [body |-> QoreToProton(body),
     properties |-> [name \in PropertyNames |->
                        IF name \in DOMAIN properties THEN Applied(name, properties[name]) ELSE Unset(name)]]

\* the constructor raises an exception, and there is no message
Refused(message) ==
    message.body = Error \/ \E name \in PropertyNames : message.properties[name] = Error

\* getProperties(): what is not set is left out
GetProperties(message) ==
    [name \in {n \in PropertyNames : message.properties[n] # Unset(n)} |->
        IF name \in IdProperties
        THEN MessageIdToQore(message.properties[name])
        ELSE ProtonToQore(message.properties[name])]

\* the constructor of a receiver, and what is read of its message
Read(message) == [body |-> ProtonToQore(message.body), properties |-> GetProperties(message)]

NoMessage == NewMessage(Nothing, <<>>)

\* the types of hashdecl AmqpMessageProperties
IsProperty(name, v) ==
    /\ IsValue(v)
    /\ \/ IsNullOrNothing(v)
       \/ name \in IdProperties
       \/ name \in TextProperties /\ TypeOf(v) = "string"
       \/ name \in TimeProperties /\ TypeOf(v) \in {"date", "relative"}
       \/ name \in MapProperties /\ TypeOf(v) = "hash"
       \/ name = "group_sequence" /\ TypeOf(v) = "int"

ASSUME RequestsAssumption ==
    \A request \in Requests :
        /\ request.body \in Values
        /\ DOMAIN request.properties \subseteq PropertyNames \cup {"footer"}
        /\ \A name \in DOMAIN request.properties \ {"footer"} : IsProperty(name, request.properties[name])

\* the types that Proton has for the properties of a message
IsWireProperty(name, w) ==
    /\ w = <<w[1], w[2]>>
    /\ \/ /\ name \in IdProperties
          /\ \/ w = Null
             \/ TypeOf(w) \in {"STRING", "BINARY", "UUID"}
             \/ TypeOf(w) = "ULONG" /\ w[2] \in 0 .. 2 * LongLimit - 1
       \/ name \in TextProperties /\ TypeOf(w) = "STRING"
       \/ name \in TimeProperties /\ TypeOf(w) = "TIMESTAMP" /\ w[2] \in Int
       \/ name = "group_sequence" /\ TypeOf(w) = "INT" /\ w[2] \in IntRange
       \/ name \in MapProperties /\ TypeOf(w) = "MAP" /\ IsEntries(w[2])
    /\ name = "application_properties" =>
         \A i \in DOMAIN w[2] : TypeOf(w[2][i][2]) \notin {"MAP", "LIST", "ARRAY"}

IsWireMessage(message) ==
    /\ message = [body |-> message.body, properties |-> message.properties]
    /\ message.body \in WireValues
    /\ message.properties = [name \in PropertyNames |-> message.properties[name]]
    /\ \A name \in PropertyNames : IsWireProperty(name, message.properties[name])

ASSUME ForeignAssumption == \A message \in ForeignMessages : IsWireMessage(message)

\* the life of one message after the other

Init ==
    /\ stage = "idle"
    /\ asked = <<>>
    /\ wire = NoMessage
    /\ got = Read(NoMessage)

\* new AmqpMessage(body, properties), and send() if there is a message
Construct(body, properties, then) ==
    LET message == NewMessage(body, properties)
    IN IF Refused(message)
       THEN stage' = "refused" /\ wire' = NoMessage
       ELSE stage' = then /\ wire' = message

Create(request) ==
    /\ stage = "idle"
    /\ asked' = <<request>>
    /\ Construct(request.body, request.properties, "sent")
    /\ UNCHANGED got

\* a message of another program
Arrive(message) ==
    /\ stage = "idle"
    /\ stage' = "sent"
    /\ wire' = message
    /\ UNCHANGED <<asked, got>>

Receive ==
    /\ stage \in {"sent", "forwarded", "replied"}
    /\ stage' = "received"
    /\ got' = Read(wire)
    /\ UNCHANGED <<asked, wire>>

\* the receiver sends what it has read
Forward ==
    /\ stage = "received"
    /\ Construct(got.body, got.properties, "forwarded")
    /\ UNCHANGED <<asked, got>>

\* the receiver answers: the correlation ID is the message ID that it has read
Reply ==
    /\ stage = "received" /\ "message_id" \in DOMAIN got.properties
    /\ LET properties == [correlation_id |-> got.properties["message_id"]]
       IN /\ asked' = <<[body |-> Nothing, properties |-> properties]>>
          /\ Construct(Nothing, properties, "replied")
    /\ UNCHANGED got

\* the last reference to the message goes
Drop ==
    /\ stage \in {"refused", "received"}
    /\ stage' = "idle"
    /\ asked' = <<>>
    /\ wire' = NoMessage
    /\ got' = Read(NoMessage)

Next ==
    \/ \E request \in Requests : Create(request)
    \/ \E message \in ForeignMessages : Arrive(message)
    \/ Receive \/ Forward \/ Reply \/ Drop

Spec == Init /\ [][Next]_vars

-----------------------------------------------------------------------------
(* Properties                                                              *)

\* what is sent has the types of Proton, and what is read those of Qore
TypeOK ==
    /\ stage \in {"idle", "refused", "sent", "received", "forwarded", "replied"}
    /\ Len(asked) <= 1
    /\ IsWireMessage(wire)
    /\ got.body \in Values
    /\ DOMAIN got.properties \subseteq PropertyNames
    /\ \A name \in DOMAIN got.properties : IsProperty(name, got.properties[name])

\* the number that is left of a sequence number has its low bits, and its sign from the highest of them
SequenceLeft(n) == CHOOSE s \in IntRange : (s - n) % (2 * IntLimit) = 0

PropertyLeft(name, v) ==
    IF name = "group_sequence" /\ TypeOf(v) = "int" THEN <<"int", SequenceLeft(v[2])>> ELSE ValueLeft(v)

\* values that mean that a property is not set, and the footer, are lost
MeansUnset == {Nothing, <<"string", Empty>>, <<"int", 0>>, <<"date", <<0, 0>>>>, <<"hash", <<>>>>}
PropertiesLeft(properties) ==
    LET left == [name \in DOMAIN properties \ {"footer"} |-> PropertyLeft(name, properties[name])]
    IN [name \in {n \in DOMAIN left : left[n] \notin MeansUnset \/ (n \in IdProperties /\ left[n] # Nothing)} |->
           left[name]]

(***************************************************************************)
(* What a receiver reads is what the sender asked for, up to the losses    *)
(* above, however often the message is forwarded: no value changes its     *)
(* sign, its range or its type on the way through Proton and back.         *)
(***************************************************************************)
RoundTrip ==
    stage = "received" /\ asked # <<>> =>
        got = [body |-> ValueLeft(asked[1].body), properties |-> PropertiesLeft(asked[1].properties)]

\* the values of annotations that are no scalars
Compound(properties) ==
    \E name \in Annotations \cap DOMAIN properties :
        \E key \in DOMAIN properties[name][2] : TypeOf(properties[name][2][key]) \in {"list", "hash"}

(***************************************************************************)
(* A message that was read can be sent again, and is read as the same      *)
(* message: whatever a foreign type loses, it loses the first time. Only   *)
(* annotations that are not scalars are read but not accepted again.       *)
(***************************************************************************)
ForwardIsExact ==
    [][/\ stage = "forwarded" /\ stage' = "received" => got' = got
       /\ Forward /\ stage' = "refused" => Compound(got.properties)]_vars

(***************************************************************************)
(* "Correlation identifier for request-reply": the ID that a replier has   *)
(* read and sends back is the ID of the request, of whatever width and     *)
(* type, and the requester finds it; but for a UUID, which goes back as a  *)
(* string.                                                                 *)
(***************************************************************************)
ReplyCorrelates ==
    [][Reply /\ TypeOf(wire.properties["message_id"]) # "UUID" =>
           /\ stage' = "replied"
           /\ wire'.properties["correlation_id"] = wire.properties["message_id"]]_vars
=============================================================================
