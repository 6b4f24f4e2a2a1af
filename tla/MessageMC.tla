----------------------------- MODULE MessageMC -----------------------------
(***************************************************************************)
(* Message for TLC: values of every type, the bounds of the integer types, *)
(* dates around the epoch, relative dates of either sign, containers in    *)
(* containers, keys that collide.                                          *)
(***************************************************************************)
EXTENDS Message

Dates == {<<"date", <<s, us>>>> : s \in -2 .. 1, us \in {0, 1, Thousand, Thousand * Thousand - 1}}
Micros == {0, 1, Thousand, 2 * Thousand + 1}
RelativeDates == {<<"relative", <<s, us>>>> : s \in -1 .. 1, us \in Micros \cup {-n : n \in Micros}}
Ints == {<<"int", n>> : n \in LongRange}
Scalars == Dates \cup RelativeDates \cup Ints \cup
    {Nothing, QoreNull, <<"bool", TRUE>>, <<"float", 1>>, <<"string", "">>, <<"string", "s">>, <<"binary", <<7>>>>}
Number == <<"number", [float |-> 1, rest |-> 5]>>
Object == <<"object", 0>>

List(v) == <<"list", <<v, Nothing, QoreNull>>>>
Hash(v) == <<"hash", [a |-> v, b |-> <<"int", -1>>]>>

Elements == Dates \cup {Number, Object, QoreNull, <<"string", "">>, <<"relative", <<0, -1 - Thousand>>>>}
Bodies == Scalars \cup {Number, Object} \cup
    UNION {{List(v), Hash(v), List(Hash(v)), Hash(List(v))} : v \in Elements}

Properties ==
    {<<>>, [message_id |-> Object], [footer |-> Hash(Nothing)]}
    \cup {[message_id |-> v, reply_to |-> <<"string", "s">>] :
              v \in Ints \cup {<<"string", "">>, <<"binary", <<7>>>>}}
    \cup {[group_sequence |-> v, subject |-> <<"string", "">>] : v \in Ints}
    \cup {[expiry_time |-> v, creation_time |-> <<"date", <<1, 0>>>>] : v \in Dates \cup RelativeDates}
    \cup {[name \in PropertyNames |-> QoreNull]}
    \cup {[application_properties |-> Hash(v)] : v \in Scalars \cup {Number, List(Nothing)}}
    \cup {[message_annotations |-> Hash(v), delivery_annotations |-> <<"hash", <<>>>>] :
              v \in {Number, QoreNull, <<"float", 1>>}}

MCRequests ==
    {[body |-> body, properties |-> <<>>] : body \in Bodies}
    \cup {[body |-> Nothing, properties |-> properties] : properties \in Properties}

Foreign(name, v) == [NoMessage EXCEPT !.properties[name] = v]

\* the types that only other programs send
ForeignScalars ==
    {<<"BYTE", -1>>, <<"USHORT", 1>>, <<"FLOAT", 1>>, <<"SYMBOL", "s">>, <<"UUID", 7>>, <<"CHAR", 8>>, Null}
    \cup {<<"UINT", n>> : n \in {0, 2 * IntLimit - 1}}
    \cup {<<"ULONG", n>> : n \in {0, LongLimit - 1, LongLimit, 2 * LongLimit - 1}}
    \cup {<<"TIMESTAMP", ms>> : ms \in -5 .. 5}
ForeignMap(v) ==
    <<"MAP", <<<<<<"INT", 1>>, v>>, <<<<"STRING", "1">>, <<"ARRAY", <<v, v>>>>>>, <<<<"SYMBOL", "k">>, v>>>>>>
ForeignBodies == ForeignScalars \cup {ForeignMap(w) : w \in ForeignScalars}

MCForeignMessages ==
    {[NoMessage EXCEPT !.body = v] : v \in ForeignBodies}
    \cup {Foreign("message_id", v) : v \in {w \in ForeignScalars : w[1] \in {"ULONG", "UUID"}}}
    \cup {Foreign("group_sequence", <<"INT", n>>) : n \in {-1, IntLimit - 1}}
    \cup {Foreign("expiry_time", <<"TIMESTAMP", ms>>) : ms \in -5 .. 5}
    \cup {Foreign("application_properties", <<"MAP", <<<<<<"STRING", "k">>, v>>>>>>) : v \in ForeignScalars}
    \cup {Foreign("message_annotations", ForeignMap(v)) : v \in ForeignScalars}
    \cup {Foreign("message_annotations", <<"MAP", <<<<<<"SYMBOL", "k">>, v>>>>>>) : v \in ForeignScalars}

\* the elements of containers are converted as other values are
MCElementToQore(w) == LET element == ProtonToQore(w) IN element
MCElementToProton(v) == LET element == QoreToProton(v) IN element
MCElementLeft(v) == LET left == ValueLeft(v) IN left

Inside(v) ==
    IF TypeOf(v) = "MAP" THEN {v[2][i][2] : i \in DOMAIN v[2]}
    ELSE IF TypeOf(v) \in {"list", "hash", "LIST", "ARRAY"} THEN {v[2][i] : i \in DOMAIN v[2]}
    ELSE {}

RECURSIVE Parts(_), MCDepth(_)
Parts(v) == {v} \cup UNION {Parts(part) : part \in Inside(v)}
MCDepth(v) == IF Inside(v) = {} THEN 0 ELSE 1 + Max({MCDepth(part) : part \in Inside(v)})

\* every value that is asked for, sent or read, however often it is sent again
AskedValues ==
    UNION {Parts(v) : v \in Bodies \cup {<<"hash", <<>>>>} \cup {Hash(v) : v \in Scalars \cup {List(Nothing)}}}
Sent(values) == {QoreToProton(v) : v \in values} \ {Error}
RECURSIVE SentAgain(_)
SentAgain(wires) ==
    LET more == wires \cup Sent({ProtonToQore(w) : w \in wires})
    IN IF more = wires THEN wires ELSE SentAgain(more)
MCWireValues == SentAgain(UNION {Parts(w) : w \in ForeignBodies} \cup Sent(AskedValues))
MCValues == AskedValues \cup {ProtonToQore(w) : w \in MCWireValues}
=============================================================================
