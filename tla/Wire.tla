-------------------------------- MODULE Wire --------------------------------
(***************************************************************************)
(* The codecs of the storefront's gRPC messages                            *)
(* (src/src/frontend/protos/demo.ts): what encode writes for a message and *)
(* what decode makes of what it reads, toJSON and fromJSON, and            *)
(* fromPartial.  Each message has its own copy of the five functions in    *)
(* the code, generated from one pattern, and calls those of the messages   *)
(* inside it; here the fields of the message are a parameter, and the      *)
(* functions of the messages inside are constants, so that an instance of  *)
(* this module stands for the messages of one depth (module MessageCases). *)
(*                                                                         *)
(* What is written is a sequence of tokens: a tag, which is a field number *)
(* and a wire type, and a payload.  Bytes and varints belong to the        *)
(* library (@bufbuild/protobuf/wire) and are left out.  An int64 is any    *)
(* integer to the writer; the reader takes it to be a JavaScript number    *)
(* and throws where that would be inexact, beyond MaxSafe.                 *)
(***************************************************************************)
EXTENDS Integers, SequencesExt

CONSTANTS
    Schema,  \* the fields of every message, by its name
    MaxSafe, \* Number.MAX_SAFE_INTEGER, 2^53 - 1
    Strings, \* what a field of the kind "string" may hold
    InnerEncode(_, _), InnerDecode(_, _),
    InnerToJSON(_, _), InnerFromJSON(_, _),
    InnerProper(_, _), InnerHasUnsafe(_, _), InnerFull(_, _)

\* The kinds of a field; those that hold messages do so as a sequence.
Nested == {"message", "messages"}
Kinds == {"string", "int32", "int64", "bool", "strings"} \cup Nested

\* The fields of a message have a number and a name each.
WellFormed(fields) ==
    /\ fields \in Seq(ToSet(fields))
    /\ \A j, k \in DOMAIN fields :
           \/ fields[j].number = fields[k].number
           \/ fields[j].name = fields[k].name
           => j = k
    /\ \A f \in ToSet(fields) : f.kind \in Kinds

FieldNames(fields) == {fields[k].name : k \in DOMAIN fields}

FieldNamed(fields, name) ==
    CHOOSE f \in ToSet(fields) : f.name = name

Default(f) ==
    CASE f.kind = "string" -> ""
      [] f.kind \in {"int32", "int64"} -> 0
      [] f.kind = "bool" -> FALSE
      [] OTHER -> <<>>

\* createBase: the message no field of which has been set.
CreateBase(fields) ==
    [name \in FieldNames(fields) |-> Default(FieldNamed(fields, name))]

-----------------------------------------------------------------------------
WireType(f) == IF f.kind \in {"int32", "int64", "bool"} THEN 0 ELSE 2

TokenOf(f, payload) ==
    [number |-> f.number, wire |-> WireType(f), payload |-> payload]

\* A scalar is written unless it has the default value.
Written(f, v) == v # Default(f)

\* What encode writes for one field.
EncodeField(f, v) ==
    CASE f.kind \in Nested ->
             [k \in DOMAIN v |-> TokenOf(f, InnerEncode(Schema[f.of], v[k]))]
      [] f.kind = "strings" -> [k \in DOMAIN v |-> TokenOf(f, v[k])]
      [] OTHER -> IF Written(f, v) THEN <<TokenOf(f, v)>> ELSE <<>>

Encode(fields, m) ==
    FlattenSeq([k \in DOMAIN fields |->
                   EncodeField(fields[k], m[fields[k].name])])

-----------------------------------------------------------------------------
\* What decode returns: a message, or the exception a field's reader threw.
Threw == [thrown |-> TRUE, message |-> <<>>]
Returned(m) == [thrown |-> FALSE, message |-> m]

\* Seeded bug: the reader takes every int64 for a number.
NeverUnsafe(n) == FALSE

\* longToNumber throws.
Unsafe(n) == n > MaxSafe \/ n < -MaxSafe

\* The fields decode's switch has a case for, with the tag the case checks.
Known(fields, token) ==
    {f \in ToSet(fields) : f.number = token.number /\ WireType(f) = token.wire}

\* The case of a known field.
DecodeField(f, payload, m) ==
    CASE f.kind \in Nested ->
             LET inner == InnerDecode(Schema[f.of], payload)
             IN  IF inner.thrown THEN Threw
                 ELSE Returned([m EXCEPT ![f.name] =
                          IF f.kind = "message" THEN <<inner.message>>
                          ELSE Append(@, inner.message)])
      [] f.kind = "strings" ->
             Returned([m EXCEPT ![f.name] = Append(@, payload)])
      [] OTHER ->
             IF f.kind = "int64" /\ Unsafe(payload) THEN Threw
             ELSE Returned([m EXCEPT ![f.name] = payload])

\* One turn of decode's loop: a token of an unknown field, or of the wrong
\* wire type, is skipped; what a field holds is replaced or appended to.
Turn(fields, so, token) ==
    IF so.thrown \/ Known(fields, token) = {} THEN so
    ELSE DecodeField(CHOOSE f \in Known(fields, token) : TRUE,
                     token.payload, so.message)

Loop(fields, start, tokens) ==
    LET after[k \in 0 .. Len(tokens)] ==
            IF k = 0 THEN start ELSE Turn(fields, after[k - 1], tokens[k])
    IN  after[Len(tokens)]

\* Seeded bug: a field the reader does not know ends the message.
DecodeUntilUnknown(fields, tokens) ==
    LET unknown == SelectInSeq(tokens, LAMBDA t : Known(fields, t) = {})
    IN  Loop(fields, Returned(CreateBase(fields)),
             IF unknown = 0 THEN tokens ELSE SubSeq(tokens, 1, unknown - 1))

Decode(fields, tokens) ==
    Loop(fields, Returned(CreateBase(fields)), tokens)

-----------------------------------------------------------------------------
\* toJSON leaves out what has the default value, and undefined messages.
ToJSON(fields, m) ==
    [name \in {x \in FieldNames(fields) :
                  m[x] # Default(FieldNamed(fields, x))} |->
        LET f == FieldNamed(fields, name)
        IN  IF f.kind \in Nested
            THEN [k \in DOMAIN m[name] |-> InnerToJSON(Schema[f.of], m[name][k])]
            ELSE m[name]]

\* fromJSON, and fromPartial likewise: what is not set has the default value.
FromJSON(fields, object) ==
    [name \in FieldNames(fields) |->
        LET f == FieldNamed(fields, name)
        IN  IF name \notin DOMAIN object THEN Default(f)
            ELSE IF f.kind \in Nested
            THEN [k \in DOMAIN object[name] |->
                     InnerFromJSON(Schema[f.of], object[name][k])]
            ELSE object[name]]

-----------------------------------------------------------------------------
\* The interface of a message: the values its fields may hold.
Suits(f, v) ==
    CASE f.kind = "string" -> v \in Strings
      [] f.kind \in {"int32", "int64"} -> v \in Int
      [] f.kind = "bool" -> v \in BOOLEAN
      [] f.kind = "strings" -> v \in Seq(Strings)
      [] f.kind \in Nested ->
             /\ v \in Seq(ToSet(v))
             /\ f.kind = "message" => Len(v) <= 1
             /\ \A k \in DOMAIN v : InnerProper(Schema[f.of], v[k])

Proper(fields, m) ==
    /\ m = [name \in FieldNames(fields) |-> m[name]]
    /\ \A f \in ToSet(fields) : Suits(f, m[f.name])

\* What a field holds is an int64 that is not safe, or has one at any depth.
HoldsUnsafe(f, v) ==
    \/ f.kind = "int64" /\ v \notin -MaxSafe .. MaxSafe
    \/ /\ f.kind \in Nested
       /\ \E k \in DOMAIN v : InnerHasUnsafe(ToSet(Schema[f.of]), v[k])

HasUnsafe(some, m) == \E f \in some : HoldsUnsafe(f, m[f.name])

\* What a field is set to in a run: large is the one int64 value.
Filled(f, large) ==
    CASE f.kind = "string" -> "a"
      [] f.kind = "int32" -> -1
      [] f.kind = "int64" -> large
      [] f.kind = "bool" -> TRUE
      [] f.kind = "strings" -> <<"a", "">>
      [] f.kind = "message" -> <<InnerFull(Schema[f.of], large)>>
      [] f.kind = "messages" ->
             <<InnerFull(Schema[f.of], large), CreateBase(Schema[f.of])>>

Full(fields, large) ==
    [name \in FieldNames(fields) |-> Filled(FieldNamed(fields, name), large)]

-----------------------------------------------------------------------------
\* A schema that lacks one field, as an older or newer service has it.
Versions(fields) == {fields} \cup {RemoveAt(fields, k) : k \in DOMAIN fields}

\* The message as one schema knows it.
AsKnownTo(fields, m) == [name \in FieldNames(fields) |-> m[name]]

Arrives(m, writer, reader) ==
    LET both == FieldNames(writer) \cap FieldNames(reader)
        sent == AsKnownTo(writer, m)
        arrived == [name \in FieldNames(reader) |->
                       IF name \in both THEN m[name]
                       ELSE Default(FieldNamed(reader, name))]
        shared == {f \in ToSet(reader) : f.name \in both}
    IN  /\ Decode(reader, Encode(writer, sent)) =
               IF HasUnsafe(shared, m) THEN Threw
               ELSE Returned(arrived)
        /\ FromJSON(reader, ToJSON(writer, sent)) = arrived
=============================================================================
