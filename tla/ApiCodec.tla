------------------------------ MODULE ApiCodec ------------------------------
(* The generated codec of the front end: what encode, decode, toJSON, fromJSON and
   fromPartial do with a message of any type, given the table of its fields.

   A message is the function of the properties that differ from what createBase
   gives them, so that an optional text "" is a value and a plain one is not.  On the
   wire a message is a sequence of records: field number, wire type and payload.

   A peer is one end of a call: the table of the messages it exchanges, the property
   of one of them its version of the API does not have yet, if any, and the unit in
   which it keeps times (the client holds milliseconds, the server microseconds). *)
EXTENDS Protobuf, SequencesExt

CONSTANTS
    Enums,          \* the names and numbers of every enum
    MaxSafe         \* Number.MAX_SAFE_INTEGER

Record(n, w, v) == [n |-> n, w |-> w, v |-> v]
At(m, name, default) == IF name \in DOMAIN m THEN m[name] ELSE default
With(m, name, x) == (name :> x) @@ m
Without(m, names) == [x \in DOMAIN m \ names |-> m[x]]
FieldsKnown(peer, t) == SelectSeq(peer.api[t], LAMBDA f : <<t, f.name>> # peer.lacks)

\* Mistake: an empty optional text counts as unset.
IsEmpty(f, x) == IF f.label \in {"plain", "opt"} THEN f.k # "msg" /\ x = Default(f.k) ELSE x = <<>>

IsUnset(f, x) == f.label # "opt" /\ (IF f.label = "plain" THEN x = Default(f.k) ELSE x = <<>>)

(* Math.trunc(a / b) and a % b, which in JavaScript has the sign of a. *)
Trunc(a, b) == IF a >= 0 THEN a \div b ELSE -((-a) \div b)
Rem(a, b) == a - b * Trunc(a, b)

Stamp(seconds, nanos) ==
    (IF seconds # 0 THEN "seconds" :> seconds ELSE <<>>) @@ (IF nanos # 0 THEN "nanos" :> nanos ELSE <<>>)
StampMicros(s) == At(s, "seconds", 0) * 1000000 + Trunc(At(s, "nanos", 0), 1000)

\* Mistake: the part of the second is dropped.
ToSeconds(ms) == Stamp(Trunc(ms, 1000), 0)

toTimestamp(ms) == Stamp(Trunc(ms, 1000), Rem(ms, 1000) * 1000000)
fromTimestamp(s) == Trunc(StampMicros(s), 1000)
ServerStamp(us) == Stamp(us \div 1000000, (us % 1000000) * 1000)
TimeToStamp(peer, x) == IF peer.unit = "ms" THEN toTimestamp(x) ELSE ServerStamp(x)
StampToTime(peer, s) == IF peer.unit = "ms" THEN fromTimestamp(s) ELSE StampMicros(s)

(* A number as a 32-bit float; in units of half of its last place. *)
Fround(x) == x - Rem(x, 2)

-----------------------------------------------------------------------------
RECURSIVE Encode(_, _, _)
Payload(peer, f, x) ==
    CASE f.k = "msg" -> Encode(peer, f.of, x)
      [] f.k = "time" -> Encode(peer, "Timestamp", TimeToStamp(peer, x))
      [] f.k = "float" -> Fround(x)
      [] OTHER -> x
EncodeField(peer, f, m) ==
    CASE f.label = "packed" -> <<Record(f.n, 2, At(m, f.name, <<>>))>>
      [] f.name \notin DOMAIN m -> <<>>
      [] f.label = "rep" ->
           [i \in DOMAIN m[f.name] |-> Record(f.n, WireType(f), Payload(peer, f, m[f.name][i]))]
      [] OTHER -> <<Record(f.n, WireType(f), Payload(peer, f, m[f.name]))>>
Encode(peer, t, m) ==
    FlattenSeq([i \in DOMAIN FieldsKnown(peer, t) |-> EncodeField(peer, FieldsKnown(peer, t)[i], m)])

-----------------------------------------------------------------------------
(* The loop of decode reads one record per turn; what it has read so far is a
   message, until longToNumber throws. *)
Result(m, ok) == [m |-> m, ok |-> ok]

\* Mistake: no check of the size.
Unchecked(x) == Result(x, TRUE)

longToNumber(x) == Result(x, x <= MaxSafe /\ x >= -MaxSafe)

\* Mistake: a packed field that was sent unpacked is skipped.
AcceptsOwnOnly(f, w) == w = WireType(f)

Accepts(f, w) == w = WireType(f) \/ (f.label = "packed" /\ w = 0)

RECURSIVE Decode(_, _, _)
ReadPayload(peer, f, v) ==
    CASE f.k = "msg" -> Decode(peer, f.of, v)
      [] f.k = "time" -> Result(StampToTime(peer, Decode(peer, "Timestamp", v).m), TRUE)
      [] f.k \in {"int64", "uint64"} -> longToNumber(v)
      [] OTHER -> Result(v, TRUE)
Stored(f, m, x) ==
    CASE f.label = "rep" -> With(m, f.name, Append(At(m, f.name, <<>>), x))
      [] f.label = "packed" -> With(m, f.name, Append(At(m, f.name, <<>>), x))
      [] IsUnset(f, x) -> Without(m, {f.name})
      [] OTHER -> With(m, f.name, x)
StoredAll(f, m, xs) == FoldLeft(LAMBDA acc, x : Stored(f, acc, x), m, xs)
DecodeRecord(peer, t, r, rec) ==
    LET fs == SelectSeq(FieldsKnown(peer, t), LAMBDA f : f.n = rec.n)
        f == fs[1]
        x == ReadPayload(peer, f, rec.v)
    IN  IF ~r.ok \/ fs = <<>> THEN r
        ELSE IF ~Accepts(f, rec.w) THEN r
        ELSE IF f.label = "packed" /\ rec.w = 2 THEN Result(StoredAll(f, r.m, rec.v), TRUE)
        ELSE Result(IF x.ok THEN Stored(f, r.m, x.m) ELSE r.m, x.ok)
Decode(peer, t, records) ==
    FoldLeft(LAMBDA r, rec : DecodeRecord(peer, t, r, rec), Result(<<>>, TRUE), records)

-----------------------------------------------------------------------------
(* Every element of a field's value, the value itself when it is not repeated. *)
Each(f, Op(_), x) == IF f.label \in {"rep", "packed"} THEN [i \in DOMAIN x |-> Op(x[i])] ELSE Op(x)

(* x...FromJSON and x...ToJSON of an enum: -1 is UNRECOGNIZED. *)
EnumToJson(e, n) ==
    LET names == {x \in DOMAIN Enums[e] : Enums[e][x] = n}
    IN  IF names = {} THEN "UNRECOGNIZED" ELSE CHOOSE x \in names : TRUE

\* Mistake: an unknown name becomes the first one.
EnumFromJsonOrFirst(e, name) == IF name \in DOMAIN Enums[e] THEN Enums[e][name] ELSE 0

EnumFromJson(e, name) == IF name \in DOMAIN Enums[e] THEN Enums[e][name] ELSE -1

ByName(peer, t, m, Op(_, _)) ==
    LET fs == {f \in Range(FieldsKnown(peer, t)) : f.name \in DOMAIN m}
    IN  [name \in {f.name : f \in fs} |->
            LET f == CHOOSE g \in fs : g.name = name IN Each(f, LAMBDA x : Op(f, x), m[name])]
Set(peer, t, m) ==
    Without(m, {f.name : f \in {g \in Range(FieldsKnown(peer, t)) : g.name \in DOMAIN m /\ IsUnset(g, m[g.name])}})

RECURSIVE ToJson(_, _, _), FromJson(_, _, _), fromPartial(_, _, _)
ToJson(peer, t, m) ==
    ByName(peer, t, Set(peer, t, m), LAMBDA f, x :
        CASE f.k = "enum" -> EnumToJson(f.of, x) [] f.k = "msg" -> ToJson(peer, f.of, x) [] OTHER -> x)
FromJson(peer, t, j) ==
    ByName(peer, t, j, LAMBDA f, x :
        CASE f.k = "enum" -> EnumFromJson(f.of, x) [] f.k = "msg" -> FromJson(peer, f.of, x) [] OTHER -> x)
fromPartial(peer, t, m) ==
    Set(peer, t, ByName(peer, t, m, LAMBDA f, x : IF f.k = "msg" THEN fromPartial(peer, f.of, x) ELSE x))
=============================================================================
