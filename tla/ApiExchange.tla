----------------------------- MODULE ApiExchange -----------------------------
(* An edit made in the front end: a server sends a message, the client reads it one
   record at a time, its user changes one property of the object (the others are
   spread from what was read), and the client sends the whole object back.  The two
   ends need not run the same version of the API: a page stays open over an upgrade
   of the server, and one page talks to servers of several versions.

   The server is another implementation of protobuf: it sends fields in any order
   and may leave a packed field unpacked. *)
EXTENDS ApiCodec

CONSTANTS
    Types,          \* the messages exchanged
    Schemas,        \* the fields of every message
    OneOf           \* the properties of a message that its .proto declares as one choice

VARIABLES
    type, held,         \* the message the server holds
    client, server,     \* the peers
    wire, at, got,      \* what was sent, the records read, the result so far
    edit,               \* the property the user changed and its new value
    stage,              \* "reading", "failed", "editing", "sent" or "stored"
    stored              \* the message the server reads back

vars == <<type, held, client, server, wire, at, got, edit, stage, stored>>

NoEdit == [name |-> "", value |-> <<>>]
Peer(api, lacks, unit) == [api |-> api, lacks |-> lacks, unit |-> unit]
Missing == <<"", "">>

(* The newest version of a message, and of the messages in it. *)
Newest(t) ==
    [s \in {t, "Timestamp"} \cup {f.of : f \in {g \in Range(Schemas[t]) : g.k = "msg"}} |-> Schemas[s]]
FieldsOf(t) == Range(server.api[t])

-----------------------------------------------------------------------------
(* Values a property can have; times in the microseconds of the server. *)
Scalars(f) ==
    CASE f.k = "string" -> {"", "x"}
      [] f.k = "bool" -> {TRUE, FALSE}
      [] f.k \in {"int64", "uint64"} -> {MaxSafe, MaxSafe + 1}
      [] f.k = "float" -> {6}
      [] f.k = "time" -> {1700500, -1700500}
      [] f.k = "enum" -> {Max({Enums[f.of][x] : x \in DOMAIN Enums[f.of]}), 0, 99}
      [] OTHER -> {0, 5}
Wrapped(f, xs) ==
    IF f.label \in {"rep", "packed"} THEN {<<x, x>> : x \in xs}
    ELSE {x \in xs : f.label = "opt" \/ x # Default(f.k)}
Inner(fields) ==
    {<<>>} \cup UNION {{g.name :> x : x \in Wrapped(g, Scalars(g))} :
                       g \in {h \in Range(fields) : h.k # "msg" /\ h.n <= 2}}
Samples(api, f) == Wrapped(f, IF f.k = "msg" THEN Inner(api[f.of]) ELSE Scalars(f))
Primary(api, f) == f.name :> (CHOOSE x \in Samples(api, f) : TRUE)

(* One property with any of its values, or two neighbouring ones. *)
Messages(api, t) ==
    {<<>>} \cup UNION {{f.name :> x : x \in Samples(api, f)} : f \in Range(api[t])}
    \cup {Primary(api, api[t][i]) @@ Primary(api, api[t][i + 1]) : i \in 1..(Len(api[t]) - 1)}
Exclusive(t) == IF t \in DOMAIN OneOf THEN OneOf[t] ELSE {}
Siblings(t, name) == UNION {g \in Exclusive(t) : name \in g} \ {name}
HeldBy(api, t) == {m \in Messages(api, t) : \A x \in DOMAIN m : Siblings(t, x) \cap DOMAIN m = {}}

(* The properties that can be unknown to one end: those of the message, or those of
   a message inside it. *)
Skews(api, t, m) ==
    {Missing} \cup {<<t, x>> : x \in DOMAIN m} \cup
    UNION {{<<f.of, x>> : x \in DOMAIN m[f.name]} :
           f \in {g \in Range(api[t]) : g.name \in DOMAIN m /\ g.k = "msg" /\ g.label = "opt"}}

Unpacked(t, rec) ==
    IF \E f \in FieldsOf(t) : f.n = rec.n /\ f.label = "packed"
    THEN [i \in DOMAIN rec.v |-> Record(rec.n, 0, rec.v[i])] ELSE <<rec>>
UnpackedAll(t, records) == FlattenSeq([i \in DOMAIN records |-> Unpacked(t, records[i])])

Init ==
    /\ type \in Types
    /\ \E api \in {Newest(type)} :
         /\ held \in HeldBy(api, type)
         /\ \/ /\ client \in {Peer(api, s, "ms") : s \in Skews(api, type, held)}
               /\ server = Peer(api, Missing, "us")
            \/ /\ client = Peer(api, Missing, "ms")
               /\ \A f \in Range(api[type]) : f.of # type \* held has none of what the server lacks
               /\ server \in {Peer(api, <<type, f.name>>, "us") :
                              f \in {g \in Range(api[type]) : g.n = 1 /\ g.name \notin DOMAIN held}}
    /\ LET sent == Encode(server, type, held)
       IN  wire = sent \/ wire = Reverse(sent) \/ wire = UnpackedAll(type, sent)
    /\ at = 1 /\ got = <<>> /\ edit = NoEdit /\ stage = "reading" /\ stored = <<>>

-----------------------------------------------------------------------------
(* One turn of the loop in decode. *)
ReadRecord ==
    /\ stage = "reading" /\ at <= Len(wire)
    /\ LET r == DecodeRecord(client, type, Result(got, TRUE), wire[at])
       IN  got' = r.m /\ stage' = IF r.ok THEN "reading" ELSE "failed"
    /\ at' = at + 1
    /\ UNCHANGED <<type, held, client, server, wire, edit, stored>>

EndOfMessage ==
    /\ stage = "reading" /\ at > Len(wire)
    /\ stage' = "editing"
    /\ UNCHANGED <<type, held, client, server, wire, at, got, edit, stored>>

(* { ...got, [name]: value }, the other members of a choice set to undefined. *)
Edited(f) == {x \in Wrapped(f, CASE f.k = "time" -> {1701} [] f.k = "float" -> {7} [] f.k = "msg" -> {<<>>}
                                 [] f.k \in {"int64", "uint64"} -> {1} [] OTHER -> Scalars(f)) : TRUE}
SetProperty ==
    /\ stage = "editing" /\ edit = NoEdit
    /\ \E f \in {g \in Range(FieldsKnown(client, type)) : g.name \in DOMAIN held \/ g.n = 1} :
         \/ \E x \in Edited(f) :
              /\ edit' = [name |-> f.name, value |-> (f.name :> x)]
              /\ got' = With(Without(got, Siblings(type, f.name)), f.name, x)
         \/ /\ edit' = [name |-> f.name, value |-> <<>>]
            /\ got' = Without(got, {f.name})
    /\ UNCHANGED <<type, held, client, server, wire, at, stage, stored>>

(* The stub of the call encodes fromPartial of the object. *)
Send ==
    /\ stage = "editing" /\ edit # NoEdit
    /\ wire' = Encode(client, type, fromPartial(client, type, got))
    /\ stage' = "sent"
    /\ UNCHANGED <<type, held, client, server, at, got, edit, stored>>

Store ==
    /\ stage = "sent"
    /\ stored' = Decode([server EXCEPT !.unit = "us"], type, wire).m
    /\ stage' = "stored"
    /\ UNCHANGED <<type, held, client, server, wire, at, got, edit>>

Next == ReadRecord \/ EndOfMessage \/ SetProperty \/ Send \/ Store
Spec == Init /\ [][Next]_vars

-----------------------------------------------------------------------------
RECURSIVE Seen(_, _), Returned(_, _), Recognized(_, _), HoldsUnsafe(_, _)
(* What the client can know of a message, said of the message and not of the wire. *)
Seen(t, m) ==
    ByName(client, t, m, LAMBDA f, x :
        CASE f.k = "msg" -> Seen(f.of, x) [] f.k = "time" -> Trunc(x, 1000) [] OTHER -> x)
(* What is left of a message that has been through the client. *)
Returned(t, m) ==
    ByName(client, t, m, LAMBDA f, x :
        CASE f.k = "msg" -> Returned(f.of, x) [] f.k = "time" -> Trunc(x, 1000) * 1000 [] OTHER -> x)
Recognized(t, m) ==
    ByName(client, t, m, LAMBDA f, x :
        CASE f.k = "msg" -> Recognized(f.of, x)
          [] f.k = "enum" -> IF \E name \in DOMAIN Enums[f.of] : Enums[f.of][name] = x THEN x ELSE -1
          [] OTHER -> x)
HoldsUnsafe(t, m) ==
    \E f \in Range(FieldsKnown(client, t)) : f.name \in DOMAIN m /\
        LET Bad(x) == CASE f.k = "msg" -> HoldsUnsafe(f.of, x)
                        [] f.k \in {"int64", "uint64"} -> x > MaxSafe [] OTHER -> FALSE
        IN  IF f.label \in {"rep", "packed"} THEN \E i \in DOMAIN m[f.name] : Bad(m[f.name][i]) ELSE Bad(m[f.name])
Only(m, name) == [x \in DOMAIN m \cap {name} |-> m[x]]
Records(f, n) == Cardinality({i \in 1..n : wire[i].n = f.n})

(* However the server orders and packs the records, after each of them the object
   holds exactly what the records read so far say: the loop never loses its place at
   a field this version does not know, and takes an enum packed or not. *)
ReadsWhatWasSent ==
    stage = "reading" =>
        \A f \in FieldsOf(type) :
            LET seen == Only(Seen(type, held), f.name)
                now == Only(got, f.name)
            IN  IF Records(f, at - 1) = Records(f, Len(wire)) /\ Records(f, at - 1) > 0 THEN now = seen
                ELSE IF f.label \in {"rep", "packed"} /\ seen # <<>>
                THEN At(now, f.name, <<>>) = SubSeq(seen[f.name], 1, Records(f, at - 1))
                ELSE now = <<>>

(* Reading gives up exactly when a number the client knows of is too large for
   JavaScript, never for one it would have skipped. *)
FailsOnlyOnUnsafeNumbers ==
    /\ stage = "failed" => HoldsUnsafe(type, held)
    /\ stage \in {"editing", "sent", "stored"} => ~HoldsUnsafe(type, held)

(* An edit of one property changes no other one that both ends know, but for the
   microseconds of times and the properties of inner messages that the client's
   version does not know. *)
NothingElseChanges ==
    stage = "stored" =>
        \A f \in Range(FieldsKnown(server, type)) :
            f.name # edit.name /\ <<type, f.name>> # client.lacks /\ f.name \notin Siblings(type, edit.name)
                => Only(stored, f.name) = Only(Returned(type, held), f.name)

(* The property the user set is what the server reads, an empty optional text and a
   property taken away included. *)
EditIsStored ==
    stage = "stored" /\ <<type, edit.name>> # server.lacks =>
        \A f \in FieldsOf(type) : f.name = edit.name =>
            Only(stored, edit.name) =
                IF edit.value = <<>> THEN <<>>
                ELSE LET x == edit.value[f.name]
                     IN  f.name :> Each(f, LAMBDA y : CASE f.k = "time" -> y * 1000 [] f.k = "float" -> Fround(y) [] OTHER -> y, x)

(* Through toJSON and back, as the store's keys for time filters and the request of
   deleteMedia go, an object keeps everything but the enum numbers this version does
   not recognize. *)
JsonKeepsRecognized ==
    stage = "editing" => FromJson(client, type, ToJson(client, type, got)) = Recognized(type, got)
=============================================================================
