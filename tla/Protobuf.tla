------------------------------ MODULE Protobuf ------------------------------
(* How the generated code of the front end describes a message: a field has a
   number, the name of its property, a kind and a label.

   kind    what encode writes and decode reads: the method of the writer and
           the reader, or the codec of another message
   label   "plain"   written when it differs from the kind's default, which is
                     what createBase gives it
           "opt"     written when it is not undefined
           "rep"     an array, one record on the wire for each element
           "packed"  an array of numbers, one record on the wire for them all *)
EXTENDS Integers, Sequences

Kind(k, of) == [k |-> k, of |-> of]
Str == Kind("string", "")
Bool == Kind("bool", "")
Int32 == Kind("int32", "")
Uint32 == Kind("uint32", "")
Int64 == Kind("int64", "")
Uint64 == Kind("uint64", "")
Float == Kind("float", "")
Enum(name) == Kind("enum", name)
Msg(name) == Kind("msg", name)
\* A Timestamp message, kept by the client as the text of a date.
Time == Kind("time", "Timestamp")

Field(n, name, kind, label) ==
    [n |-> n, name |-> name, k |-> kind.k, of |-> kind.of, label |-> label]
Plain(n, name, kind) == Field(n, name, kind, "plain")
Opt(n, name, kind) == Field(n, name, kind, "opt")
Rep(n, name, kind) == Field(n, name, kind, "rep")
Packed(n, name, kind) == Field(n, name, kind, "packed")

(* The value a plain field has when nobody set it. *)
Default(k) == CASE k = "string" -> "" [] k = "bool" -> FALSE [] OTHER -> 0

(* The low three bits of a field's tag. *)
WireType(f) ==
    CASE f.label = "packed" \/ f.k \in {"string", "msg", "time"} -> 2
      [] f.k = "float" -> 5
      [] OTHER -> 0

(* A row of the service's definition. *)
Rpc(name, request, response) == [name |-> name, request |-> request, response |-> response]
=============================================================================
