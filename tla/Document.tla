------------------------------ MODULE Document ------------------------------
(***************************************************************************)
(* The generic syntax tree the parser hands to the model layer, and the    *)
(* attribute checks every interpreter function is written with.            *)
(*                                                                         *)
(* A value is a record [t, v]: t is its type.  A DSL string is one of      *)
(* several types here, by what the code can make of it: plain text, a      *)
(* single variable reference "${x}", a duration, hexadecimal digits.  An   *)
(* attribute map is a function from names to values, <<>> when empty, and  *)
(* an option is a sequence of at most one element.                         *)
(***************************************************************************)
EXTENDS Integers, Sequences, FiniteSets

(* 2^16 - 1, 2^31 - 1: the largest port, and the largest number TLC holds. *)
(* A number above it is the value Huge, which fits 64 bits and not 32.     *)
MaxPort == 65535
MaxNumber == 2147483647

Num(n) == [t |-> "num", v |-> n]
Huge == [t |-> "huge", v |-> MaxNumber]
(* A number that is not whole, in hundredths. *)
Frac(n) == [t |-> "frac", v |-> n]
Bool(b) == [t |-> "bool", v |-> b]
Str(s) == [t |-> "str", v |-> s]
Ref(x) == [t |-> "ref", v |-> x]
Dur(n, unit) == [t |-> "dur", v |-> [n |-> n, unit |-> unit]]
Hex(bytes) == [t |-> "hex", v |-> bytes]
Bytes(bytes) == [t |-> "bytes", v |-> bytes]
Arr(values) == [t |-> "arr", v |-> values]
Obj(map) == [t |-> "obj", v |-> map]

Some(x) == <<x>>
None == <<>>
OrElse(opt, default) == IF opt = None THEN default ELSE opt[1]
(* The ? operator: go on with what is there, or return nothing. *)
Then(opt, use(_)) == IF opt = None THEN None ELSE use(opt[1])

(* HashMap::get and the Block accessors child and children. *)
Get(map, key) == IF key \in DOMAIN map THEN Some(map[key]) ELSE None
Children(b, name) == SelectSeq(b.blocks, LAMBDA child : child.name = name)
Child(b, name) ==
  LET cs == Children(b, name) IN IF cs = <<>> THEN None ELSE Some(cs[1])

(***************************************************************************)
(* Value::as_str, as_bool, as_u64, as_u32, as_i64, as_string_array: which  *)
(* values an accessor accepts.                                             *)
(***************************************************************************)
IsString(v) == v.t \in {"str", "ref", "dur", "hex"}
IsEmptyText(v) == v.t = "str" /\ v.v = ""
IsNumber(v) == v.t \in {"num", "huge", "frac"}
IsStringArray(v) == v.t = "arr" /\ \A i \in DOMAIN v.v : IsString(v.v[i])
StringsOf(v) == [i \in DOMAIN v.v |-> v.v[i].v]

(***************************************************************************)
(* parse_duration_ms: digits, then nothing, "ms" or "s"; the product is    *)
(* checked against overflow.                                               *)
(***************************************************************************)
Millis(v) == IF v.v.unit = "s" THEN v.v.n * 1000 ELSE v.v.n
IsDuration(v) ==
  /\ v.t = "dur"
  /\ v.v.unit \in {"", "ms", "s"}
  /\ v.v.unit = "s" => v.v.n <= MaxNumber \div 1000

(* A probability and a factor are read as hundredths. *)
Hundredths(v) == IF v.t = "frac" THEN v.v ELSE 100 * v.v
IsRate(v) == v.t \in {"num", "frac"} /\ v.v \in 0 .. 100 /\ Hundredths(v) \in 0 .. 100

(***************************************************************************)
(* The optional_* helpers: what an attribute of each kind must be.  An     *)
(* attribute that is absent takes its default and is never an error.       *)
(***************************************************************************)
IsOfKind(v, kind) ==
  CASE kind = "any" -> TRUE
    [] kind = "string" -> IsString(v)
    [] kind = "nonempty" -> IsString(v) /\ ~IsEmptyText(v)
    [] kind = "strings" -> IsStringArray(v)
    [] kind = "bool" -> v.t = "bool"
    [] kind = "u32" -> v.t = "num" /\ v.v >= 0
    [] kind = "u64" -> v.t \in {"num", "huge"} /\ v.v >= 0
    [] kind = "usize" -> v.t \in {"num", "huge"} /\ v.v > 0
    [] kind = "i64" -> v.t \in {"num", "huge"}
    [] kind = "number" -> IsNumber(v)
    [] kind = "rate" -> IsRate(v)
    [] kind = "port" -> v.t = "num" /\ v.v \in 1 .. MaxPort
    [] kind = "duration" -> IsDuration(v)
    [] kind = "factor" -> \/ v.t = "huge"
                          \/ v.t = "num" /\ v.v >= 1
                          \/ v.t = "frac" /\ v.v >= 100
    [] kind = "hex" -> v.t = "hex" \/ IsEmptyText(v)
    [] kind = "hexbytes" -> v.t = "hex" /\ v.v # <<>>
    [] kind = "hexref" -> v.t \in {"hex", "ref"} \/ IsEmptyText(v)
    [] kind = "object" -> v.t = "obj"

(* validate_map_keys / validate_attributes, and every optional_* call the  *)
(* caller makes on the same map.                                           *)
WellTyped(map, kinds) ==
  /\ DOMAIN map \subseteq DOMAIN kinds
  /\ \A key \in DOMAIN map : IsOfKind(map[key], kinds[key])

(* validate_children and ensure_single_child *)
ChildrenAre(b, names) == \A i \in DOMAIN b.blocks : b.blocks[i].name \in names
AtMostOne(b, name) == Len(Children(b, name)) <= 1

(* A block's single name label. *)
HasOneLabel(b) == Len(b.labels) = 1

(* The attribute's content or its default. *)
ValueOr(map, key, default) ==
  IF key \in DOMAIN map THEN map[key].v ELSE default
MillisOr(map, key, default) ==
  IF key \in DOMAIN map THEN Millis(map[key]) ELSE default
StringsOr(map, key) ==
  IF key \in DOMAIN map THEN StringsOf(map[key]) ELSE <<>>
OptValue(map, key) ==
  IF key \in DOMAIN map THEN Some(map[key].v) ELSE None
=============================================================================
