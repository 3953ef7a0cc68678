---------------------------- MODULE SchemaCodec ----------------------------
(***************************************************************************)
(* The bidirectional codec of header schemas: DecodeSchema and             *)
(* EncodeSchema.  Every operator returns an option, None where the code    *)
(* returns a SchemaError.  Integers are at most three bytes wide here,     *)
(* what TLC's numbers hold, so crc32 is left out; compression and          *)
(* encryption are a reversible mark before the content.  The one panic of  *)
(* the codec, a terminator longer than the transformed bytes, is the value *)
(* Panic.                                                                  *)
(***************************************************************************)
EXTENDS HeaderSchema

Panic == [t |-> "panic", v |-> 0]

(* A decoded enum member is an object of the value and its name. *)
Member(value, name) == [t |-> "member", v |-> [value |-> value, name |-> name]]
(* underlying_value and the "value" case of scalar_key *)
Underlying(v) == IF v.t = "member" THEN v.v.value ELSE v
(* scalar_key, for the scalars a switch or an enum may name *)
ScalarKey(v) ==
  LET u == Underlying(v)
  IN IF u.t = "bool" THEN (IF u.v THEN 1 ELSE 0) ELSE IF u.t = "num" THEN u.v ELSE DefaultCase

(* integer_from_bytes and integer_bytes *)
Digits(bytes, endian) == IF endian = "little" THEN Reverse(bytes) ELSE bytes
IntegerFromBytes(bytes, endian, bit_offset, bits) ==
  IF Len(bytes) > 8 \/ bits = 0 THEN None
  ELSE LET whole == FoldLeft(LAMBDA acc, b : 256 * acc + b, 0, Digits(bytes, endian))
       IN Some((whole \div 2^bit_offset) % 2^bits)
IntegerBytes(n, length, endian) ==
  IF length \notin 1 .. 8 \/ n >= 256^length THEN None
  ELSE Some(Digits([i \in 1 .. length |-> (n \div 256^(length - i)) % 256], endian))

(* apply_enum and reverse_enum; a name that two members share may encode   *)
(* as either, the first in hash order (here: the choice of CHOOSE).        *)
ApplyEnum(f, v) ==
  IF v.t \in {"num", "bool"} /\ ScalarKey(v) \in DOMAIN f.enum
  THEN Member(v, f.enum[ScalarKey(v)]) ELSE v
ReverseEnum(f, v) ==
  LET keys == {k \in DOMAIN f.enum : v.t = "str" /\ f.enum[k] = v}
  IN IF keys = {} THEN v ELSE Num(CHOOSE k \in keys : TRUE)

(***************************************************************************)
(* decode_scalar: the bytes without the terminator, by format.             *)
(***************************************************************************)
DecodePayload(f, payload, endian) ==
  CASE f.format \in {"uint", "int", "bool"} ->
         Then(IntegerFromBytes(payload, endian, f.bit_offset, f.bits), LAMBDA n :
           Some(CASE f.format = "uint" -> Num(n)
                  [] f.format = "int" -> Num(IF n >= 2^(f.bits - 1) THEN n - 2^f.bits ELSE n)
                  [] OTHER -> Bool(n # 0)))
    [] f.format = "hex" -> Some(Hex(payload))
    [] f.format = "bytes" -> Some(Bytes(payload))
    [] f.format \in {"ascii", "utf8"} ->
         IF \A i \in DOMAIN payload : payload[i] < 128 THEN Some(Text(payload)) ELSE None
    [] f.format = "ipv4" -> IF Len(payload) = 4 THEN Some(Ip(payload)) ELSE None
DecodeScalar(f, bytes, endian) ==
  IF Len(bytes) < Len(f.terminator) THEN Some(Panic)
  ELSE DecodePayload(f, SubSeq(bytes, 1, Len(bytes) - Len(f.terminator)), endian)

(* encode_scalar *)
EncodePayload(f, v, endian) ==
  CASE f.format \in {"uint", "int", "bool"} ->
         LET lowest == IF f.format = "int" THEN -(2^(f.bits - 1)) ELSE 0
             number == IF v.t = "bool" THEN (IF v.v THEN 1 ELSE 0) ELSE v.v
         IN IF /\ v.t = IF f.format = "bool" THEN "bool" ELSE "num"
               /\ number \in lowest .. lowest + 2^f.bits - 1
            THEN IntegerBytes((number % 2^f.bits) * 2^f.bit_offset, f.length, endian) ELSE None
    [] f.format = "hex" -> IF v.t = "hex" THEN Some(v.v) ELSE None
    [] f.format = "bytes" -> IF v.t \in {"bytes", "hex"} THEN Some(v.v) ELSE None
    [] f.format = "ascii" ->
         IF v.t = "text" /\ \A i \in DOMAIN v.v : v.v[i] < 128 THEN Some(v.v) ELSE None
    [] f.format = "utf8" -> IF v.t = "text" THEN Some(v.v) ELSE None
    [] f.format = "ipv4" -> IF v.t = "ip" THEN Some(v.v) ELSE None
EncodeScalar(f, value, endian) ==
  Then(EncodePayload(f, ReverseEnum(f, value), endian), LAMBDA bytes : Some(bytes \o f.terminator))

(* reference_usize, resolve_count and the two resolve_length functions *)
Reference(values, name) ==
  IF name \in DOMAIN values /\ Underlying(values[name]).t = "num"
     /\ Underlying(values[name]).v >= 0
  THEN Some(Underlying(values[name]).v) ELSE None
ResolveCount(f, values) ==
  IF f.repeat_from = None THEN Some(f.repeat) ELSE Reference(values, f.repeat_from[1])
DeclaredLength(f, values) ==
  LET base == IF f.length_from = None THEN Some(f.length)
              ELSE Reference(values, f.length_from[1])
  IN IF base = None \/ base[1] + f.length_adjust < 0 THEN None
     ELSE Some(base[1] + f.length_adjust)
ResolveLength(f, values, input, start) ==
  IF f.terminator = <<>> THEN DeclaredLength(f, values)
  ELSE LET ends == {i \in start + 1 .. Len(input) - Len(f.terminator) + 1 :
                      SubSeq(input, i, i + Len(f.terminator) - 1) = f.terminator}
       IN IF ends = {} THEN None
          ELSE Some((CHOOSE i \in ends : \A j \in ends : i <= j) - 1 - start + Len(f.terminator))

(* predicate: a comparison with a literal, or a boolean field, negated or not. *)
Predicate(cond, values) ==
  IF cond = None THEN Some(TRUE)
  ELSE LET c == cond[1] IN
    IF c.field \notin DOMAIN values THEN None
    ELSE LET u == Underlying(values[c.field])
             same == u.t = c.literal.t /\ u.v = c.literal.v
         IN CASE c.op = "==" -> Some(same)
              [] c.op = "!=" -> Some(~same)
              [] c.op = "is" -> IF u.t = "bool" THEN Some(u.v) ELSE None
              [] c.op = "not" -> IF u.t = "bool" THEN Some(~u.v) ELSE None

(* checksum_slice, and checksum for crc16 and the Internet checksum *)
ChecksumSlice(f, bytes, base, current) ==
  LET span == IF f.checksum_range = None \/ f.checksum_range[1].t # "span"
              THEN [from |-> base, to |-> current]
              ELSE [from |-> base + f.checksum_range[1].v.from,
                    to |-> base + f.checksum_range[1].v.to]
  IN IF span.from > span.to \/ span.to > Len(bytes) THEN None
     ELSE Some(SubSeq(bytes, span.from + 1, span.to))
Crc16Step(crc) ==
  IF crc >= 32768 THEN ((2 * crc) % 65536) ^^ 4129 ELSE 2 * crc
Crc16Byte(crc) ==
  Crc16Step(Crc16Step(Crc16Step(Crc16Step(Crc16Step(Crc16Step(Crc16Step(Crc16Step(crc))))))))
Crc16(bytes) ==
  LET crc[k \in 0 .. Len(bytes)] ==
        IF k = 0 THEN 65535 ELSE Crc16Byte(crc[k - 1] ^^ (256 * bytes[k]))
  IN crc[Len(bytes)]
Internet(bytes) ==
  LET padded == IF Len(bytes) % 2 = 1 THEN Append(bytes, 0) ELSE bytes
      sum == FoldLeft(LAMBDA acc, i : acc + 256 * padded[2 * i - 1] + padded[2 * i],
                      0, [i \in 1 .. Len(padded) \div 2 |-> i])
      fold(n) == (n % 65536) + (n \div 65536)
  IN 65535 - fold(fold(sum))
Checksum(algorithm, bytes) ==
  IF algorithm = "crc16" THEN Crc16(bytes) ELSE Internet(bytes)

(***************************************************************************)
(* decode_transform and encode_transform (external: the compression and    *)
(* encryption libraries).  What was compressed or sealed begins with a     *)
(* mark: ZlibMark, or the first byte of the key; opening anything else     *)
(* fails.  The key comes from the values and must have its size.           *)
(***************************************************************************)
ZlibMark == 120
Material(values, name) ==
  IF name[1] \in DOMAIN values /\ values[name[1]].t \in {"bytes", "hex"}
     /\ Len(values[name[1]].v) = 1
  THEN Some(values[name[1]].v[1]) ELSE None
Mark(f, values) ==
  CASE f.transform = "zlib" -> Some(ZlibMark)
    [] f.transform = "aes-gcm" ->
         IF Material(values, f.nonce_from) = None THEN None ELSE Material(values, f.key_from)
    [] OTHER -> None
DecodeTransform(f, bytes, values) ==
  IF f.transform = "" THEN Some(bytes)
  ELSE IF Mark(f, values) = None \/ bytes = <<>> THEN None
  ELSE IF bytes[1] = Mark(f, values)[1] THEN Some(Tail(bytes)) ELSE None
EncodeTransform(f, bytes, values) ==
  IF f.transform = "" THEN Some(bytes)
  ELSE IF Mark(f, values) = None THEN None
  ELSE Some(Mark(f, values) \o bytes)

(* The fields of a nested value: its own, or the case of a switch that the *)
(* value of the selector names.                                            *)
IsPlain(f) == f.fields = <<>> /\ f.switch_on = None
Layout(f, values) ==
  IF f.fields # <<>> THEN Some(f.fields)
  ELSE IF f.switch_on[1] \notin DOMAIN values THEN None
  ELSE LET key == ScalarKey(values[f.switch_on[1]])
       IN IF key \in DOMAIN f.cases THEN Some(f.cases[key])
          ELSE IF DefaultCase \in DOMAIN f.cases THEN Some(f.cases[DefaultCase]) ELSE None

With(map, key, v) == [k \in DOMAIN map \cup {key} |-> IF k = key THEN v ELSE map[k]]

(***************************************************************************)
(* decode_fields: the fields in order, each repeated count times from its  *)
(* explicit offset or the cursor.  The state is the cursor, the values and *)
(* the checksum verdicts so far, of each name the last.                    *)
(***************************************************************************)
RECURSIVE DecodeFields(_, _, _, _, _, _)
DecodeContent(f, bytes, endian, values) ==
  IF IsPlain(f)
  THEN Then(DecodeScalar(f, bytes, endian), LAMBDA v : Some([value |-> v, sums |-> <<>>]))
  ELSE Then(Layout(f, values), LAMBDA fields :
         Then(DecodeFields(fields, bytes, 0, 0, endian, <<>>), LAMBDA r :
           Some([value |-> Obj(r.values), sums |-> r.sums])))
(* Whether the checksum of what precedes a checksum field is its value. *)
Verdict(f, input, base, at, raw, endian) ==
  IF f.checksum = "" THEN Some(<<>>)
  ELSE Then(ChecksumSlice(f, input, base, at), LAMBDA covered :
         Then(IntegerFromBytes(raw, endian, 0, 8 * Len(raw)), LAMBDA expected :
           Some(f.name :> (Checksum(f.checksum, covered) = expected))))
DecodeRaw(f, raw, input, base, at, endian, values) ==
  Then(DecodeTransform(f, raw, values), LAMBDA bytes :
    Then(DecodeContent(f, bytes, endian, values), LAMBDA content :
      Then(Verdict(f, input, base, at, raw, endian), LAMBDA sums :
        Some([value |-> ApplyEnum(f, content.value), end |-> at + Len(raw),
              sums |-> sums @@ content.sums]))))
DecodeItem(f, input, base, at, endian, values) ==
  Then(ResolveLength(f, values, input, at), LAMBDA length :
    IF at + length > Len(input) THEN None
    ELSE DecodeRaw(f, SubSeq(input, at + 1, at + length), input, base, at, endian, values))

Start(f, base, cursor) == IF f.offset = None THEN cursor ELSE base + f.offset[1]
Later(a, b) == IF a > b THEN a ELSE b
DecodeItems(f, count, input, base, endian, state) ==
  FoldLeft(LAMBDA acc, k :
             Then(acc, LAMBDA r :
               Then(DecodeItem(f, input, base, r.end, endian, state.values), LAMBDA item :
                 Some([end |-> item.end, sums |-> item.sums @@ r.sums, vs |-> Append(r.vs, item.value)]))),
           Some([end |-> Start(f, base, state.cursor), sums |-> state.sums, vs |-> <<>>]),
           [k \in 1 .. count |-> k])
DecodeField(f, input, base, endian, state) ==
  Then(Predicate(f.when, state.values), LAMBDA enabled :
    IF ~enabled THEN Some(state)
    ELSE Then(ResolveCount(f, state.values), LAMBDA count :
           Then(DecodeItems(f, count, input, base, endian, state), LAMBDA r :
             Some([cursor |-> Later(r.end, state.cursor), sums |-> r.sums,
                   values |-> With(state.values, f.name,
                                   IF count = 1 THEN r.vs[1] ELSE Arr(r.vs))]))))
DecodeFields(fields, input, base, cursor, endian, context) ==
  FoldLeft(LAMBDA acc, f : Then(acc, LAMBDA state : DecodeField(f, input, base, endian, state)),
           Some([cursor |-> cursor, values |-> context, sums |-> <<>>]), fields)

(* decode_schema_with_context: the context is not returned, the bytes after *)
(* the last field are.                                                      *)
DecodeSchema(schema, bytes, context) ==
  IF schema.offset > Len(bytes) THEN None
  ELSE Then(DecodeFields(schema.fields, bytes, schema.offset, schema.offset, schema.endian, context),
            LAMBDA r :
              Some([fields |-> [k \in DOMAIN r.values \ DOMAIN context |-> r.values[k]],
                    checks |-> r.sums, consumed |-> r.cursor,
                    unknown |-> SubSeq(bytes, r.cursor + 1, Len(bytes))]))

(***************************************************************************)
(* encode_fields: the same walk, writing.  A field narrower than its bytes *)
(* is or-ed into what is there; any other replaces it.  Gaps are zeroes.   *)
(***************************************************************************)
RECURSIVE EncodeFields(_, _, _, _, _)
Padded(out, length) ==
  out \o [i \in 1 .. (IF length > Len(out) THEN length - Len(out) ELSE 0) |-> 0]
WriteAt(f, out, at, raw) ==
  LET wide == Padded(out, at + Len(raw))
  IN [i \in DOMAIN wide |->
        IF i \notin at + 1 .. at + Len(raw) THEN wide[i]
        ELSE IF f.bits < 8 * f.length THEN wide[i] | raw[i - at]
        ELSE raw[i - at]]
EncodeContent(f, v, out, base, at, endian, values) ==
  IF ~IsPlain(f)
  THEN IF v.t # "obj" THEN None
       ELSE Then(Layout(f, values), LAMBDA fields : EncodeFields(fields, v.v, endian, 0, <<>>))
  ELSE IF f.checksum # ""
  THEN Then(ChecksumSlice(f, out, base, at), LAMBDA covered :
         IntegerBytes(Checksum(f.checksum, covered), f.length, endian))
  ELSE EncodeScalar(f, v, endian)
EncodeItem(f, v, out, base, at, endian, values) ==
  Then(EncodeContent(f, v, out, base, at, endian, values), LAMBDA content :
    Then(EncodeTransform(f, content, values), LAMBDA raw :
      IF f.terminator = <<>> /\ DeclaredLength(f, values) # Some(Len(raw)) THEN None
      ELSE Some([out |-> WriteAt(f, out, at, raw), end |-> at + Len(raw)])))
(* The values a field is encoded from: a checksum needs none, a single     *)
(* item is the value itself, any other number is an array of that length.  *)
Items(f, values, count) ==
  IF f.checksum # "" THEN Some([i \in 1 .. count |-> Num(0)])
  ELSE IF f.name \notin DOMAIN values THEN None
  ELSE IF count = 1 THEN Some(<<values[f.name]>>)
  ELSE IF values[f.name].t = "arr" /\ Len(values[f.name].v) = count
  THEN Some(values[f.name].v) ELSE None
EncodeItems(f, items, base, start, endian, values, out) ==
  FoldLeft(LAMBDA acc, v :
             Then(acc, LAMBDA r : EncodeItem(f, v, r.out, base, r.end, endian, values)),
           Some([out |-> Padded(out, start), end |-> start]), items)
EncodeField(f, base, endian, values, state) ==
  Then(Predicate(f.when, values), LAMBDA enabled :
    IF ~enabled THEN Some(state)
    ELSE Then(ResolveCount(f, values), LAMBDA count :
           Then(Items(f, values, count), LAMBDA items :
             Then(EncodeItems(f, items, base, Start(f, base, state.cursor), endian, values, state.out),
                  LAMBDA r : Some([out |-> r.out, cursor |-> Later(r.end, state.cursor)])))))
EncodeFields(fields, values, endian, base, prefix) ==
  Then(FoldLeft(LAMBDA acc, f :
                  Then(acc, LAMBDA state : EncodeField(f, base, endian, values, state)),
                Some([out |-> prefix, cursor |-> Later(Len(prefix), base)]), fields),
       LAMBDA r : Some(r.out))

(* encode_schema *)
EncodeSchema(schema, values) ==
  EncodeFields(schema.fields, values, schema.endian, schema.offset,
               [i \in 1 .. schema.offset |-> 0])
=============================================================================
