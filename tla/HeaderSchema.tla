---------------------------- MODULE HeaderSchema ----------------------------
(***************************************************************************)
(* Declarative header schemas: how a schema block is interpreted into a    *)
(* layout, and the codec that decodes bytes into fields and encodes fields *)
(* into bytes.  Pure algorithms, recursive where a field nests fields.     *)
(*                                                                         *)
(* Text is its bytes.  The keys of enum and cases are the numbers their    *)
(* text spells, DefaultCase for "default".  A condition and a checksum     *)
(* range are the parsed form of their text.  The fields of a schema come   *)
(* out of a hash map, so their order before the sort is arbitrary: `iter`, *)
(* a sequence of all field names, is that order.                           *)
(***************************************************************************)
EXTENDS Document, SequencesExt, Bitwise

DefaultCase == -1
Text(bytes) == [t |-> "text", v |-> bytes]
Ip(bytes) == [t |-> "ip", v |-> bytes]
Cond(field, op, literal) ==
  [t |-> "cond", v |-> [field |-> field, op |-> op, literal |-> literal]]
Span(from, to) == [t |-> "span", v |-> [from |-> from, to |-> to]]

(* The attributes of a field that have one kind whatever the others say. *)
FieldKinds ==
  [offset |-> "u64", order |-> "usize", length |-> "usize", length_from |-> "string",
   length_adjust |-> "i64", repeat |-> "usize", repeat_from |-> "string",
   terminator |-> "hexbytes", when |-> "any", bit_offset |-> "u64", bits |-> "u64",
   format |-> "string", enum |-> "object", fields |-> "object",
   switch_on |-> "string", cases |-> "object", transform |-> "string",
   key_from |-> "string", nonce_from |-> "string", checksum |-> "string",
   checksum_range |-> "any"]
Formats == {"uint", "int", "hex", "bytes", "ascii", "utf8", "ipv4", "bool"}
NumericFormats == {"uint", "int", "bool", "ipv4"}
DefaultFormat(o, length) ==
  IF {"fields", "cases", "transform"} \cap DOMAIN o # {} \/ length > 8
  THEN "bytes" ELSE "uint"

(* Which field objects parse_header_fields accepts, its nested ones apart. *)
FieldIsValid(o) ==
  /\ WellTyped(o, FieldKinds)
  /\ ~ {"repeat", "repeat_from"} \subseteq DOMAIN o
  /\ LET length == ValueOr(o, "length", 1)
         bit_offset == ValueOr(o, "bit_offset", 0)
         bits == ValueOr(o, "bits", IF length > 8 THEN 64 ELSE 8 * length)
         format == ValueOr(o, "format", DefaultFormat(o, length))
     IN /\ bit_offset <= 7 /\ bits \in 1 .. 64 /\ bit_offset + bits <= 8 * length
        /\ format \in Formats
        /\ format \in NumericFormats => length <= 8
  /\ ("switch_on" \in DOMAIN o) = ("cases" \in DOMAIN o /\ DOMAIN o["cases"].v # {})
  /\ "transform" \in DOMAIN o => o["transform"].v \in {"zlib", "aes-gcm", "plugin:"}
  /\ ValueOr(o, "transform", "") = "aes-gcm" =>
       {"key_from", "nonce_from"} \subseteq DOMAIN o
  /\ "checksum" \in DOMAIN o => o["checksum"].v \in {"crc16", "crc32", "internet"}

(* A faulty key, without the bit offset. *)
SortKeyByByte(f) == IF f.order # None THEN <<0, f.order[1], 0>> ELSE <<1, OrElse(f.offset, 0), 0>>

(* sort_header_fields: a stable sort by order, or by offset after all the  *)
(* ordered ones, then by bit offset.                                       *)
SortKey(f) == IF f.order # None THEN <<0, f.order[1], f.bit_offset>>
              ELSE <<1, OrElse(f.offset, 0), f.bit_offset>>
KeyLess(a, b) ==
  \E i \in 1 .. 3 : a[i] < b[i] /\ \A j \in 1 .. i - 1 : a[j] = b[j]
SortHeaderFields(specs, iter) ==
  LET rank(name) == CHOOSE i \in DOMAIN iter : iter[i] = name
      before(m, n) == \/ KeyLess(SortKey(specs[m]), SortKey(specs[n]))
                      \/ SortKey(specs[m]) = SortKey(specs[n]) /\ rank(m) < rank(n)
      names == SetToSortSeq(DOMAIN specs, before)
  IN [i \in DOMAIN names |-> specs[names[i]]]

(* The fields a case names: its "fields" object, or itself. *)
CaseFields(case) ==
  IF "fields" \in DOMAIN case.v /\ case.v["fields"].t = "obj"
  THEN case.v["fields"].v ELSE case.v

(***************************************************************************)
(* parse_header_fields: an option of the sorted field specifications.      *)
(***************************************************************************)
RECURSIVE ParseHeaderFields(_, _)
ParseHeaderFields(values, iter) ==
  LET valid(name) == values[name].t = "obj" /\ FieldIsValid(values[name].v)
      nested(o) == ParseHeaderFields(ValueOr(o, "fields", <<>>), iter)
      cases(o) == LET cs == ValueOr(o, "cases", <<>>)
                  IN [s \in DOMAIN cs |->
                        IF cs[s].t = "obj" THEN ParseHeaderFields(CaseFields(cs[s]), iter)
                        ELSE None]
      parsed(name) ==
        LET o == values[name].v
            length == ValueOr(o, "length", 1)
        IN [name |-> name, order |-> OptValue(o, "order"), offset |-> OptValue(o, "offset"),
            length |-> length, length_from |-> OptValue(o, "length_from"),
            length_adjust |-> ValueOr(o, "length_adjust", 0),
            repeat |-> ValueOr(o, "repeat", 1), repeat_from |-> OptValue(o, "repeat_from"),
            terminator |-> ValueOr(o, "terminator", <<>>), when |-> OptValue(o, "when"),
            bit_offset |-> ValueOr(o, "bit_offset", 0),
            bits |-> ValueOr(o, "bits", IF length > 8 THEN 64 ELSE 8 * length),
            format |-> ValueOr(o, "format", DefaultFormat(o, length)),
            enum |-> ValueOr(o, "enum", <<>>), fields |-> nested(o)[1],
            switch_on |-> OptValue(o, "switch_on"),
            cases |-> [s \in DOMAIN cases(o) |-> cases(o)[s][1]],
            transform |-> ValueOr(o, "transform", ""),
            key_from |-> OptValue(o, "key_from"), nonce_from |-> OptValue(o, "nonce_from"),
            checksum |-> ValueOr(o, "checksum", ""),
            checksum_range |-> Get(o, "checksum_range")]
  IN IF \A name \in DOMAIN values :
          /\ valid(name)
          /\ nested(values[name].v) # None
          /\ \A s \in DOMAIN cases(values[name].v) : cases(values[name].v)[s] # None
     THEN Some(SortHeaderFields([name \in DOMAIN values |-> parsed(name)], iter))
     ELSE None

(* interpret_header_schema *)
SchemaKinds == [offset |-> "u64", endian |-> "string", fields |-> "object"]
InterpretHeaderSchema(b, iter) ==
  IF ~ (/\ HasOneLabel(b) /\ WellTyped(b.attrs, SchemaKinds) /\ b.blocks = <<>>
        /\ ValueOr(b.attrs, "endian", "big") \in {"big", "little"}
        /\ "fields" \in DOMAIN b.attrs) THEN None
  ELSE LET fields == ParseHeaderFields(b.attrs["fields"].v, iter)
       IN IF fields = None \/ fields = Some(<<>>) THEN None
          ELSE Some([name |-> b.labels[1], offset |-> ValueOr(b.attrs, "offset", 0),
                     endian |-> ValueOr(b.attrs, "endian", "big"),
                     fields |-> fields[1]])
=============================================================================
