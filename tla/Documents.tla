----------------------------- MODULE Documents -----------------------------
(***************************************************************************)
(* What is done to a document before a protocol runs: files are loaded,    *)
(* steps interpreted, header schemas laid out and used to encode and to    *)
(* decode.  These are functions, those of Loader, Interpret, HeaderSchema  *)
(* and SchemaCodec; a behaviour applies one of them to one input.          *)
(***************************************************************************)
EXTENDS Loader, Interpret, SchemaCodec

VARIABLES
  sort,    \* what is done: "codec", "wire", "layout", "load" or "step"
  input,   \* to what, a record
  output   \* None, then Some(the results)

document == <<sort, input, output>>

Return(results) ==
  /\ output = None
  /\ output' = Some(results)
  /\ UNCHANGED <<sort, input>>

-----------------------------------------------------------------------------
(* The codec *)

(* The values of decoded fields: an enum member is its number. *)
RECURSIVE Plain(_)
Plain(v) ==
  CASE v.t = "member" -> v.v.value
    [] v.t = "arr" -> Arr([i \in DOMAIN v.v |-> Plain(v.v[i])])
    [] v.t = "obj" -> Obj([k \in DOMAIN v.v |-> Plain(v.v[k])])
    [] OTHER -> v

(* encode_schema, and decode_schema of the result with extra bytes after it *)
EncodeDecode ==
  \E schema \in ToSet(InterpretHeaderSchema(input.block, input.iter)) :
    LET encoded == EncodeSchema(schema, input.values)
    IN Return([schema |-> schema, encoded |-> encoded,
               decoded |-> Then(encoded, LAMBDA bytes :
                             DecodeSchema(schema, bytes \o input.extra, <<>>))])
(* decode_schema, and encode_schema of the plain values it returns *)
DecodeEncode ==
  \E schema \in ToSet(InterpretHeaderSchema(input.block, input.iter)) :
    LET decoded == DecodeSchema(schema, input.bytes, <<>>)
    IN Return([schema |-> schema, decoded |-> decoded,
               encoded |-> Then(decoded, LAMBDA d : EncodeSchema(schema, Plain(Obj(d.fields)).v))])

(* interpret_header_schema, under every order of the hash map of the fields *)
LayOut ==
  Return([i \in DOMAIN input.iters |-> InterpretHeaderSchema(input.block, input.iters[i])[1].fields])

(* load_blocks of a file, and the protocols interpret finds in the result *)
LoadFiles ==
  \E r \in {LoadBlocks(input.files, input.root)} :
    Return([error |-> r.error,
            names |-> IF r.error = "" THEN ProtocolNames(r.blocks) ELSE None])

(* interpret_step *)
ReadStep == Return(InterpretStep(input.block))

DocumentNext ==
  \/ sort = "codec" /\ EncodeDecode
  \/ sort = "wire" /\ DecodeEncode
  \/ sort = "layout" /\ LayOut
  \/ sort = "load" /\ LoadFiles
  \/ sort = "step" /\ ReadStep
  \/ output # None /\ UNCHANGED document

-----------------------------------------------------------------------------
(* What the properties are stated with *)

(* What a schema must avoid for its values to survive: a number of a       *)
(* length taken from another field, two members of one name.               *)
Unambiguous(f) ==
  /\ f.format \in NumericFormats => f.length_from = None
  /\ \A j, k \in DOMAIN f.enum : f.enum[j] = f.enum[k] => j = k
(* And what a value must: its own terminator. *)
Delimited(f, values) ==
  f.terminator # <<>> /\ f.name \in DOMAIN values =>
    LET content == values[f.name].v \o f.terminator
        n == Len(f.terminator)
    IN \A i \in 1 .. Len(content) - n : SubSeq(content, i, i + n - 1) # f.terminator

(* The value that was encoded, up to the name of an enum member. *)
Agrees(d, v) ==
  LET same(a, b) == a.t = b.t /\ a.v = b.v
  IN IF d.t = "member" THEN same(d.v.name, v) \/ same(d.v.value, v) ELSE same(Plain(d), v)

(* The place a document gives a field: its order, or its offset, then its bit. *)
Place(f) == <<f.order, IF f.order = None THEN OrElse(f.offset, 0) ELSE 0, f.bit_offset>>
Imports(files, path) == SelectSeq(files[path], LAMBDA b : b.name = "import")
Imported(files, path) ==
  {Imports(files, path)[i].labels[1] : i \in DOMAIN Imports(files, path)}
(* The files reached from one, at most as many steps away as there are files. *)
Reached(files, from) ==
  FoldLeft(LAMBDA seen, k : seen \cup UNION {Imported(files, p) : p \in seen \cap DOMAIN files},
           from, [k \in 1 .. Cardinality(DOMAIN files) |-> k])

(* The sections execute_step reads for an action, and those it needs. *)
Reads(action) ==
  CASE action \in {"send", "ack", "nack"} -> {"segment", "expect"}
    [] action \in {"duplicate", "corrupt", "reset"} -> {"segment"}
    [] action = "send_raw" -> {"segment", "raw"}
    [] action \in {"recv", "recv_raw", "drop"} -> {"expect"}
    [] action \in {"assert", "set", "plugin"} -> {action}
    [] OTHER -> {}
Needs(action) ==
  CASE action = "send_raw" -> {"raw"} [] action = "plugin" -> {"plugin"} [] OTHER -> {}

-----------------------------------------------------------------------------
(* Properties, each of the results r of one application *)

EncodedDecodes(r) ==
  (/\ r.encoded # None
   /\ \A i \in DOMAIN r.schema.fields :
        Unambiguous(r.schema.fields[i]) /\ Delimited(r.schema.fields[i], input.values)) =>
    \E d \in ToSet(r.decoded) :
      /\ d.unknown = input.extra
      /\ \A i \in DOMAIN d.checks : d.checks[i]
      /\ \A k \in DOMAIN input.values :
           IF k \in DOMAIN d.fields THEN Agrees(d.fields[k], input.values[k])
           ELSE \E i \in DOMAIN r.schema.fields :
                  r.schema.fields[i].name = k /\ r.schema.fields[i].when # None

DecodedEncodes(r) ==
  \A d \in ToSet(r.decoded) :
    (\A i \in DOMAIN d.checks : d.checks[i]) =>
      /\ r.encoded # None
      /\ Len(r.encoded[1]) = d.consumed
      /\ (\A i \in DOMAIN r.schema.fields : r.schema.fields[i].format # "bool") =>
           r.encoded[1] = SubSeq(input.bytes, 1, d.consumed)


(***************************************************************************)
(* The layout of a header schema is what the document says: unless two     *)
(* fields have one place, the order of the hash map parse_header_fields    *)
(* reads them from does not show.                                          *)
(***************************************************************************)
LayoutIsDetermined ==
  sort = "layout" =>
    \A r \in ToSet(output) :
      \/ \E i, j \in DOMAIN r[1] : i # j /\ Place(r[1][i]) = Place(r[1][j])
      \/ \A n \in DOMAIN r : r[n] = r[1]

IsExact(r, files, root) ==
  LET reached == Reached(files, {root})
      cyclic == \E p \in reached \cap DOMAIN files : p \in Reached(files, Imported(files, p))
      missing == ~ reached \subseteq DOMAIN files
      plain == \A p \in reached : \A i \in DOMAIN Imports(files, p) :
                 DOMAIN Imports(files, p)[i].attrs = {}
      at(p) == CHOOSE i \in DOMAIN r.names[1] : r.names[1][i] = p
  IN /\ (r.error = "") = ~(cyclic \/ missing)
     /\ r.error = "cycle" => cyclic
     /\ r.error = "missing" => missing
     /\ r.error = "" /\ r.names # None =>
          \A i \in DOMAIN r.names[1] : <<Last(r.names[1][i])>> \in reached
     /\ r.error = "" /\ plain =>
          /\ r.names # None
          /\ IsInjective(r.names[1]) /\ ToSet(r.names[1]) = reached
          /\ \A p \in reached : \A q \in Imported(files, p) : at(q) < at(p)

(***************************************************************************)
(* load_blocks fails for the reason there is: a cycle when a file it       *)
(* reaches imports itself, a file that cannot be read when it reaches one. *)
(* Otherwise the protocols are those of files it reaches; and when no      *)
(* import has an alias or a selection, each exactly once, those of an      *)
(* imported file before those of the file that imports it.                 *)
(***************************************************************************)
LoadIsExact ==
  sort = "load" => \A r \in ToSet(output) : IsExact(r, input.files, input.root)

(***************************************************************************)
(* "each canonical file is included once" (loader.rs:11): the protocols of *)
(* a file the root imports by its name alone are there.                    *)
(***************************************************************************)
ImportsAreIncluded ==
  sort = "load" =>
    \A r \in ToSet(output), b \in ToSet(Imports(input.files, input.root)) :
      r.names # None /\ DOMAIN b.attrs = {} => b.labels[1] \in ToSet(r.names[1])

(***************************************************************************)
(* A step interpret_step accepts is one execute_step can run: the sections *)
(* its action needs are there, and apart from the timer no section is      *)
(* there that its action does not read.                                    *)
(***************************************************************************)
AcceptedStepsAreExecutable ==
  sort = "step" =>
    \A r \in ToSet(output) : \A s \in ToSet(r) :
      LET parts == [segment |-> s.segment, expect |-> s.expect, assert |-> s.assert,
                    set |-> s.set, plugin |-> s.plugin, raw |-> s.raw]
          present == {p \in DOMAIN parts : parts[p] # None}
      IN Needs(s.action) \subseteq present /\ present \subseteq Reads(s.action)
=============================================================================
