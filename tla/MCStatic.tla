------------------------------ MODULE MCStatic ------------------------------
(***************************************************************************)
(* Everything that happens to a protocol before it runs, for TLC: a        *)
(* behaviour plans a list of steps, or explores a planned protocol, or is  *)
(* one of the applications of Documents.                                   *)
(***************************************************************************)
EXTENDS Plan, Documents

CONSTANTS
  ListLength,  \* length of the arbitrary lists that are planned
  GraphSize,   \* number of steps of the graphs that are planned
  Explored, Invariants, Bounds   \* for Explorer

VARIABLES
  which, max_states, queue, visited, reached, violations, transitions

X == INSTANCE Explorer WITH Roles <- RoleNames, Protocols <- Explored

explorer == <<max_states, queue, visited, reached, violations, transitions>>

-----------------------------------------------------------------------------
(* Files a, b and c, and d, which cannot be read.  A file imports others and *)
(* declares the protocol that has its name.                                  *)
Import(path, attrs) == [name |-> "import", labels |-> <<path>>, attrs |-> attrs, blocks |-> <<>>]
File(path, imports) ==
  Append(imports, [name |-> "protocol", labels |-> path, attrs |-> <<>>, blocks |-> <<>>])
A == <<"a">>
B == <<"b">>
C == <<"c">>
D == <<"d">>
Plainly(paths) == [i \in DOMAIN paths |-> Import(paths[i], <<>>)]
(* Every graph of plain imports, and d imported by b. *)
ImportLists == {<<>>, <<A>>, <<B>>, <<C>>, <<C, B>>, <<B, C>>, <<A, C>>}
PlainFiles ==
  {A :> File(A, Plainly(i)) @@ B :> File(B, Plainly(j)) @@ C :> File(C, Plainly(k)) :
     i, j, k \in ImportLists}
MissingFiles ==
  {A :> File(A, Plainly(i)) @@ B :> File(B, Plainly(<<C, D>>)) @@ C :> File(C, <<>>) :
     i \in ImportLists}
(* a imports b and c, b imports c: plain, selecting the file's own protocol, *)
(* or under an alias.                                                        *)
Ways(path) == {Import(path, <<>>), Import(path, [only |-> Arr(<<Str(path[1])>>)]),
               Import(path, [as |-> Str("m")])}
LoadInit ==
  /\ sort = "load"
  /\ \/ \E files \in PlainFiles \cup MissingFiles : input = [files |-> files, root |-> A]
     \/ \E i \in Ways(B), j \in Ways(C), k \in Ways(C) :
          input = [files |-> A :> File(A, <<i, j>>) @@ B :> File(B, <<k>>) @@ C :> File(C, <<>>),
                   root |-> A]

-----------------------------------------------------------------------------
(* A step of every action, with every set of sections, and a retry that does *)
(* or does not fit 32 bits.                                                  *)
Actions ==
  {"send", "send_raw", "recv", "recv_raw", "ack", "nack", "wait", "close", "drop", "corrupt", "set",
   "plugin", "open", "listen", "reset", "duplicate", "assert", "log"}
Inner(name, attrs) == [name |-> name, labels |-> <<>>, attrs |-> attrs, blocks |-> <<>>]
SectionBlocks ==
  <<Inner("segment", [payload |-> Str("x")]), Inner("expect", [payload |-> Str("x")]),
    Inner("timer", [timeout |-> Dur(5, "ms")]), Inner("assert", [n |-> Num(1)]), Inner("set", [n |-> Num(1)]),
    Inner("plugin", [manifest |-> Str("m"), kind |-> Str("action"), name |-> Str("n")]),
    Inner("ipv4", <<>>)>>
StepInit ==
  /\ sort = "step"
  /\ \E action \in Actions, on \in [DOMAIN SectionBlocks -> BOOLEAN], retry \in {Num(1), Huge} :
       input = [block |-> [name |-> "step", labels |-> <<"s">>,
                           attrs |-> [role |-> Str("a"), action |-> Str(action), retry |-> retry],
                           blocks |-> LET kept == SelectSeq([i \in DOMAIN SectionBlocks |-> i], LAMBDA i : on[i])
                                      IN [k \in DOMAIN kept |-> SectionBlocks[kept[k]]]]]

-----------------------------------------------------------------------------
(* Header schemas. *)
Schema(attrs, fields) ==
  [name |-> "header_schema", labels |-> <<"h">>, blocks |-> <<>>,
   attrs |-> [fields |-> Obj(fields)] @@ attrs]
Field(attrs) == Obj(attrs)
Bits(offset, from, bits) ==
  Field([offset |-> Num(offset), bit_offset |-> Num(from), bits |-> Num(bits)])

(* Two fields that share a byte, one of them an enum, and a counted body. *)
Shared == Schema(<<>>, [
  low |-> Bits(0, 0, 4),
  kind |-> Obj([Bits(0, 4, 4).v EXCEPT !["offset"] = Num(0)] @@ [enum |-> Obj(1 :> Str("one") @@ 2 :> Str("two"))]),
  n |-> Field([offset |-> Num(1)]),
  body |-> Field([offset |-> Num(2), length_from |-> Str("n"), format |-> Str("bytes")])])
(* A terminated text, a flag, a field that depends on it, a checksum of a range. *)
Optional == Schema([endian |-> Str("little"), offset |-> Num(1)], [
  name |-> Field([order |-> Num(1), terminator |-> Hex(<<0>>), format |-> Str("ascii")]),
  flag |-> Field([order |-> Num(2), format |-> Str("bool")]),
  extra |-> Field([order |-> Num(3), length |-> Num(2), format |-> Str("int"),
                   when |-> Cond("flag", "is", Bool(TRUE))]),
  sum |-> Field([order |-> Num(4), length |-> Num(2), checksum |-> Str("crc16"),
                 checksum_range |-> Span(0, 2)])])
(* A list of objects, a variant, something compressed, and a checksum. *)
Nested == Schema(<<>>, [
  count |-> Field([order |-> Num(1)]),
  items |-> Field([order |-> Num(2), repeat_from |-> Str("count"), length |-> Num(2),
                   fields |-> Obj([x |-> Field([order |-> Num(1)]), y |-> Field([order |-> Num(2)])])]),
  tag |-> Field([order |-> Num(3)]),
  variant |-> Field([order |-> Num(4), length |-> Num(2), switch_on |-> Str("tag"),
                     cases |-> Obj(0 :> Obj([wide |-> Field([length |-> Num(2)])])
                                   @@ DefaultCase :> Obj([p |-> Field([order |-> Num(1)]),
                                                          q |-> Field([order |-> Num(2)])]))]),
  packed |-> Field([order |-> Num(5), length |-> Num(3), transform |-> Str("zlib")]),
  sum |-> Field([order |-> Num(6), length |-> Num(2), checksum |-> Str("internet")])])
(* Where the codec loses: a number of a variable length, members of one name. *)
Ambiguous == Schema(<<>>, [
  n |-> Field([order |-> Num(1), enum |-> Obj(1 :> Str("same") @@ 2 :> Str("same"))]),
  wide |-> Field([order |-> Num(2), length_from |-> Str("n")])])

(* One order of the hash maps; the order of the fields of the schemas below *)
(* does not depend on it.                                                    *)
Iter == <<"low", "kind", "n", "body", "name", "flag", "extra", "sum", "count", "items", "x", "y", "tag",
          "variant", "wide", "p", "q", "packed">>
Zeroes(n) == [i \in 1 .. n |-> 0]

Encoded(block, values, extra) == [block |-> block, iter |-> Iter, values |-> values, extra |-> extra]
CodecInit ==
  /\ sort = "codec"
  /\ \E i, j, k \in 1 .. 3 :
       \/ input = Encoded(Shared,
            [low |-> Num(<<0, 7, 16>>[i]), kind |-> <<Num(1), Str("two"), Num(9)>>[j],
             n |-> Num(k - 1), body |-> Bytes([m \in 1 .. k - 1 |-> 10 * m])], Zeroes(i - 1))
       \/ input = Encoded(Optional,
            [name |-> Text(<<<<>>, <<65>>, <<65, 0, 66>>>>[i]), flag |-> Bool(j = 1),
             extra |-> Num(<<-2, 0, 300>>[k])], <<7>>)
       \/ input = Encoded(Nested,
            [count |-> Num(i - 1),
             items |-> LET item == Obj([x |-> Num(j), y |-> Num(200 + k)])
                       IN IF i = 2 THEN item ELSE Arr([m \in 1 .. i - 1 |-> item]),
             tag |-> Num(j - 1),
             variant |-> IF j = 1 THEN Obj([wide |-> Num(258 * k)]) ELSE Obj([p |-> Num(k), q |-> Num(j)]),
             packed |-> Bytes(<<5, k>>)], <<1, 2>>)
       \/ input = Encoded(Ambiguous,
            [n |-> <<Num(1), Num(2), Str("same")>>[i], wide |-> Num(100 * j)], Zeroes(k - 1))

(* Short inputs, some of which are whole. *)
Decoded(block, bytes) == [block |-> block, iter |-> Iter, bytes |-> bytes]
WireInit ==
  /\ sort = "wire"
  /\ \E i, j, k \in 1 .. 3 :
       LET octets == <<0, 1, 33>>
           nested == <<i - 1>> \o [m \in 1 .. 2 * (i - 1) |-> k] \o <<j - 1, 4, k, ZlibMark, 1, 2>>
       IN \/ input = Decoded(Shared, <<octets[i], octets[j], 3 * k>>)
          \/ \E sum \in {Crc16(<<65, 0>>)} :
               input = Decoded(Optional,
                 <<0, 65, 0, octets[i]>> \o (IF i = 1 THEN <<>> ELSE <<j, k>>)
                 \o <<sum % 256, sum \div 256, j>>)
          \/ \E sum \in {Internet(nested)} :
               input = Decoded(Nested, nested \o <<sum \div 256, sum % 256, 9>>)

(* Fields with and without an order, an offset and a bit offset. *)
Places == <<Bits(0, 0, 4), Bits(0, 4, 4), Bits(1, 0, 8), Field([order |-> Num(1)]),
            Field([order |-> Num(1), offset |-> Num(0)]), Field(<<>>)>>
LayoutInit ==
  /\ sort = "layout"
  /\ \E i, j, k \in DOMAIN Places :
       input = [block |-> Schema(<<>>, [x |-> Places[i], y |-> Places[j], z |-> Places[k]]),
                iters |-> <<<<"x", "y", "z">>, <<"x", "z", "y">>, <<"y", "x", "z">>,
                            <<"y", "z", "x">>, <<"z", "x", "y">>, <<"z", "y", "x">>>>]

DocumentInit ==
  /\ output = None
  /\ CodecInit \/ WireInit \/ LayoutInit \/ LoadInit \/ StepInit

-----------------------------------------------------------------------------
PlanIdle == deps = <<>> /\ indeg = <<>> /\ ready = {} /\ order = <<>>
ExplorerIdle ==
  /\ max_states = 0 /\ queue = <<>> /\ visited = {} /\ reached = {}
  /\ violations = {} /\ transitions = 0
DocumentIdle == sort = "none" /\ input = <<>> /\ output = None

MCInit ==
  \/ which = "plan" /\ Init /\ ExplorerIdle /\ DocumentIdle
  \/ which = "explore" /\ X!Init /\ PlanIdle /\ DocumentIdle
  \/ /\ which = "document" /\ DocumentInit /\ PlanIdle /\ ExplorerIdle
     /\ protocol = <<>> /\ phase = "none"

MCNext ==
  \/ which = "plan" /\ Next /\ UNCHANGED <<which, explorer, document>>
  \/ which = "explore" /\ X!Next /\ UNCHANGED <<which, deps, indeg, ready, order, document>>
  \/ which = "document" /\ DocumentNext /\ UNCHANGED <<which, vars, explorer>>

MCSpec == MCInit /\ [][MCNext]_<<which, vars, explorer, document>>

(* PlanIsRight, of plan(). *)
PlansAreRight == which = "plan" => PlanIsRight
(* Explorer!ReportIsExact, of the report of check(). *)
ReportIsExact == which = "explore" => X!ReportIsExact
(* Explorer!CounterexamplesAreShortest, of the violations check() adds. *)
CounterexamplesAreShortest == which = "explore" => X!CounterexamplesAreShortest

ASSUME X!IsPlanned

-----------------------------------------------------------------------------
(* Every list, including repeated names and unknown dependencies. *)
Lists ==
  LET Decl == [name : 1 .. ListLength + 1, role : RoleNames, depends_on : SUBSET (1 .. ListLength + 1)]
  IN UNION {[1 .. n -> Decl] : n \in 0 .. ListLength}

(* Steps named by their index: every graph without self-loops, every role *)
(* assignment up to renaming the roles.                                   *)
Graphs ==
  LET N == 1 .. GraphSize
  IN {[i \in N |-> [name |-> i, role |-> rs[i], depends_on |-> g[i]]] :
        rs \in {f \in [N -> RoleNames] : f[1] = "a"},
        g \in {h \in [N -> SUBSET N] : \A i \in N : i \notin h[i]}}

ListsAndGraphs == Lists \cup Graphs

-----------------------------------------------------------------------------
(* Never b open, a open implies b open, eventually a open. *)
Inv(kind, role, state) ==
  [kind |-> kind, role |-> role, state |-> state, implies_role |-> "b", implies_state |-> "open"]
ThreeInvariants == {Inv("never", "b", "open"), Inv("implies", "a", "open"), Inv("eventually", "a", "open")}

Attributes ==
  [when : {"true", "false", "dynamic"}, from_state : {"*", "open"}, to_state : {"-", "open", "closed"}]

(* The previous step of the role of step i. *)
Chain(roles, i) ==
  LET earlier == {j \in 1 .. i - 1 : roles[j] = roles[i]}
  IN {j \in earlier : \A k \in earlier : k <= j}

(* Every protocol of three steps of two roles, with the given attributes. *)
ThreeSteps ==
  {[i \in 1 .. 3 |-> [role |-> roles[i], deps |-> Chain(roles, i) \cup (IF i = 3 THEN d ELSE {}),
                      when |-> a[i].when, from_state |-> a[i].from_state, to_state |-> a[i].to_state]] :
     roles \in {<<"a", "a", "b">>, <<"a", "b", "a">>}, d \in {{}, {2}}, a \in [1 .. 3 -> Attributes]}

=============================================================================
