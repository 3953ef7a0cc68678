----------------------------- MODULE Interpret -----------------------------
(***************************************************************************)
(* The model layer: a protocol block of the syntax tree becomes a Protocol *)
(* or is rejected.  Every interpreter function is an operator that returns *)
(* an option, None where the code returns a ModelError; the text of an     *)
(* error is left out, so the order of the checks is too.  Header schemas   *)
(* are interpreted in HeaderSchema, files and modules in Loader.           *)
(***************************************************************************)
EXTENDS Document, HeaderSchema, SequencesExt

FailureKinds == {"timeout", "transport", "assertion", "validation",
                 "resource_limit", "panic", "runtime"}

(* parse_action: the spellings of every action. *)
ParseAction(s) ==
  CASE s \in {"send", "send_raw", "recv", "recv_raw", "ack", "nack", "wait",
              "close", "drop", "corrupt", "set", "plugin"} -> Some(s)
    [] s \in {"open", "connect", "listen"} -> Some("open")
    [] s \in {"reset", "abort"} -> Some("reset")
    [] s \in {"duplicate", "dup"} -> Some("duplicate")
    [] s \in {"assert", "check"} -> Some("assert")
    [] s \in {"log", "mark"} -> Some("log")
    [] OTHER -> None

(***************************************************************************)
(* interpret_field_match: an object is one operator, or min and max; any   *)
(* other value is an equality.  A range whose bound is not a whole number  *)
(* silently becomes a one-sided bound.  A regular expression is one of the *)
(* text tests and its compilation is part of its kind.                     *)
(***************************************************************************)
TextOperators == {"contains", "prefix", "suffix", "regex"}
MatchOperators == TextOperators \cup {"hex", "hex_contains", "not_equal", "min", "max"}

InterpretFieldMatch(v) ==
  IF v.t # "obj" THEN Some([op |-> "equal", arg |-> v])
  ELSE
    LET o == v.v
        ops == DOMAIN o
        whole(key) == key \in ops /\ IsOfKind(o[key], "i64")
    IN IF ~ (ops \subseteq MatchOperators
             /\ (Cardinality(ops) = 1 \/ ops = {"min", "max"})) THEN None
       ELSE IF ops = {"hex"}
         THEN IF IsOfKind(o["hex"], "hex")
              THEN Some([op |-> "equal", arg |-> Bytes(o["hex"].v)]) ELSE None
       ELSE IF ops = {"hex_contains"}
         THEN IF IsOfKind(o["hex_contains"], "hexbytes")
              THEN Some([op |-> "bytes", arg |-> o["hex_contains"]]) ELSE None
       ELSE IF ops = {"not_equal"}
         THEN Some([op |-> "not_equal", arg |-> o["not_equal"]])
       ELSE IF ops \subseteq TextOperators
         THEN LET op == CHOOSE x \in ops : TRUE
              IN IF IsString(o[op]) THEN Some([op |-> op, arg |-> o[op]]) ELSE None
       ELSE IF whole("min") /\ whole("max")
         THEN Some([op |-> "range", arg |-> [lo |-> o["min"].v, hi |-> o["max"].v]])
       ELSE IF whole("min") THEN Some([op |-> "min", arg |-> o["min"]])
       ELSE IF whole("max") THEN Some([op |-> "max", arg |-> o["max"]])
       ELSE None

(* interpret_field_matches: every entry, or nothing. *)
InterpretFieldMatches(o) ==
  LET ms == [k \in DOMAIN o |-> InterpretFieldMatch(o[k])]
  IN IF \E k \in DOMAIN o : ms[k] = None THEN None
     ELSE Some([k \in DOMAIN o |-> ms[k][1]])

(***************************************************************************)
(* interpret_field_values and resolve_hex_values: { hex = "aabb" } becomes *)
(* bytes.  In a segment a reference is deferred to the time of sending and *)
(* anything else is an error; in an assertion what does not parse stays as *)
(* it is.                                                                  *)
(***************************************************************************)
IsHexObject(v) == v.t = "obj" /\ "hex" \in DOMAIN v.v
FieldValue(v) ==
  IF ~IsHexObject(v) THEN Some(v)
  ELSE LET h == v.v["hex"]
       IN IF h.t = "ref" THEN Some([t |-> "deferred", v |-> h.v])
          ELSE IF IsOfKind(h, "hex") THEN Some(Bytes(h.v)) ELSE None
InterpretFieldValues(o) ==
  LET vs == [k \in DOMAIN o |-> FieldValue(o[k])]
  IN IF \E k \in DOMAIN o : vs[k] = None THEN None
     ELSE Some([k \in DOMAIN o |-> vs[k][1]])
ResolveHexValues(attrs) ==
  [k \in DOMAIN attrs |->
     IF IsHexObject(attrs[k]) /\ IsOfKind(attrs[k].v["hex"], "hex")
     THEN Bytes(attrs[k].v["hex"].v) ELSE attrs[k]]

(* interpret_segment *)
SegmentKinds ==
  [flags |-> "strings", seq |-> "i64", ack |-> "i64", payload |-> "string",
   hex |-> "hexref", payload_len |-> "i64", window |-> "i64", stream |-> "i64",
   fields |-> "object", delay |-> "duration", flip |-> "u64"]
InterpretSegment(attrs) ==
  IF ~WellTyped(attrs, SegmentKinds) THEN None
  ELSE LET fields == InterpretFieldValues(ValueOr(attrs, "fields", <<>>))
       IN IF fields = None THEN None
          ELSE Some([flags |-> ToSet(StringsOr(attrs, "flags")),
                     seq |-> OptValue(attrs, "seq"), ack |-> OptValue(attrs, "ack"),
                     payload |-> Get(attrs, "payload"), hex |-> Get(attrs, "hex"),
                     payload_len |-> OptValue(attrs, "payload_len"),
                     fields |-> fields[1], flip |-> OptValue(attrs, "flip")])

(* interpret_expect; the captures are filled in by the step. *)
ExpectKinds ==
  [flags |-> "strings", payload |-> "string", hex |-> "hex",
   hex_contains |-> "hexbytes", from |-> "string", window |-> "i64",
   stream |-> "i64", fields |-> "object", capture |-> "any"]
InterpretExpect(attrs) ==
  IF ~WellTyped(attrs, ExpectKinds) THEN None
  ELSE LET fields == InterpretFieldMatches(ValueOr(attrs, "fields", <<>>))
       IN IF fields = None THEN None
          ELSE Some([flags |-> ToSet(StringsOr(attrs, "flags")),
                     from |-> OptValue(attrs, "from"),
                     payload |-> Get(attrs, "payload"), hex |-> Get(attrs, "hex"),
                     hex_contains |-> Get(attrs, "hex_contains"),
                     fields |-> fields[1], capture |-> <<>>])

(* interpret_timer *)
TimerKinds == [timeout |-> "duration", retransmit |-> "u32"]
InterpretTimer(attrs) ==
  IF ~WellTyped(attrs, TimerKinds) THEN None
  ELSE Some([timeout |-> MillisOr(attrs, "timeout", 1000),
             retransmit |-> ValueOr(attrs, "retransmit", 0)])

(* interpret_plugin_spec *)
PluginKinds == [manifest |-> "nonempty", kind |-> "nonempty",
                name |-> "nonempty", input |-> "any"]
InterpretPluginSpec(b) ==
  IF /\ WellTyped(b.attrs, PluginKinds)
     /\ {"manifest", "kind", "name"} \subseteq DOMAIN b.attrs
     /\ b.attrs["kind"].v \in {"action", "matcher", "decoder", "report"}
     /\ b.blocks = <<>>
  THEN Some([kind |-> b.attrs["kind"].v, name |-> b.attrs["name"].v])
  ELSE None

(***************************************************************************)
(* interpret_raw_packet_spec: the header blocks of a send_raw step.  The   *)
(* result is an option inside the option: no header block is no packet.    *)
(***************************************************************************)
HeaderNames == {"ethernet", "ipv4", "ipv6", "tcp", "udp"}
HeaderKeys ==
  [ethernet |-> {"source", "destination", "ether_type", "vlan_id",
                 "vlan_priority", "vlan_drop_eligible"},
   ipv4 |-> {"source", "destination", "dscp", "ecn", "id", "dont_fragment",
             "more_fragments", "fragment_offset", "ttl", "protocol", "options",
             "ihl", "total_length", "checksum"},
   ipv6 |-> {"source", "destination", "traffic_class", "flow_label",
             "payload_length", "next_header", "hop_limit", "fragment_offset",
             "more_fragments", "fragment_id"},
   tcp |-> {"source_port", "destination_port", "seq", "ack", "flags", "window",
            "urgent_pointer", "options", "data_offset", "checksum"},
   udp |-> {"source_port", "destination_port", "length", "checksum"}]

InterpretRawPacketSpec(b) ==
  LET present == {h \in HeaderNames : Child(b, h) # None}
      headers == [h \in present |-> Child(b, h)[1].attrs]
      mtu == Get(b.attrs, "mtu")
      minimum == IF "ipv6" \in present THEN 1280 ELSE 68
  IN IF present = {}
     THEN IF {"mtu", "fragment_id"} \cap DOMAIN b.attrs = {} THEN Some(None) ELSE None
     ELSE IF /\ \A h \in present : DOMAIN headers[h] \subseteq HeaderKeys[h]
             /\ Cardinality(present \cap {"ipv4", "ipv6"}) = 1
             /\ ~ {"tcp", "udp"} \subseteq present
             /\ mtu # None => IsOfKind(mtu[1], "usize") /\ mtu[1].v >= minimum
             /\ "fragment_id" \in DOMAIN b.attrs => IsOfKind(b.attrs["fragment_id"], "u32")
          THEN Some(Some([headers |-> headers, mtu |-> OptValue(b.attrs, "mtu")]))
          ELSE None

(* section_attrs: the attributes of a section written as a block or as an  *)
(* object; None inside when the step has no such section.                  *)
SectionAttrs(b, name) ==
  IF Child(b, name) # None THEN Some(Some(Child(b, name)[1].attrs))
  ELSE IF name \notin DOMAIN b.attrs THEN Some(None)
  ELSE IF b.attrs[name].t = "obj" THEN Some(Some(b.attrs[name].v))
  ELSE None

(* A section interpreted by interp, when it is there. *)
Section(b, name, interp(_)) ==
  LET attrs == SectionAttrs(b, name)
  IN IF attrs = None THEN None
     ELSE IF attrs[1] = None THEN Some(None)
     ELSE LET r == interp(attrs[1][1]) IN IF r = None THEN None ELSE Some(r)

(***************************************************************************)
(* extract_capture: the capture block of an expect block; failing that the *)
(* capture object of an expect object.  A capture object written inside an *)
(* expect block is in neither place and is ignored.                        *)
(***************************************************************************)
CaptureMap(b) ==
  LET blocks == IF Child(b, "expect") = None THEN None
                ELSE Child(Child(b, "expect")[1], "capture")
      inBlock == IF blocks = None THEN <<>> ELSE blocks[1].attrs
      expect == Get(b.attrs, "expect")
      inObject == IF /\ expect # None /\ expect[1].t = "obj"
                     /\ "capture" \in DOMAIN expect[1].v
                     /\ expect[1].v["capture"].t = "obj"
                  THEN expect[1].v["capture"].v ELSE <<>>
  IN IF DOMAIN inBlock # {} THEN inBlock ELSE inObject
ExtractCapture(b) ==
  LET m == CaptureMap(b)
  IN IF \A k \in DOMAIN m : IsString(m[k])
     THEN Some([k \in DOMAIN m |-> m[k].v]) ELSE None

(* validate_action_sections: the sections an action may have, and must. *)
AllowedSections(action) ==
  CASE action \in {"duplicate", "corrupt", "reset", "send_raw"} -> {"segment", "timer"}
    [] action \in {"send", "ack", "nack"} -> {"segment", "expect", "timer"}
    [] action \in {"recv", "recv_raw", "drop"} -> {"expect", "timer"}
    [] action = "wait" -> {"timer"}
    [] action \in {"assert", "set"} -> {action}
    [] OTHER -> {}
RequiredSections(action) ==
  CASE action = "corrupt" -> {"segment"}
    [] action \in {"assert", "set"} -> {action}
    [] OTHER -> {}
(* A faulty check, without the sections of one action only. *)
ValidateCommonSections(action, present) ==
  /\ present \ {"raw", "plugin"} \subseteq AllowedSections(action)
  /\ RequiredSections(action) \subseteq present
ValidateActionSections(action, present) ==
  /\ present \ {"raw", "plugin"} \subseteq AllowedSections(action)
  /\ RequiredSections(action) \subseteq present
  /\ (action = "send_raw") = ("raw" \in present)
  /\ (action = "plugin") = ("plugin" \in present)

(* The attributes of a step and what each must be; interpret_retry_policy  *)
(* reads the retry_* ones.                                                 *)
StepKinds ==
  [role |-> "string", action |-> "string", depends_on |-> "strings",
   requirements |-> "strings", from_state |-> "nonempty", to_state |-> "nonempty",
   description |-> "string", to |-> "string", mode |-> "string", message |-> "string",
   retransmit |-> "u32", when |-> "any", retry |-> "u32", on_timeout |-> "bool",
   loop |-> "u32", retry_delay |-> "duration", retry_max_delay |-> "duration",
   retry_backoff |-> "factor", retry_jitter |-> "rate", retry_on |-> "strings",
   segment |-> "object", expect |-> "object", timer |-> "object", assert |-> "object",
   set |-> "object", mtu |-> "usize", fragment_id |-> "u32"]
Sections == {"segment", "expect", "timer", "assert", "set", "plugin"}

(* The shape interpret_step demands of the block before it reads it. *)
StepShape(b) ==
  /\ HasOneLabel(b)
  /\ WellTyped(b.attrs, StepKinds)
  /\ ChildrenAre(b, Sections \cup HeaderNames)
  /\ \A s \in Sections \cup HeaderNames : AtMostOne(b, s)
  /\ \A s \in Sections : ~ (Child(b, s) # None /\ s \in DOMAIN b.attrs)
  /\ \A i \in DOMAIN b.blocks :
       LET c == b.blocks[i] IN
       ChildrenAre(c, IF c.name = "expect" THEN {"capture"} ELSE {}) /\ AtMostOne(c, "capture")
  /\ {"role", "action"} \subseteq DOMAIN b.attrs
  /\ "" \notin ToSet(StringsOr(b.attrs, "requirements"))
  /\ ToSet(StringsOr(b.attrs, "retry_on")) \subseteq FailureKinds

InterpretStep(b) ==
  IF ~StepShape(b) THEN None
  ELSE
    LET action == ParseAction(b.attrs["action"].v)
        mode == ValueOr(b.attrs, "mode",
                        IF b.attrs["action"].v = "listen" THEN "passive" ELSE "active")
        segment == Section(b, "segment", InterpretSegment)
        expect == Section(b, "expect", InterpretExpect)
        timer == Section(b, "timer", InterpretTimer)
        assert == Section(b, "assert", LAMBDA a : Some(ResolveHexValues(a)))
        set == Section(b, "set", LAMBDA a : Some(a))
        plugin == IF Child(b, "plugin") = None THEN Some(None)
                  ELSE LET p == InterpretPluginSpec(Child(b, "plugin")[1])
                       IN IF p = None THEN None ELSE Some(p)
        raw == InterpretRawPacketSpec(b)
        capture == ExtractCapture(b)
        parts == [segment |-> segment, expect |-> expect, timer |-> timer,
                  assert |-> assert, set |-> set, plugin |-> plugin, raw |-> raw]
    IN IF \/ action = None \/ mode \notin {"active", "passive"}
          \/ \E s \in DOMAIN parts : parts[s] = None
          \/ expect # None /\ expect[1] # None /\ capture = None THEN None
       ELSE IF ~ValidateActionSections(action[1], {s \in DOMAIN parts : parts[s][1] # None})
       THEN None
       ELSE Some([name |-> b.labels[1], role |-> b.attrs["role"].v, action |-> action[1],
                  deps |-> ToSet(StringsOr(b.attrs, "depends_on")),
                  from_state |-> OptValue(b.attrs, "from_state"),
                  to_state |-> OptValue(b.attrs, "to_state"),
                  to |-> OptValue(b.attrs, "to"), when |-> Get(b.attrs, "when"),
                  retransmit |-> ValueOr(b.attrs, "retransmit", 0),
                  retry |-> ValueOr(b.attrs, "retry", 0),
                  on_timeout |-> ValueOr(b.attrs, "on_timeout", FALSE),
                  retry_on |-> ToSet(StringsOr(b.attrs, "retry_on")),
                  loop |-> ValueOr(b.attrs, "loop", 1),
                  segment |-> segment[1],
                  expect |-> IF expect[1] = None THEN None
                             ELSE Some([expect[1][1] EXCEPT !.capture = capture[1]]),
                  timer |-> timer[1], assert |-> assert[1], set |-> set[1],
                  plugin |-> plugin[1], raw |-> raw[1]])

(* interpret_limits, with the defaults of ResourceLimits *)
LimitKinds ==
  [max_inbox |-> "usize", max_trace |-> "usize", max_payload |-> "usize",
   max_loop |-> "u32", max_retry |-> "u32", connect_timeout |-> "duration",
   max_runtime |-> "duration"]
InterpretLimits(b) ==
  IF ~ (WellTyped(b.attrs, LimitKinds) /\ b.blocks = <<>>) THEN None
  ELSE Some([max_inbox |-> ValueOr(b.attrs, "max_inbox", 10000),
             max_payload |-> ValueOr(b.attrs, "max_payload", 16777216),
             max_loop |-> ValueOr(b.attrs, "max_loop", 10000),
             max_retry |-> ValueOr(b.attrs, "max_retry", 1000),
             max_runtime |-> MillisOr(b.attrs, "max_runtime", 300000)])

(***************************************************************************)
(* interpret_transport_config and interpret_fault_predicate.  Attributes   *)
(* that only make sense together must be given together.                   *)
(***************************************************************************)
TransportKinds ==
  [loss_rate |-> "rate", delay |-> "duration", jitter |-> "duration",
   bandwidth_bps |-> "u64", bandwidth_after_nth |-> "u64", bandwidth_after_bps |-> "u64",
   mtu |-> "usize", burst_loss |-> "u32", duplicate_rate |-> "rate",
   corrupt_rate |-> "rate", drop_nth |-> "u64", disconnect_nth |-> "u64",
   delay_spike_nth |-> "u64", delay_spike |-> "duration", mtu_blackhole |-> "bool",
   port_capacity |-> "u64", nat_source_ip |-> "string", nat_source_port |-> "port",
   connect_failure |-> "string", fault_steps |-> "strings", fault_flag |-> "string",
   reorder |-> "bool", seed |-> "u64"]
InterpretFaultPredicate(b) ==
  IF /\ WellTyped(b.attrs, [field |-> "nonempty", equals |-> "any"])
     /\ DOMAIN b.attrs = {"field", "equals"} /\ b.blocks = <<>>
  THEN Some([field |-> b.attrs["field"].v, equals |-> b.attrs["equals"]]) ELSE None
InterpretTransportConfig(b) ==
  LET a == b.attrs
      n(key) == ValueOr(a, key, 0)
      when == Child(b, "fault_when")
  IN IF /\ WellTyped(a, TransportKinds)
        /\ ChildrenAre(b, {"fault_when"}) /\ AtMostOne(b, "fault_when")
        /\ (n("bandwidth_after_nth") = 0) = (n("bandwidth_after_bps") = 0)
        /\ (n("delay_spike_nth") = 0) = (MillisOr(a, "delay_spike", 0) = 0)
        /\ ValueOr(a, "mtu_blackhole", FALSE) => n("mtu") # 0
        /\ "connect_failure" \in DOMAIN a =>
             a["connect_failure"].v \in {"dns", "refused", "tls_handshake"}
        /\ when # None => InterpretFaultPredicate(when[1]) # None
     THEN Some([loss_rate |-> IF "loss_rate" \in DOMAIN a THEN Hundredths(a["loss_rate"]) ELSE 0,
                duplicate_rate |-> IF "duplicate_rate" \in DOMAIN a
                                   THEN Hundredths(a["duplicate_rate"]) ELSE 0,
                drop_nth |-> n("drop_nth"), disconnect_nth |-> n("disconnect_nth"),
                burst_loss |-> ValueOr(a, "burst_loss", 1), mtu |-> n("mtu"),
                mtu_blackhole |-> ValueOr(a, "mtu_blackhole", FALSE),
                reorder |-> ValueOr(a, "reorder", FALSE),
                port_capacity |-> n("port_capacity"),
                connect_failure |-> OptValue(a, "connect_failure"),
                fault_steps |-> ToSet(StringsOr(a, "fault_steps")),
                fault_flag |-> OptValue(a, "fault_flag"),
                fault_when |-> IF when = None THEN None ELSE InterpretFaultPredicate(when[1])])
     ELSE None

(* interpret_invariant *)
InvariantKinds == [kind |-> "string", role |-> "string", state |-> "string",
                   implies_role |-> "string", implies_state |-> "string"]
InterpretInvariant(b) ==
  LET implied == {"implies_role", "implies_state"}
  IN IF /\ HasOneLabel(b) /\ WellTyped(b.attrs, InvariantKinds) /\ b.blocks = <<>>
        /\ {"kind", "role", "state"} \subseteq DOMAIN b.attrs
        /\ b.attrs["kind"].v \in {"never_state", "eventually_state", "state_implies"}
        /\ IF b.attrs["kind"].v = "state_implies" THEN implied \subseteq DOMAIN b.attrs
           ELSE implied \cap DOMAIN b.attrs = {}
     THEN Some([name |-> b.labels[1], kind |-> b.attrs["kind"].v,
                roles |-> {b.attrs["role"].v}
                          \cup {b.attrs[k].v : k \in DOMAIN b.attrs \cap {"implies_role"}}])
     ELSE None

(* Every block of a kind, interpreted; None when one is rejected. *)
InterpretAll(blocks, interp(_)) ==
  LET rs == [i \in DOMAIN blocks |-> interp(blocks[i])]
  IN IF \E i \in DOMAIN rs : rs[i] = None THEN None ELSE Some([i \in DOMAIN rs |-> rs[i][1]])
DistinctNames(xs) == \A i, j \in DOMAIN xs : xs[i].name = xs[j].name => i = j

(***************************************************************************)
(* The limits a step is held to when it is interpreted: its loop, retry    *)
(* and retransmit attributes.  The retransmit of its timer is not among    *)
(* them.                                                                   *)
(***************************************************************************)
WithinLimits(step, limits) ==
  /\ step.loop <= limits.max_loop
  /\ step.retry <= limits.max_retry
  /\ step.retransmit <= limits.max_retry

(* interpret_protocol *)
ProtocolKinds == [description |-> "string", clock |-> "string", raw_tcp_stateful |-> "bool"]
InterpretProtocol(b, iter) ==
  LET one(name, interp(_), default) ==
        IF Child(b, name) = None THEN Some(default) ELSE interp(Child(b, name)[1])
      limits == one("limits", InterpretLimits,
                    InterpretLimits([attrs |-> <<>>, blocks |-> <<>>])[1])
      transport == one("transport", LAMBDA t : LET r == InterpretTransportConfig(t)
                                               IN IF r = None THEN None ELSE Some(r), None)
      steps == InterpretAll(Children(b, "step"), InterpretStep)
      schemas == InterpretAll(Children(b, "header_schema"),
                              LAMBDA x : InterpretHeaderSchema(x, iter))
      invariants == InterpretAll(Children(b, "invariant"), InterpretInvariant)
  IN IF ~ (/\ HasOneLabel(b) /\ WellTyped(b.attrs, ProtocolKinds)
           /\ ChildrenAre(b, {"step", "transport", "limits", "header_schema", "invariant"})
           /\ AtMostOne(b, "transport") /\ AtMostOne(b, "limits")
           /\ ValueOr(b.attrs, "clock", "real") \in {"real", "virtual"}) THEN None
     ELSE IF \/ limits = None \/ transport = None \/ steps = None
             \/ schemas = None \/ invariants = None THEN None
     ELSE IF \/ steps[1] = <<>>
             \/ \E i \in DOMAIN steps[1] : ~WithinLimits(steps[1][i], limits[1])
             \/ ~DistinctNames(schemas[1]) \/ ~DistinctNames(invariants[1]) THEN None
     ELSE LET roles == {steps[1][i].role : i \in DOMAIN steps[1]}
          IN IF \E i \in DOMAIN invariants[1] : ~ invariants[1][i].roles \subseteq roles THEN None
             ELSE Some([name |-> b.labels[1], steps |-> steps[1], transport |-> transport[1],
                        limits |-> limits[1], clock |-> ValueOr(b.attrs, "clock", "real"),
                        stateful |-> ValueOr(b.attrs, "raw_tcp_stateful", FALSE),
                        schemas |-> schemas[1], invariants |-> invariants[1]])

(***************************************************************************)
(* interpret_case and interpret_cases_block.  The assertions of a case are *)
(* its assert_<role> blocks; here the block's name is "assert_" and its    *)
(* label the role.                                                         *)
(***************************************************************************)
InterpretCase(b) ==
  LET vars == SectionAttrs(b, "vars")
      tags == StringsOr(b.attrs, "tags")
  IN IF /\ HasOneLabel(b)
        /\ WellTyped(b.attrs, [vars |-> "object", expect |-> "string", tags |-> "strings"])
        /\ ChildrenAre(b, {"vars", "assert_"})
        /\ ~ (Child(b, "vars") # None /\ "vars" \in DOMAIN b.attrs) /\ AtMostOne(b, "vars")
        /\ Child(b, "vars") # None => Child(b, "vars")[1].blocks = <<>>
        /\ ValueOr(b.attrs, "expect", "pass") \in {"pass", "fail"}
        /\ IsInjective(tags) /\ "" \notin ToSet(tags)
     THEN Some([name |-> b.labels[1], tags |-> tags,
                vars |-> ResolveHexValues(OrElse(vars[1], <<>>)),
                outcome |-> ValueOr(b.attrs, "expect", "pass"),
                asserts |-> FoldLeft(LAMBDA m, c : (c.labels[1] :> ResolveHexValues(c.attrs)) @@ m,
                                     <<>>, Children(b, "assert_"))])
     ELSE None
InterpretCasesBlock(b) ==
  LET cases == InterpretAll(Children(b, "case"), InterpretCase)
  IN IF /\ HasOneLabel(b) /\ b.attrs = <<>> /\ ChildrenAre(b, {"case"})
        /\ cases # None /\ cases # Some(<<>>)
     THEN Some([protocol |-> b.labels[1], cases |-> cases[1]]) ELSE None
=============================================================================
