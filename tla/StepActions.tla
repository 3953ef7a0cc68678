---------------------------- MODULE StepActions ----------------------------
(***************************************************************************)
(* What the steps of a role do: execute_step for every action, around it   *)
(* the loop, retransmission and retry logic of run_role, and under it      *)
(* transmit, the matching of expectations and the per-role state.  Roles   *)
(* run concurrently over bounded inboxes.  Engine models how the threads   *)
(* of a run are scheduled, stopped and traced; here a step's content is    *)
(* modelled and its effect on numbers, variables and trackers.  Protocols  *)
(* are what Interpret makes of documents.                                  *)
(*                                                                         *)
(* The transport is its outcomes: a message is delivered, lost, doubled or *)
(* refused, with at most MaxFaults faults in a run.  A timer may expire    *)
(* whenever nothing in the inbox matches.                                  *)
(***************************************************************************)
EXTENDS Interpret, TcpTracker

CONSTANTS
  Protocols,     \* the interpreted protocols that are run
  MaxFaults,     \* losses, doublings and disconnects in a run, at most
  AllowPlugins,  \* the engine was built with plugins enabled
  TextTests      \* <<operator, pattern, text>>: the text tests that hold

VARIABLES
  protocol,   \* the protocol that runs
  plan,       \* plan[r]: the steps of role r, in order
  pc,         \* pc[r]: where role r is in its current step
  idx,        \* idx[r]: the position of that step in the role's steps
  frame,      \* frame[r]: the locals of run_role and execute_step
  state,      \* state[r]: RoleState
  inbox,      \* inbox[r]: messages delivered to r
  completed,  \* the names of the steps marked done
  failure,    \* the first failure of the run, [kind, why]
  faults,     \* transport faults so far
  log         \* history: what r sent, received, and its raw packets in order

vars == <<protocol, plan, pc, idx, frame, state, inbox, completed, failure, faults, log>>

(* The names of steps and roles of a protocol. *)
RolesOf(p) == {p.steps[i].role : i \in DOMAIN p.steps}
Roles == DOMAIN plan
Step(r) == plan[r][idx[r]]
AtLeastOne(n) == IF n > 1 THEN n ELSE 1

NoFailure == [kind |-> "none", why |-> ""]
(* out: the messages left to transmit of the transmission tx; exec: how    *)
(* many transmissions the role began.                                      *)
NewFrame == [iter |-> 0, retransmits |-> 0, retries |-> 0, out |-> <<>>,
             tx |-> None, exec |-> 0, resend |-> FALSE]

(* RoleState::new_with_vars *)
NewState ==
  [protocol_state |-> "initial", next_seq |-> 1000,
   recv |-> [seq |-> 0, len |-> 0, ack |-> 0, flags |-> {}, from |-> "", fields |-> <<>>],
   last_sent |-> [seq |-> 0, ack |-> 0, flags |-> {}, to |-> ""],
   send_count |-> 0, recv_count |-> 0, aborted |-> FALSE, vars |-> <<>>,
   last_tx |-> None, tracker |-> "Closed"]

Init ==
  /\ protocol \in Protocols
  /\ plan = [r \in RolesOf(protocol) |-> SelectSeq(protocol.steps, LAMBDA s : s.role = r)]
  /\ pc = [r \in Roles |-> "begin"]
  /\ idx = [r \in Roles |-> 1]
  /\ frame = [r \in Roles |-> NewFrame]
  /\ state = [r \in Roles |-> NewState]
  /\ inbox = [r \in Roles |-> <<>>]
  /\ completed = {}
  /\ failure = NoFailure
  /\ faults = 0
  /\ log = [r \in Roles |-> [sent |-> <<>>, got |-> <<>>, flow |-> <<>>]]

-----------------------------------------------------------------------------
(* Interpolation, matching and construction of messages *)

(* interpolate_value and interpolate_str: a reference to a known variable  *)
(* is its value, an unknown one stays.                                     *)
Interpolate(v, vs) == IF v.t = "ref" /\ v.v \in DOMAIN vs THEN vs[v.v] ELSE v
(* resolve_deferred_hex *)
ResolveDeferred(v, vs) ==
  IF v.t = "deferred" /\ v.v \in DOMAIN vs /\ vs[v.v].t \in {"hex", "bytes"}
  THEN Bytes(vs[v.v].v) ELSE Interpolate(v, vs)

(* build_outbound: the fields, the text and the bytes of a segment; None   *)
(* when the interpolated hex is not hex.                                   *)
BuildOutbound(seg, vs) ==
  LET hex == IF seg.hex = None THEN Hex(<<>>) ELSE Interpolate(seg.hex[1], vs)
      text == IF seg.payload = None THEN Str("") ELSE Interpolate(seg.payload[1], vs)
  IN IF hex.t \notin {"hex", "bytes"} THEN None
     ELSE Some([fields |-> [k \in DOMAIN seg.fields |-> ResolveDeferred(seg.fields[k], vs)],
                payload |-> text, raw |-> hex.v])

(* Message::payload_len: of the raw bytes or else of the text, where a     *)
(* reference that was not resolved is "${x}" and a number has one digit.   *)
PayloadLen(m) ==
  IF m.raw # <<>> THEN Len(m.raw)
  ELSE CASE m.payload.t = "str" -> Len(m.payload.v)
         [] m.payload.t = "ref" -> Len(m.payload.v) + 3
         [] m.payload.t = "hex" -> 2 * Len(m.payload.v)
         [] OTHER -> 1

Same(a, b) == a.t = b.t /\ a.v = b.v
HasWindow(bytes, needle) ==
  \E i \in 1 .. Len(bytes) - Len(needle) + 1 :
    SubSeq(bytes, i, i + Len(needle) - 1) = needle

(* FieldMatch::matches, after Expect::interpolate *)
FieldMatches(f, actual, vs) ==
  CASE f.op = "equal" -> Same(Interpolate(f.arg, vs), actual)
    [] f.op = "not_equal" -> ~Same(Interpolate(f.arg, vs), actual)
    [] f.op = "bytes" -> actual.t = "bytes" /\ HasWindow(actual.v, f.arg.v)
    [] f.op = "min" -> actual.t = "num" /\ actual.v >= f.arg.v
    [] f.op = "max" -> actual.t = "num" /\ actual.v <= f.arg.v
    [] f.op = "range" -> actual.t = "num" /\ actual.v \in f.arg.lo .. f.arg.hi
    [] OTHER -> actual.t = "str" /\ <<f.op, Interpolate(f.arg, vs).v, actual.v>> \in TextTests

(* Expect::matches *)
Matches(e, m, vs) ==
  /\ e.from \in {None, Some(""), Some(m.from)}
  /\ e.flags \subseteq m.flags
  /\ e.payload # None => Same(e.payload[1], m.payload)
  /\ e.hex # None => e.hex[1].v = m.raw
  /\ e.hex_contains # None => HasWindow(m.raw, e.hex_contains[1].v)
  /\ \A k \in DOMAIN e.fields : k \in DOMAIN m.fields /\ FieldMatches(e.fields[k], m.fields[k], vs)

AnyMessage == [flags |-> {}, from |-> None, payload |-> None, hex |-> None,
               hex_contains |-> None, fields |-> <<>>, capture |-> <<>>]
Expectation(step) == OrElse(step.expect, AnyMessage)
EmptySegment == [flags |-> {}, seq |-> None, ack |-> None, payload |-> None, hex |-> None,
                 payload_len |-> None, fields |-> <<>>, flip |-> None]

(* The position of the first match in r's inbox, 0 when there is none.  A  *)
(* fragmented raw packet matches once all of its parts are there.          *)
FirstMatch(r, step) ==
  SelectInSeq(inbox[r], LAMBDA m :
    /\ Matches(Expectation(step), m, state[r].vars)
    /\ step.action = "recv_raw" => m.part = 1 /\ \A k \in 1 .. m.parts :
         \E i \in DOMAIN inbox[r] : inbox[r][i].part = k /\ inbox[r][i].raw = m.raw)

(* resolve_to: the destination of a step *)
ResolveTo(step) ==
  IF step.to # None THEN step.to
  ELSE LET others == Roles \ {step.role}
       IN IF Cardinality(others) = 1 THEN Some(CHOOSE o \in others : TRUE) ELSE None

-----------------------------------------------------------------------------
(* run_role: entering, leaving and repeating a step *)

Sending == {"send", "ack", "nack", "reset", "duplicate", "corrupt", "send_raw"}
Receiving == {"recv", "recv_raw", "drop"}
(* The part of execute_step an attempt at a step begins with. *)
Entry(step) ==
  IF step.action \in Receiving \/ (step.action \in {"send", "ack", "nack"} /\ step.expect # None)
  THEN "receive"
  ELSE IF step.action \in Sending THEN "build" ELSE "local"

(* mark_done and the end of a role *)
Stop(r) == pc' = [pc EXCEPT ![r] = "end"]
Record(kind, why) ==
  failure' = IF failure = NoFailure THEN [kind |-> kind, why |-> why] ELSE failure

(* A failure that ends the run: the step is marked done, the role stops. *)
Abort(r, kind, why) ==
  /\ Record(kind, why)
  /\ completed' = completed \cup {Step(r).name}
  /\ Stop(r)
  /\ UNCHANGED <<idx, frame>>

(* An attempt succeeded: the next iteration, or the step is done. *)
Succeed(r, st) ==
  LET last == frame[r].iter + 1 >= Step(r).loop
  IN /\ frame' = [frame EXCEPT ![r] =
                    [NewFrame EXCEPT !.iter = IF last THEN 0 ELSE frame[r].iter + 1,
                                     !.exec = frame[r].exec]]
     /\ state' = [state EXCEPT ![r] =
                    [st EXCEPT !.protocol_state = IF last THEN OrElse(Step(r).to_state, @) ELSE @]]
     /\ completed' = IF last THEN completed \cup {Step(r).name} ELSE completed
     /\ idx' = IF last THEN [idx EXCEPT ![r] = @ + 1] ELSE idx
     /\ pc' = [pc EXCEPT ![r] = IF last THEN "begin" ELSE Entry(Step(r))]
     /\ UNCHANGED failure

(* Which failures a step's retry policy selects. *)
RetrySelects(step, kind) ==
  IF step.retry_on = {} THEN step.on_timeout => kind = "timeout" ELSE kind \in step.retry_on
(* The retransmissions of a step: its own number or its timer's, the larger. *)
Retransmit(step) ==
  LET timer == IF step.timer = None THEN 0 ELSE step.timer[1].retransmit
  IN IF timer > step.retransmit THEN timer ELSE step.retransmit

(***************************************************************************)
(* execute_step returned an error: a receive that timed out retransmits    *)
(* the last transmission if it may, else the step is retried if its policy *)
(* selects the failure, else the run fails.  st is the role state the      *)
(* attempt leaves.                                                         *)
(***************************************************************************)
HandleFailure(r, kind, why, st) ==
  LET step == Step(r)
      f == frame[r]
      resend == /\ kind = "timeout" /\ step.action \in {"recv", "recv_raw"}
                /\ f.retransmits < Retransmit(step) /\ st.last_tx # None
      retry == f.retries < step.retry /\ RetrySelects(step, kind)
  IN /\ state' = [state EXCEPT ![r] = st]
     /\ IF resend
        THEN /\ frame' = [frame EXCEPT ![r] = [f EXCEPT !.out = st.last_tx[1].msgs, !.tx = st.last_tx,
                                                         !.resend = TRUE, !.exec = @ + 1]]
             /\ pc' = [pc EXCEPT ![r] = "transmit"]
             /\ UNCHANGED <<idx, completed, failure>>
        ELSE IF retry
        THEN /\ frame' = [frame EXCEPT ![r] = [f EXCEPT !.retries = @ + 1, !.out = <<>>]]
             /\ pc' = [pc EXCEPT ![r] = Entry(step)]
             /\ UNCHANGED <<idx, completed, failure>>
        ELSE Abort(r, kind, why)

(***************************************************************************)
(* The top of the loop over the steps: dependencies, when, loop = 0 and    *)
(* from_state.                                                             *)
(***************************************************************************)
Enabled(r) == IF Step(r).when = None THEN Bool(TRUE)
              ELSE Interpolate(Step(r).when[1], state[r].vars)
(* A faulty skip: the step is passed over and not marked done. *)
SkippedUnmarked(name) == completed
(* mark_done of a skipped step *)
Skipped(name) == completed \cup {name}

Begin(r) ==
  /\ pc[r] = "begin" /\ failure = NoFailure
  /\ idx[r] <= Len(plan[r]) /\ Step(r).deps \subseteq completed
  /\ LET step == Step(r)
         from == OrElse(step.from_state, "*")
     IN IF Enabled(r).t # "bool" THEN Abort(r, "runtime", "when") /\ UNCHANGED state
        ELSE IF ~Enabled(r).v \/ step.loop = 0
        THEN /\ completed' = Skipped(step.name)
             /\ idx' = [idx EXCEPT ![r] = @ + 1]
             /\ UNCHANGED <<pc, frame, state, failure>>
        ELSE IF from # "*" /\ from # state[r].protocol_state
        THEN Abort(r, "validation", "from_state") /\ UNCHANGED state
        ELSE pc' = [pc EXCEPT ![r] = Entry(step)] /\ UNCHANGED <<idx, frame, state, completed, failure>>
  /\ UNCHANGED <<protocol, plan, inbox, faults, log>>

(* wait_deps and failed(): a role stops once the run failed, or is done. *)
Leave(r) ==
  /\ pc[r] = "begin"
  /\ failure # NoFailure \/ idx[r] > Len(plan[r])
  /\ Stop(r)
  /\ UNCHANGED <<protocol, plan, idx, frame, state, inbox, completed, failure, faults, log>>

-----------------------------------------------------------------------------
(* Receiving *)

(* What a received message leaves in the role state.  Only recv and        *)
(* recv_raw apply the captures.                                            *)
Received(st, m, step) ==
  LET capture == IF step.action \in {"recv", "recv_raw"} THEN Expectation(step).capture ELSE <<>>
      captured == {k \in DOMAIN capture : k \in DOMAIN m.fields}
  IN [st EXCEPT !.recv_count = @ + 1,
                !.recv = [seq |-> m.seq, len |-> AtLeastOne(PayloadLen(m)), ack |-> m.ack,
                          flags |-> m.flags, from |-> m.from, fields |-> m.fields],
                !.vars = FoldSet(LAMBDA k, vs : (capture[k] :> m.fields[k]) @@ vs, @, captured)]

(* A faulty drop: the segment counts as received. *)
DroppedButSeen(st, m, step) == Received(st, m, step)
(* Discarded: the receive state is not updated (segment was lost). *)
Dropped(st, m, step) == st

(* The inbox without the message at i, or without all parts of its packet. *)
TakenFrom(r, i) ==
  LET m == inbox[r][i]
      rest == RemoveAt(inbox[r], i)
  IN IF Step(r).action # "recv_raw" \/ m.parts = 1 THEN rest
     ELSE FoldLeft(LAMBDA q, k : RemoveAt(q, SelectInSeq(q, LAMBDA x : x.part = k /\ x.raw = m.raw)),
                   rest, [k \in 1 .. m.parts - 1 |-> k + 1])

(* A faulty tracker that only follows what the role sends. *)
ObservedOut(tracker, dir, flags) == IF dir = "in" THEN tracker ELSE Observe(tracker, dir, flags)
(* observe_raw_tcp_state *)
Observed(tracker, dir, flags) == Observe(tracker, dir, flags)

(* recv_match / recv_raw_match found a message.  A drop only takes it out; *)
(* a message the tracker rejects is gone too.                              *)
Receive(r) ==
  /\ pc[r] = "receive" /\ FirstMatch(r, Step(r)) # 0
  /\ LET step == Step(r)
         i == FirstMatch(r, step)
         m == inbox[r][i]
         raw == step.action = "recv_raw" /\ protocol.stateful /\ m.flags # {}
         tracker == IF raw THEN Observed(state[r].tracker, "in", m.flags) ELSE state[r].tracker
         st == Received([state[r] EXCEPT !.tracker = tracker], m, step)
     IN /\ inbox' = [inbox EXCEPT ![r] = TakenFrom(r, i)]
        /\ IF tracker = "invalid"
           THEN HandleFailure(r, "validation", "tracker", state[r]) /\ UNCHANGED log
           ELSE IF step.action = "drop" THEN Succeed(r, Dropped(state[r], m, step)) /\ UNCHANGED log
           ELSE /\ log' = [log EXCEPT ![r].got = Append(@, m),
                                      ![r].flow = IF raw THEN Append(@, [dir |-> "in", flags |-> m.flags])
                                                  ELSE @]
                /\ IF step.action \in Receiving THEN Succeed(r, st)
                   ELSE /\ state' = [state EXCEPT ![r] = st]
                        /\ pc' = [pc EXCEPT ![r] = "build"]
                        /\ UNCHANGED <<idx, frame, completed, failure>>
  /\ UNCHANGED <<protocol, plan, faults>>

(* The timer expired first.  For a drop that is a success. *)
TimeOut(r) ==
  /\ pc[r] = "receive" /\ FirstMatch(r, Step(r)) = 0
  /\ IF Step(r).action = "drop" THEN Succeed(r, state[r])
     ELSE HandleFailure(r, "timeout", "timeout", state[r])
  /\ UNCHANGED <<protocol, plan, inbox, faults, log>>

-----------------------------------------------------------------------------
(* Sending *)

(* A faulty number: an empty segment takes none. *)
NextNumberZero(seq, len) == seq + len
(* The number after a segment: one without payload takes one. *)
NextNumber(seq, len) == seq + AtLeastOne(len)

(* The default flags and the acknowledgement number of an action. *)
OutFlags(action, seg) ==
  CASE seg.flags # {} -> seg.flags
    [] action = "nack" -> {"NACK"}
    [] action = "reset" -> {"RST"}
    [] OTHER -> {}
OutAck(action, seg, st) ==
  OrElse(seg.ack, CASE action = "ack" -> NextNumber(st.recv.seq, st.recv.len)
                    [] action = "nack" -> st.recv.seq
                    [] OTHER -> 0)

(* A byte with one bit changed, counted from its most significant one. *)
FlipBit(byte, bit) ==
  LET w == 2 ^ (7 - bit) IN IF (byte \div w) % 2 = 1 THEN byte - w ELSE byte + w

(* The segment of a step as a message of r; c is what build_outbound gave. *)
Outbound(r, step, seg, c) ==
  [from |-> r, flags |-> OutFlags(step.action, seg),
   seq |-> OrElse(seg.seq, state[r].next_seq), ack |-> OutAck(step.action, seg, state[r]),
   payload |-> c.payload, fields |-> c.fields, part |-> 1, parts |-> 1,
   raw |-> IF step.action # "corrupt" THEN c.raw
           ELSE [c.raw EXCEPT ![seg.flip[1] \div 8 + 1] = FlipBit(@, seg.flip[1] % 8)]]

(* build_raw_packets and message_from_raw_wire: a packet above its MTU is  *)
(* two fragments, of which the first has the TCP header.                   *)
RawPackets(r, step, c) ==
  LET spec == step.raw[1]
      tcp == IF "tcp" \in DOMAIN spec.headers THEN spec.headers["tcp"] ELSE <<>>
      parts == IF spec.mtu = None THEN 1 ELSE 2
      bytes == IF c.raw = <<>> THEN <<0>> ELSE c.raw
  IN [k \in 1 .. parts |->
        [from |-> r, flags |-> IF k = 1 THEN ToSet(StringsOr(tcp, "flags")) ELSE {},
         seq |-> ValueOr(tcp, "seq", 0), ack |-> ValueOr(tcp, "ack", 0),
         payload |-> c.payload, fields |-> c.fields, part |-> k, parts |-> parts, raw |-> bytes]]

(* What keeps a step from being sent: the kind of failure, or "none". *)
BuildError(step, seg, c) ==
  IF ResolveTo(step) = None \/ c = None THEN "runtime"
  ELSE IF step.action # "corrupt" THEN "none"
  ELSE IF c[1].raw = <<>> THEN "validation"
  ELSE IF seg.flip = None THEN "runtime"
  ELSE IF seg.flip[1] >= 8 * Len(c[1].raw) THEN "validation" ELSE "none"

(***************************************************************************)
(* The first half of every sending action: the messages.  The tracker sees *)
(* a raw packet before it is transmitted.                                  *)
(***************************************************************************)
Build(r) ==
  /\ pc[r] = "build"
  /\ LET step == Step(r)
         seg == OrElse(step.segment, EmptySegment)
         c == BuildOutbound(seg, state[r].vars)
         error == BuildError(step, seg, c)
         m == Outbound(r, step, seg, c[1])
         msgs == CASE step.action = "send_raw" -> RawPackets(r, step, c[1])
                   [] step.action = "duplicate" -> <<m, m>>
                   [] OTHER -> <<m>>
         raw == step.action = "send_raw" /\ protocol.stateful /\ msgs[1].flags # {}
         tracker == IF raw THEN Observed(state[r].tracker, "out", msgs[1].flags) ELSE state[r].tracker
     IN IF error # "none" THEN HandleFailure(r, error, "segment", state[r])
        ELSE IF tracker = "invalid" THEN HandleFailure(r, "validation", "tracker", state[r])
        ELSE /\ state' = [state EXCEPT ![r].tracker = tracker]
             /\ frame' = [frame EXCEPT ![r] =
                            [@ EXCEPT !.out = msgs, !.exec = @ + 1,
                                      !.tx = Some([to |-> ResolveTo(step)[1], action |-> step.action,
                                                   name |-> step.name, msgs |-> msgs])]]
             /\ pc' = [pc EXCEPT ![r] = "transmit"]
             /\ UNCHANGED <<idx, completed, failure>>
  /\ UNCHANGED <<protocol, plan, inbox, faults, log>>

(* fault_predicate_matches and the scope of the faults in send_scoped *)
PredicateMatches(p, m) ==
  LET builtin == [seq |-> Num(m.seq), ack |-> Num(m.ack), from |-> Str(m.from), payload |-> m.payload]
      actual == builtin @@ m.fields
  IN p.field \in DOMAIN actual /\ Same(actual[p.field], p.equals)
Eligible(tc, m, name) ==
  /\ tc.fault_steps = {} \/ name \in tc.fault_steps
  /\ tc.fault_flag = None \/ tc.fault_flag[1] \in m.flags
  /\ tc.fault_when = None \/ PredicateMatches(tc.fault_when[1], m)

(* What the configured faults may do to a message. *)
Outcomes(m, name) ==
  {"deliver"} \cup
  (IF protocol.transport = None \/ faults = MaxFaults THEN {}
   ELSE LET tc == protocol.transport[1]
        IN IF ~Eligible(tc, m, name) THEN {}
           ELSE (IF tc.loss_rate + tc.drop_nth > 0 THEN {"lose"} ELSE {})
                \cup (IF tc.duplicate_rate > 0 THEN {"double"} ELSE {})
                \cup (IF tc.disconnect_nth > 0 THEN {"disconnect"} ELSE {}))

(* send_scoped with its outcome: the kind of its error, and the copies it  *)
(* puts into the inbox; a doubled message may fill it with its first copy. *)
Delivery(to, m, outcome) ==
  LET mtu == IF protocol.transport = None THEN 0 ELSE protocol.transport[1].mtu
      big == mtu > 0 /\ PayloadLen(m) > mtu
      room == protocol.limits.max_inbox - Len(inbox[to])
      copies == IF outcome = "double" THEN 2 ELSE 1
      result(error, n) == [error |-> error, copies |-> n]
  IN CASE to \notin Roles -> result("transport", 0)
       [] outcome = "disconnect" -> result("transport", 0)
       [] outcome = "lose" -> result("none", 0)
       [] PayloadLen(m) > protocol.limits.max_payload -> result("resource_limit", 0)
       [] big -> result(IF protocol.transport[1].mtu_blackhole THEN "none" ELSE "resource_limit", 0)
       [] room < copies -> result("resource_limit", IF room > 0 THEN room ELSE 0)
       [] OTHER -> result("none", copies)

(* What transmit leaves in the role state: the snapshot is one message. *)
Transmitted(st, tx, m) ==
  [st EXCEPT !.send_count = @ + 1,
             !.last_sent = [seq |-> m.seq, ack |-> m.ack, flags |-> m.flags, to |-> tx.to],
             !.last_tx = Some([tx EXCEPT !.msgs = <<m>>])]

(* After the last message: what the action does to the role state. *)
Finished(st, step, tx) ==
  LET m == tx.msgs[1]
      seg == OrElse(step.segment, EmptySegment)
  IN CASE step.action = "reset" -> [st EXCEPT !.aborted = TRUE]
       [] step.action = "send_raw" ->
            IF Len(tx.msgs) > 1 THEN [st EXCEPT !.last_tx = Some(tx)] ELSE st
       [] OTHER -> [st EXCEPT !.next_seq = NextNumber(m.seq, OrElse(seg.payload_len, PayloadLen(m)))]

(* retransmit_snapshot keeps the whole snapshot. *)
Restored(st, tx) == [st EXCEPT !.last_tx = Some(tx)]

(* The messages r sends, as the log keeps them. *)
Logged(r, m) ==
  LET f == frame[r]
      seg == OrElse(Step(r).segment, EmptySegment)
  IN [msg |-> m, exec |-> f.exec, resend |-> f.resend, action |-> f.tx[1].action,
      len |-> AtLeastOne(OrElse(seg.payload_len, PayloadLen(m))),
      numbered |-> ~f.resend /\ seg.seq = None, acked |-> ~f.resend /\ seg.ack = None]

(***************************************************************************)
(* transmit, once per message of the step or of the snapshot.  An error    *)
(* ends the attempt; in a retransmission it ends the run.                  *)
(***************************************************************************)
Transmit(r) ==
  /\ pc[r] = "transmit"
  /\ LET f == frame[r]
         tx == f.tx[1]
         m == Head(f.out)
         st == Transmitted(state[r], tx, m)
     IN \E outcome \in Outcomes(m, tx.name) :
        LET d == Delivery(tx.to, m, outcome)
            first == m.part = 1 /\ tx.action = "send_raw" /\ m.flags # {} /\ ~f.resend
        IN /\ faults' = IF outcome = "deliver" THEN faults ELSE faults + 1
           /\ inbox' = IF d.copies = 0 THEN inbox
                       ELSE [inbox EXCEPT ![tx.to] = @ \o [k \in 1 .. d.copies |-> m]]
           /\ log' = IF d.error # "none" THEN log
                     ELSE [log EXCEPT ![r].sent = Append(@, Logged(r, m)),
                                      ![r].flow = IF first /\ protocol.stateful
                                                  THEN Append(@, [dir |-> "out", flags |-> m.flags])
                                                  ELSE @]
           /\ IF d.error # "none"
              THEN IF f.resend THEN Abort(r, d.error, "retransmission") /\ UNCHANGED state
                   ELSE HandleFailure(r, d.error, "transmit", state[r])
              ELSE IF Len(f.out) > 1
              THEN /\ state' = [state EXCEPT ![r] = st]
                   /\ frame' = [frame EXCEPT ![r].out = Tail(@)]
                   /\ UNCHANGED <<pc, idx, completed, failure>>
              ELSE IF f.resend
              THEN /\ state' = [state EXCEPT ![r] = Restored(st, tx)]
                   /\ frame' = [frame EXCEPT ![r] = [f EXCEPT !.out = <<>>, !.tx = None, !.resend = FALSE,
                                                              !.retransmits = @ + 1]]
                   /\ pc' = [pc EXCEPT ![r] = "receive"]
                   /\ UNCHANGED <<idx, completed, failure>>
              ELSE Succeed(r, Finished(st, Step(r), tx))
  /\ UNCHANGED <<protocol, plan>>

-----------------------------------------------------------------------------
(* The actions that neither send nor receive *)

(* resolve_state_value: a built-in, a field of the last message received,  *)
(* or a variable.  The prefix of a field key is left out.                  *)
StateValue(st, key) ==
  LET builtin == [send_count |-> Num(st.send_count), recv_count |-> Num(st.recv_count),
                  next_seq |-> Num(st.next_seq), last_recv_seq |-> Num(st.recv.seq),
                  last_recv_ack |-> Num(st.recv.ack), last_recv_from |-> Str(st.recv.from),
                  last_sent_seq |-> Num(st.last_sent.seq), last_sent_ack |-> Num(st.last_sent.ack),
                  last_sent_to |-> Str(st.last_sent.to), aborted |-> Bool(st.aborted)]
  IN Get(builtin @@ st.recv.fields @@ st.vars, key)

(* One entry of an assert section. *)
Holds(st, key, value) ==
  LET expected == Interpolate(value, st.vars)
      actual == StateValue(st, key)
      flags == IF key = "recv_flags" THEN st.recv.flags ELSE st.last_sent.flags
  IN IF key \in {"recv_flags", "sent_flags"}
     THEN expected.t = "arr" => {expected.v[i].v : i \in {j \in DOMAIN expected.v : IsString(expected.v[j])}}
                                \subseteq flags
     ELSE actual # None /\ Same(actual[1], expected)

(* invoke_plugin is modelled in PluginCall; here it fails or answers. *)
PluginAnswers == {"no manifest", "error", "unmatched", "answer"}
PluginError(step, answer) ==
  CASE ~AllowPlugins -> "validation"
    [] answer = "no manifest" -> "validation"
    [] answer = "error" -> "runtime"
    [] answer = "unmatched" /\ step.plugin[1].kind = "matcher" -> "assertion"
    [] OTHER -> "none"
PluginState(st, step) ==
  LET answered == [st EXCEPT !.vars = (step.name :> Bool(TRUE)) @@ @]
  IN IF step.plugin[1].kind = "decoder"
     THEN [answered EXCEPT !.recv.fields = (step.plugin[1].name :> Bool(TRUE)) @@ @] ELSE answered

Local(r) ==
  /\ pc[r] = "local"
  /\ LET step == Step(r)
         st == state[r]
     IN CASE step.action = "open" ->
               IF protocol.transport # None /\ protocol.transport[1].connect_failure # None
               THEN HandleFailure(r, "transport", "connect", st) ELSE Succeed(r, st)
          [] step.action = "plugin" ->
               \E answer \in IF AllowPlugins THEN PluginAnswers ELSE {"answer"} :
                 IF PluginError(step, answer) = "none" THEN Succeed(r, PluginState(st, step))
                 ELSE HandleFailure(r, PluginError(step, answer), "plugin", st)
          [] step.action = "set" -> Succeed(r, [st EXCEPT !.vars = step.set[1] @@ @])
          [] step.action = "assert" ->
               IF \A key \in DOMAIN step.assert[1] : Holds(st, key, step.assert[1][key])
               THEN Succeed(r, st) ELSE HandleFailure(r, "assertion", "assert", st)
          [] OTHER -> Succeed(r, st)
  /\ UNCHANGED <<protocol, plan, inbox, faults, log>>

-----------------------------------------------------------------------------
RoleNext(r) ==
  Begin(r) \/ Leave(r) \/ Receive(r) \/ TimeOut(r) \/ Build(r) \/ Transmit(r) \/ Local(r)
Next == \E r \in Roles : RoleNext(r)

(* A role's thread can run unless it ended or waits for its dependencies.  *)
CanRun(r) ==
  /\ pc[r] # "end"
  /\ pc[r] = "begin" /\ failure = NoFailure /\ idx[r] <= Len(plan[r]) => Step(r).deps \subseteq completed
(* All that fairness needs: only finitely many steps leave every pc alone. *)
Advance == (\E r \in Roles : CanRun(r))
           /\ pc' \in [Roles -> {"begin", "receive", "build", "transmit", "local", "end"}]

(* The threads that can run do. *)
Spec == Init /\ [][Next]_vars /\ WF_pc(Advance)

Ended == \A r \in Roles : pc[r] = "end"

(***************************************************************************)
(* Sequence numbers identify content: two segments a role numbered itself  *)
(* whose spans overlap carry the same bytes, across loops, retries,        *)
(* retransmissions and failed transmissions.  A reset takes no number, and *)
(* explicit numbers are the author's business.                             *)
(***************************************************************************)
OneNumberOnePayload ==
  LET own(r) == SelectSeq(log[r].sent, LAMBDA e : e.numbered /\ e.action \notin {"reset", "send_raw"})
      explicit(r) == \E i \in DOMAIN plan[r] :
                       plan[r][i].segment # None /\ plan[r][i].segment[1].seq # None
      clash(a, b) == /\ a.msg.seq <= b.msg.seq /\ b.msg.seq < a.msg.seq + a.len
                     /\ <<a.msg.seq, a.msg.payload, a.msg.raw>> # <<b.msg.seq, b.msg.payload, b.msg.raw>>
  IN \A r \in Roles : explicit(r) \/
       \A a, b \in ToSet(own(r)) : ~clash(a, b)

(***************************************************************************)
(* An acknowledgement the engine computes names the end of a segment the   *)
(* role received before it: never of one a drop step took, one that is     *)
(* still queued, or one that was refused.                                  *)
(***************************************************************************)
AcksNameReceived ==
  \A r \in Roles : \A i \in DOMAIN log[r].sent :
    LET e == log[r].sent[i]
    IN e.action = "ack" /\ e.acked =>
         e.msg.ack \in {1} \cup {g.seq + AtLeastOne(PayloadLen(g)) : g \in ToSet(log[r].got)}

(***************************************************************************)
(* With raw_tcp_stateful, a role that goes on to its next step has the TCP *)
(* state its packets imply: those it sent first and those it received, in  *)
(* that order, whatever was retried or retransmitted in between.           *)
(***************************************************************************)
TrackerMatchesFlow ==
  \A r \in Roles : pc[r] = "begin" /\ failure = NoFailure =>
    state[r].tracker = FoldLeft(LAMBDA t, p : Observe(t, p.dir, p.flags), "Closed", log[r].flow)

(* The messages of one transmission, in the order they were sent. *)
SentIn(r, n) ==
  LET es == SelectSeq(log[r].sent, LAMBDA e : e.exec = n) IN [i \in DOMAIN es |-> es[i].msg]
(* The last transmission before n that was not a retransmission. *)
Original(r, n) ==
  Max({log[r].sent[i].exec : i \in {j \in DOMAIN log[r].sent :
         log[r].sent[j].exec < n /\ ~log[r].sent[j].resend}})


(***************************************************************************)
(* Every run ends: a role whose dependencies were skipped, failed or timed *)
(* out is not left waiting, whatever the transport does.                   *)
(***************************************************************************)
RunsEnd == <>Ended
=============================================================================
