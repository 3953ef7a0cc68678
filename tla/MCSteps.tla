------------------------------ MODULE MCSteps -------------------------------
(***************************************************************************)
(* Instances of StepActions and of TcpPair.  The protocols StepActions     *)
(* runs are documents that went through Interpret.  A behaviour is one of  *)
(* the module `which` names.                                               *)
(***************************************************************************)
EXTENDS StepActions

VARIABLES which, tracker, flight

pairVars == <<tracker, flight>>

Block(name, labels, attrs, blocks) == [name |-> name, labels |-> labels, attrs |-> attrs, blocks |-> blocks]
StepBlock(name, role, action, more, blocks) ==
  Block("step", <<name>>, [role |-> Str(role), action |-> Str(action)] @@ more, blocks)
Sub(name, attrs) == Block(name, <<>>, attrs, <<>>)
After(names) == [depends_on |-> Arr([i \in DOMAIN names |-> Str(names[i])])]
Flags(fs) == Arr([i \in DOMAIN fs |-> Str(fs[i])])
ProtocolBlock(name, attrs, blocks) == Block("protocol", <<name>>, attrs, blocks)

(* Numbered segments, a loop, and a receive that retransmits twice over a  *)
(* transport that loses and doubles; the server drops two segments.        *)
Numbers ==
  ProtocolBlock("numbers", <<>>,
    <<Sub("transport", [loss_rate |-> Frac(10), duplicate_rate |-> Frac(10)]),
      Sub("limits", [max_inbox |-> Num(3)]),
      StepBlock("hello", "c", "send", [loop |-> Num(2)], <<Sub("segment", [flags |-> Flags(<<"D">>)])>>),
      StepBlock("data", "c", "send", <<>>,
                <<Sub("segment", [flags |-> Flags(<<"D">>), payload |-> Str("abc")])>>),
      StepBlock("acked", "c", "recv", <<>>,
                <<Sub("expect", [flags |-> Flags(<<"ACK">>)]), Sub("timer", [retransmit |-> Num(1)])>>),
      StepBlock("more", "c", "duplicate", <<>>, <<Sub("segment", [hex |-> Hex(<<7, 8>>)])>>),
      StepBlock("echo", "c", "recv", [retransmit |-> Num(1)], <<>>),
      StepBlock("lost", "s", "drop", <<>>, <<>>),
      StepBlock("ack", "s", "ack", [retry |-> Num(1)],
                <<Sub("expect", [flags |-> Flags(<<"D">>)]), Sub("segment", [flags |-> Flags(<<"ACK">>)])>>),
      StepBlock("late", "s", "drop", <<>>, <<>>),
      StepBlock("again", "s", "ack", <<>>, <<>>),
      StepBlock("reject", "s", "nack", After(<<"more">>), <<Sub("expect", [hex |-> Hex(<<7, 8>>)])>>)>>)

(* A raw handshake and close with a fragmented SYN, followed by trackers.  *)
Tcp(flags) == Sub("tcp", [flags |-> Flags(flags)])
RawStep(name, role, flags, more, blocks) ==
  StepBlock(name, role, "send_raw", more, <<Sub("ipv4", <<>>), Tcp(flags)>> \o blocks)
Heard(flags) == <<Sub("expect", [flags |-> Flags(flags)])>>
Handshake ==
  ProtocolBlock("handshake", [raw_tcp_stateful |-> Bool(TRUE)],
    <<Sub("transport", [drop_nth |-> Num(2), disconnect_nth |-> Num(3)]),
      RawStep("syn", "c", <<"SYN">>, [mtu |-> Num(68)], <<>>),
      StepBlock("synack", "c", "recv_raw", [retransmit |-> Num(2)], Heard(<<"SYN", "ACK">>)),
      RawStep("ack", "c", <<"ACK">>, [retry |-> Num(1)], <<>>),
      RawStep("fin", "c", <<"FIN", "ACK">>, [retry |-> Num(1)], <<>>),
      StepBlock("finack", "c", "recv_raw", <<>>, Heard(<<"FIN">>)),
      StepBlock("open", "s", "listen", [to_state |-> Str("ready")], <<>>),
      StepBlock("insyn", "s", "recv_raw", [from_state |-> Str("ready"), retry |-> Num(1), on_timeout |-> Bool(TRUE)], Heard(<<"SYN">>)),
      RawStep("outsynack", "s", <<"SYN", "ACK">>, <<>>, <<>>),
      StepBlock("inack", "s", "recv_raw", [retry |-> Num(1)], Heard(<<"ACK">>)),
      StepBlock("infin", "s", "recv_raw", [retry |-> Num(1)], Heard(<<"FIN">>)),
      RawStep("outfin", "s", <<"FIN", "ACK">>, <<>>, <<>>)>>)

(* Variables: captures, references, deferred hex, conditions, assertions,  *)
(* a corrupted segment and a reset; the server is in two states.           *)
Variables ==
  ProtocolBlock("variables", [clock |-> Str("virtual")],
    <<Sub("transport", [loss_rate |-> Num(1), fault_steps |-> Flags(<<"hello">>), fault_flag |-> Str("D")]),
      StepBlock("hello", "c", "send", <<>>,
        <<Sub("segment", [flags |-> Flags(<<"D">>), payload |-> Ref("greeting"),
                          fields |-> Obj([id |-> Num(5), go |-> Bool(FALSE)])])>>),
      StepBlock("got", "s", "recv", [to_state |-> Str("open"), retry |-> Num(1), retry_on |-> Flags(<<"assertion">>)],
        <<Block("expect", <<>>, [fields |-> Obj([id |-> Obj([min |-> Num(1), max |-> Num(9)])])],
                <<Sub("capture", [id |-> Str("n"), go |-> Str("go")])>>)>>),
      StepBlock("note", "s", "set", <<>>, <<Sub("set", [key |-> Hex(<<3>>)])>>),
      StepBlock("skip", "s", "send", [when |-> Ref("go")], <<>>),
      StepBlock("never", "s", "log", [loop |-> Num(0)], <<>>),
      StepBlock("check", "s", "assert", <<>>,
        <<Sub("assert", [n |-> Num(5), recv_flags |-> Flags(<<"D">>), last_recv_seq |-> Num(1000)])>>),
      StepBlock("spoil", "s", "corrupt", [from_state |-> Str("open")],
        <<Sub("segment", [hex |-> Ref("key"), flip |-> Num(6), seq |-> Num(40)])>>),
      StepBlock("bye", "s", "reset", <<>>, <<>>),
      StepBlock("end", "s", "close", <<>>, <<>>),
      StepBlock("spoiled", "c", "recv", After(<<"skip", "never">>), <<Sub("expect", [hex |-> Hex(<<1>>)])>>),
      StepBlock("rst", "c", "recv", <<>>, <<Sub("expect", [flags |-> Flags(<<"RST">>), from |-> Str("s")])>>)>>)

(* The failures a step meets before it sends, and a plugin. *)
Refused(name, action, more, blocks) ==
  ProtocolBlock(name, <<>>,
    <<Sub("transport", [connect_failure |-> Str("dns"), mtu |-> Num(2)]),
      StepBlock("first", "a", action, more, blocks),
      StepBlock("second", "b", "recv", [depends_on |-> Arr(<<Str("first")>>)], <<>>)>>)
Failing ==
  {Refused("connect", "connect", [retry |-> Num(2)], <<>>),
   Refused("when", "wait", [when |-> Ref("unset")], <<>>),
   Refused("state", "wait", [from_state |-> Str("open")], <<>>),
   Refused("hex", "send", <<>>, <<Sub("segment", [hex |-> Ref("unset")])>>),
   Refused("flip", "corrupt", <<>>, <<Sub("segment", [hex |-> Hex(<<1>>), flip |-> Num(8)])>>),
   Refused("peer", "send", [to |-> Str("nobody"), retry |-> Num(1), retry_on |-> Flags(<<"transport">>)], <<>>),
   Refused("size", "send", <<>>, <<Sub("segment", [hex |-> Hex(<<1, 2, 3>>)])>>),
   Refused("plugin", "plugin", [retry |-> Num(1)],
           <<Sub("plugin", [manifest |-> Str("m"), kind |-> Str("matcher"), name |-> Str("f")])>>),
   Refused("decode", "plugin", <<>>,
           <<Sub("plugin", [manifest |-> Str("m"), kind |-> Str("decoder"), name |-> Str("f")])>>)}

Documents == {Numbers, Handshake, Variables} \cup Failing
Accepted == {InterpretProtocol(d, <<>>)[1] : d \in Documents}

T == INSTANCE TcpPair WITH MaxFlight <- 2, FlagSets <- (SUBSET {"SYN", "ACK", "FIN"}) \cup {{"RST"}}

(* The variables of the module that does not run. *)
NoSteps == /\ protocol = <<>> /\ plan = <<>> /\ pc = <<>> /\ idx = <<>> /\ frame = <<>> /\ state = <<>> /\ inbox = <<>>
           /\ completed = {} /\ failure = <<>> /\ faults = 0 /\ log = <<>>
NoPair == tracker = <<>> /\ flight = <<>>

MCInit ==
  \/ which = "steps" /\ Init /\ NoPair
  \/ which = "pair" /\ T!PairInit /\ NoSteps

StepsNext == which = "steps" /\ Next /\ UNCHANGED <<which, pairVars>>
PairNext == which = "pair" /\ T!PairNext /\ UNCHANGED <<which, vars>>
MCNext == StepsNext \/ PairNext

MCSpec == MCInit /\ [][MCNext]_<<which, vars, pairVars>> /\ WF_pc(Advance)

-----------------------------------------------------------------------------
(* A role's tracker is where the packets it sent and took lead, and two      *)
(* trackers agree when nothing is on its way (TcpStateTracker): see          *)
(* TrackerMatchesFlow and T!PairAgrees.                                      *)
TrackersAgree == IF which = "pair" THEN T!PairAgrees ELSE TrackerMatchesFlow
=============================================================================
