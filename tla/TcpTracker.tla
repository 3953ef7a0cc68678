----------------------------- MODULE TcpTracker -----------------------------
(***************************************************************************)
(* TcpStateTracker: the endpoint-side life of a raw TCP flow, driven by    *)
(* the flags of the packets a role sends and receives.  Observe is one     *)
(* call of observe(): the new state, or "invalid" where it returns an      *)
(* error and leaves the state alone.                                       *)
(***************************************************************************)
EXTENDS SequencesExt

(* The rules of observe in their order: the first that matches applies. *)
Rules(state, dir, syn, ack, fin) ==
  <<<<state = "Closed" /\ dir = "out" /\ syn /\ ~ack /\ ~fin, "SynSent">>,
    <<state = "Closed" /\ dir = "in" /\ syn /\ ~ack /\ ~fin, "SynReceived">>,
    <<state = "SynSent" /\ dir = "in" /\ syn /\ ack /\ ~fin, "Established">>,
    <<state = "SynReceived" /\ dir = "out" /\ syn /\ ack /\ ~fin, "SynReceived">>,
    <<state = "SynReceived" /\ dir = "in" /\ ~syn /\ ack /\ ~fin, "Established">>,
    <<state = "Established" /\ dir = "out" /\ fin, "FinWait1">>,
    <<state = "Established" /\ dir = "in" /\ fin, "CloseWait">>,
    <<state = "FinWait1" /\ dir = "in" /\ ack /\ ~fin, "FinWait2">>,
    <<state \in {"FinWait1", "FinWait2"} /\ dir = "in" /\ fin, "TimeWait">>,
    <<state = "CloseWait" /\ dir = "out" /\ fin, "LastAck">>,
    <<state = "LastAck" /\ dir = "in" /\ ack /\ ~fin, "Closed">>,
    <<state \in {"SynSent", "SynReceived", "Established", "FinWait1", "FinWait2", "CloseWait"}
        /\ ~syn /\ ~fin, state>>,
    <<state = "TimeWait" /\ ~syn /\ ack /\ ~fin, "TimeWait">>>>

Observe(state, dir, flags) ==
  IF "RST" \in flags THEN "Reset"
  ELSE LET rules == Rules(state, dir, "SYN" \in flags, "ACK" \in flags, "FIN" \in flags)
           i == SelectInSeq(rules, LAMBDA r : r[1])
       IN IF i = 0 THEN "invalid" ELSE rules[i][2]

=============================================================================
