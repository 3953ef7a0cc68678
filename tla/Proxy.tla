------------------------------- MODULE Proxy --------------------------------
(***************************************************************************)
(* tcpform proxy: accept one downstream connection, connect upstream, then *)
(* two pump tasks copy bytes in each direction, each chunk through the     *)
(* shared capture file, and proxy_bidirectional awaits the downstream task *)
(* and then the upstream task.                                             *)
(***************************************************************************)
EXTENDS Integers, Sequences

CONSTANTS
  Options,   \* [downstream_cert, downstream_key, client_cert, client_key, upstream_tls, server_name, capture]
  Chunks     \* how many chunks an endpoint may send

VARIABLES
  opts,      \* fixed
  pc,        \* "check", "accept", "handshake", "connect", "upstream", "capture", "left", "right" or "returned"
  offered,   \* offered[d]: chunks the endpoint of direction d has sent
  source,    \* source[d]: "open", "eof", "reset" or "broken" (another read error)
  sink,      \* sink[d]: the other endpoint takes bytes: "open", "shut" or "broken"
  pump,      \* pump[d]: "none", "read", "capture", "write", "shut", "ok" or "err"
  copied,    \* copied[d]: chunks forwarded
  log,       \* the capture file: the direction of every line
  result

vars == <<opts, pc, offered, source, sink, pump, copied, log, result>>

Directions == {"down_up", "up_down"}

Init ==
  /\ opts \in Options
  /\ pc = "check"
  /\ offered = [d \in Directions |-> 0]
  /\ source = [d \in Directions |-> "open"]
  /\ sink = [d \in Directions |-> "open"]
  /\ pump = [d \in Directions |-> "none"]
  /\ copied = [d \in Directions |-> 0]
  /\ log = <<>>
  /\ result = "none"

Return(r) == pc' = "returned" /\ result' = r

CheckOptions ==
  /\ pc = "check"
  /\ IF \/ opts.downstream_cert # opts.downstream_key
        \/ opts.client_cert # opts.client_key
        \/ opts.upstream_tls /\ ~opts.server_name
       THEN Return("usage")
       ELSE pc' = "accept" /\ UNCHANGED result
  /\ UNCHANGED <<opts, offered, source, sink, pump, copied, log>>

(* The set-up, await by await: accept (with a timeout), the downstream TLS  *)
(* handshake, connect (with a timeout), the upstream handshake, the capture *)
(* file.  Each may fail.                                                    *)
SetUp ==
  LET order == [accept |-> "handshake", handshake |-> "connect", connect |-> "upstream",
                upstream |-> "capture", capture |-> "left"]
      skipped == \/ pc = "handshake" /\ ~opts.downstream_cert
                 \/ pc = "upstream" /\ ~opts.upstream_tls
                 \/ pc = "capture" /\ ~opts.capture
  IN /\ pc \in DOMAIN order
     /\ \/ /\ pc' = order[pc]
           /\ pump' = IF pc = "capture" THEN [d \in Directions |-> "read"] ELSE pump
           /\ UNCHANGED result
        \/ ~skipped /\ Return("set-up failed") /\ UNCHANGED pump
     /\ UNCHANGED <<opts, offered, source, sink, copied, log>>

(* The endpoint that feeds direction d sends, closes or breaks; the one it  *)
(* goes to stops taking bytes.                                              *)
Endpoint(d) ==
  /\ pc \in {"left", "right"}
  /\ \/ /\ source[d] = "open" /\ offered[d] < Chunks
        /\ offered' = [offered EXCEPT ![d] = @ + 1]
        /\ UNCHANGED <<source, sink>>
     \/ /\ source[d] = "open"
        /\ \E s \in {"eof", "reset", "broken"} : source' = [source EXCEPT ![d] = s]
        /\ UNCHANGED <<offered, sink>>
     \/ /\ sink[d] = "open"
        /\ sink' = [sink EXCEPT ![d] = "broken"]
        /\ UNCHANGED <<offered, source>>
  /\ UNCHANGED <<opts, pc, pump, copied, log, result>>

Goto(d, label) == pump' = [pump EXCEPT ![d] = label]

(* Faulty read: end of file is seen before the bytes that came first. *)
ReadEofFirst(d) ==
  /\ pump[d] = "read"
  /\ \/ source[d] # "open" /\ Goto(d, IF source[d] = "broken" THEN "err" ELSE "shut")
     \/ source[d] = "open" /\ copied[d] < offered[d] /\ Goto(d, IF opts.capture THEN "capture" ELSE "write")
  /\ UNCHANGED <<opts, pc, offered, source, sink, copied, log, result>>

(* reader.read(): the bytes in order, then end of file; a reset may arrive  *)
(* before the bytes were read.                                              *)
Read(d) ==
  /\ pump[d] = "read"
  /\ \/ copied[d] < offered[d] /\ Goto(d, IF opts.capture THEN "capture" ELSE "write")
     \/ /\ source[d] = "reset" \/ (source[d] = "eof" /\ copied[d] = offered[d])
        /\ Goto(d, "shut")
     \/ source[d] = "broken" /\ Goto(d, "err")
  /\ UNCHANGED <<opts, pc, offered, source, sink, copied, log, result>>

(* writeln! to the capture under its lock; a full disk ends the pump. *)
Capture(d) ==
  /\ pump[d] = "capture"
  /\ \/ log' = Append(log, d) /\ Goto(d, "write")
     \/ Goto(d, "err") /\ UNCHANGED log
  /\ UNCHANGED <<opts, pc, offered, source, sink, copied, result>>

Write(d) ==
  /\ pump[d] = "write"
  /\ \/ sink[d] = "open" /\ copied' = [copied EXCEPT ![d] = @ + 1] /\ Goto(d, "read")
     \/ sink[d] # "open" /\ Goto(d, "err") /\ UNCHANGED copied
  /\ UNCHANGED <<opts, pc, offered, source, sink, log, result>>

(* writer.shutdown(): the half-close is passed on; a connection that is     *)
(* already reset does not matter, another error does after end of file.     *)
Shutdown(d) ==
  /\ pump[d] = "shut"
  /\ \/ sink[d] = "open" /\ sink' = [sink EXCEPT ![d] = "shut"] /\ Goto(d, "ok")
     \/ sink[d] = "broken" /\ Goto(d, "ok") /\ UNCHANGED sink
     \/ sink[d] = "broken" /\ source[d] = "eof" /\ Goto(d, "err") /\ UNCHANGED sink
  /\ UNCHANGED <<opts, pc, offered, source, copied, log, result>>

(* left.await??; right.await??; Ok(()): returning drops the runtime, and    *)
(* with it a task that still runs.                                          *)
Await ==
  /\ \/ pc = "left" /\ pump["down_up"] = "ok" /\ pc' = "right" /\ UNCHANGED result
     \/ pc = "left" /\ pump["down_up"] = "err" /\ Return("err")
     \/ pc = "right" /\ pump["up_down"] \in {"ok", "err"} /\ Return(pump["up_down"])
  /\ UNCHANGED <<opts, offered, source, sink, pump, copied, log>>

Done == pc = "returned" /\ UNCHANGED vars

Pump(d) == pc # "returned" /\ (Read(d) \/ Capture(d) \/ Write(d) \/ Shutdown(d))

Next == CheckOptions \/ SetUp \/ Await \/ Done \/ \E d \in Directions : Endpoint(d) \/ Pump(d)

(* The runtime polls every task that is ready; the endpoints owe nothing. *)
Spec ==
  /\ Init /\ [][Next]_vars
  /\ WF_vars(CheckOptions) /\ WF_vars(SetUp) /\ WF_vars(Await)
  /\ \A d \in Directions : WF_vars(Pump(d))

-----------------------------------------------------------------------------
(* Properties *)

(* What a success means: both directions ended, an end of file only after   *)
(* every byte before it was forwarded and with the half-close passed on;    *)
(* and nothing is forwarded that is not in the capture first.               *)
RelayIsComplete ==
  /\ result = "ok" =>
       \A d \in Directions : source[d] = "eof" => copied[d] = offered[d] /\ sink[d] # "open"
  /\ opts.capture => \A d \in Directions : copied[d] <= Len(SelectSeq(log, LAMBDA x : x = d))

=============================================================================
