----------------------------- MODULE LiveStream -----------------------------
(***************************************************************************)
(* One connection of a live or external transport (transport.rs): the role *)
(* that sends, receives, half-closes and finishes, the background worker   *)
(* that reads (and, for WebSocket and QUIC, also writes), and the peer.    *)
(* Kinds: "stream" is TCP, TLS or a Unix socket with a framing, "tcp" the  *)
(* loopback socket, "quic" and "websocket" the sockets owned by a worker.  *)
(***************************************************************************)
EXTENDS Integers, Sequences, SequencesExt

CONSTANTS
  Configs,     \* the connections to check (see ConfigType)
  Payloads,    \* what the peer may send: byte strings
  HeaderSize,  \* bytes of a length prefix (4 in the code)
  Radix        \* values of a byte (256 in the code)

Kinds == {"stream", "tcp", "quic", "websocket"}

Framings == {"raw", "length", "delimiter", "fixed"}

ConfigType ==
  [kind : Kinds, framing : Framings, delimiter : Seq(Nat), size : Nat, max_payload : Nat,
   max_inbox : Nat, max_frames : Nat, max_sends : Nat]

(* Every kind but "stream" has its own framing: a length, or a message a read. *)
IsConnection ==
  /\ Configs \subseteq ConfigType
  /\ \A c \in Configs : c.kind \in {"tcp", "quic"} => c.framing = "length"
  /\ \A c \in Configs : c.framing = "delimiter" => c.delimiter # <<>>
  /\ \A c \in Configs : c.framing = "fixed" => c.size > 0
  /\ Payloads \subseteq Seq(0 .. Radix - 1)
  /\ \A p \in Payloads : Len(p) < Radix ^ HeaderSize

VARIABLES
  config,
  peer,       \* "open", "closed" (end of stream) or "reset"
  sent,       \* payloads the peer has sent
  wire,       \* bytes (messages, for a WebSocket) on their way from the peer
  worker,     \* where the worker thread is
  pending,    \* bytes read and not yet framed
  frames,     \* frames taken from pending and not yet pushed
  acking,     \* the command a worker is about to acknowledge
  inbox,
  delivered,  \* every frame ever pushed to the inbox
  errors,     \* has a worker error been recorded?
  alive,      \* live_alive
  commands,   \* the channel to a worker that owns its socket
  closing,    \* the write side is closed
  role,       \* where the role's thread is
  results,    \* what its calls of send_message returned
  written     \* the calls whose bytes were all written

vars == <<config, peer, sent, wire, worker, pending, frames, acking, inbox, delivered, errors,
          alive, commands, closing, role, results, written>>

peerVars == <<peer, sent>>
readVars == <<pending, frames>>
inboxVars == <<inbox, delivered>>
sendVars == <<commands, closing, role, results, written, acking>>

OwnsSocket == config.kind \in {"quic", "websocket"}

(* A command is the number of a send call, or Close. *)
Close == 0

NoAck == [call |-> 0, ok |-> TRUE]

Init ==
  /\ config \in Configs
  /\ peer = "open"
  /\ worker = "top"
  /\ role = "idle"
  /\ alive = TRUE
  /\ errors = FALSE
  /\ closing = FALSE
  /\ acking = NoAck
  /\ sent = <<>> /\ wire = <<>> /\ pending = <<>> /\ frames = <<>>
  /\ inbox = <<>> /\ delivered = <<>>
  /\ commands = <<>> /\ results = <<>> /\ written = <<>>

(* record_worker_error: only while the transport is alive. *)
RecordError == errors' = (errors \/ alive)

Fail == RecordError /\ worker' = "exit"

-----------------------------------------------------------------------------
(* The peer *)

(* u32::to_be_bytes and from_be_bytes *)
BeBytes(n) == [k \in 1 .. HeaderSize |-> (n \div Radix ^ (HeaderSize - k)) % Radix]

FromBe(bytes) == FoldLeft(LAMBDA n, b : n * Radix + b, 0, bytes)

(* frame_outbound; a fixed framing takes payloads of its size only *)
CanFrame(p) == config.framing = "fixed" => Len(p) = config.size

FrameOutbound(p) ==
  CASE config.framing = "length" -> BeBytes(Len(p)) \o p
    [] config.framing = "delimiter" -> p \o config.delimiter
    [] OTHER -> p

PeerSend ==
  /\ peer = "open"
  /\ Len(sent) < config.max_frames
  /\ \E p \in Payloads :
       /\ CanFrame(p)
       /\ sent' = Append(sent, p)
       /\ wire' = IF config.kind = "websocket" THEN Append(wire, p) ELSE wire \o FrameOutbound(p)
  /\ UNCHANGED <<config, peer, worker, readVars, inboxVars, errors, alive, sendVars>>

PeerClose ==
  /\ peer = "open"
  /\ peer' = "closed"
  /\ UNCHANGED <<config, sent, wire, worker, readVars, inboxVars, errors, alive, sendVars>>

(* The connection breaks: what was on its way is lost. *)
PeerReset ==
  /\ peer = "open"
  /\ peer' = "reset"
  /\ wire' = <<>>
  /\ UNCHANGED <<config, sent, worker, readVars, inboxVars, errors, alive, sendVars>>

-----------------------------------------------------------------------------
(* The worker: commands *)

(* A faulty worker that loops without looking at alive. *)
TopForever ==
  /\ worker = "top"
  /\ worker' = IF OwnsSocket THEN "commands" ELSE "read"
  /\ UNCHANGED <<config, peerVars, wire, readVars, inboxVars, errors, alive, sendVars>>

(* while alive *)
Top ==
  /\ worker = "top"
  /\ worker' = CASE ~alive -> "exit"
                 [] OwnsSocket -> "commands"
                 [] OTHER -> "read"
  /\ UNCHANGED <<config, peerVars, wire, readVars, inboxVars, errors, alive, sendVars>>

(* A write fails only once the connection is closed on either side. *)
WriteOutcomes == {ok \in BOOLEAN : IF ok THEN ~closing ELSE closing \/ peer # "open"}

(* A faulty worker that acknowledges whatever the write returned. *)
TakeDataAcksOk ==
  /\ worker = "commands"
  /\ commands # <<>>
  /\ Head(commands) # Close
  /\ \E ok \in WriteOutcomes :
       /\ written' = IF ok THEN Append(written, Head(commands)) ELSE written
       /\ acking' = [call |-> Head(commands), ok |-> TRUE]
  /\ commands' = Tail(commands)
  /\ worker' = "ack"
  /\ UNCHANGED <<config, peerVars, wire, readVars, inboxVars, errors, alive, closing, role, results>>

TakeData ==
  /\ worker = "commands"
  /\ commands # <<>>
  /\ Head(commands) # Close
  /\ \E ok \in WriteOutcomes :
       /\ written' = IF ok THEN Append(written, Head(commands)) ELSE written
       /\ acking' = [call |-> Head(commands), ok |-> ok]
  /\ commands' = Tail(commands)
  /\ worker' = "ack"
  /\ UNCHANGED <<config, peerVars, wire, readVars, inboxVars, errors, alive, closing, role, results>>

(* The rendezvous: a caller that gave up has dropped its end. *)
Ack ==
  /\ worker = "ack"
  /\ IF role = "waiting" /\ acking.call = Len(results) + 1
       THEN /\ results' = Append(results, IF acking.ok THEN "ok" ELSE "error")
            /\ role' = "idle"
       ELSE UNCHANGED <<results, role>>
  /\ IF acking.ok THEN worker' = "commands" /\ UNCHANGED errors ELSE Fail
  /\ acking' = NoAck
  /\ UNCHANGED <<config, peerVars, wire, readVars, inboxVars, alive, commands, closing, written>>

(* QUIC returns at once; a WebSocket goes on, unless its close failed. *)
TakeClose ==
  /\ worker = "commands"
  /\ commands # <<>>
  /\ Head(commands) = Close
  /\ commands' = Tail(commands)
  /\ closing' = TRUE
  /\ alive' = FALSE
  /\ worker' \in IF config.kind = "quic" THEN {"exit"}
                 ELSE {"commands"} \cup (IF peer = "open" THEN {} ELSE {"exit"})
  /\ UNCHANGED <<config, peerVars, wire, readVars, inboxVars, errors, role, results, written, acking>>

NoCommand ==
  /\ worker = "commands"
  /\ commands = <<>>
  /\ worker' = "read"
  /\ UNCHANGED <<config, peerVars, wire, readVars, inboxVars, errors, alive, sendVars>>

-----------------------------------------------------------------------------
(* The worker: reading *)

AtLeast1(n) == IF n < 1 THEN 1 ELSE n

(* read_exact_live asks for the rest of the header, then of the payload. *)
Wanted ==
  CASE config.kind # "tcp" -> AtLeast1(config.max_payload)
    [] Len(pending) < HeaderSize -> HeaderSize - Len(pending)
    [] OTHER -> HeaderSize + FromBe(SubSeq(pending, 1, HeaderSize)) - Len(pending)

ReadBytes ==
  /\ worker = "read"
  /\ config.kind # "websocket"
  /\ \E n \in 1 .. Wanted :
       /\ n <= Len(wire)
       /\ pending' = pending \o SubSeq(wire, 1, n)
       /\ wire' = SubSeq(wire, n + 1, Len(wire))
  /\ worker' = "drain"
  /\ UNCHANGED <<config, peerVars, frames, inboxVars, errors, alive, sendVars>>

ReadMessage ==
  /\ worker = "read"
  /\ config.kind = "websocket"
  /\ wire # <<>>
  /\ wire' = Tail(wire)
  /\ IF Len(Head(wire)) > config.max_payload
       THEN Fail /\ UNCHANGED frames
       ELSE worker' = "push" /\ frames' = <<Head(wire)>> /\ UNCHANGED errors
  /\ UNCHANGED <<config, peerVars, pending, inboxVars, alive, sendVars>>

(* The read times out, ends, or fails: a framed stream ends without a word. *)
ReadNothing ==
  /\ worker = "read"
  /\ wire = <<>>
  /\ CASE peer = "open" -> worker' = "top" /\ UNCHANGED errors
       [] peer = "closed" \/ config.kind = "stream" -> worker' = "exit" /\ UNCHANGED errors
       [] OTHER -> Fail
  /\ UNCHANGED <<config, peerVars, wire, readVars, inboxVars, alive, sendVars>>

-----------------------------------------------------------------------------
(* The worker: framing *)

NoFrame == [found |-> "none"]
TooLarge == [found |-> "error"]
Frame(f, rest) == [found |-> "frame", frame |-> f, rest |-> rest]

From(s, k) == SubSeq(s, k, Len(s))

TakePrefixed ==
  IF Len(pending) < HeaderSize THEN NoFrame
  ELSE LET length == FromBe(SubSeq(pending, 1, HeaderSize))
       IN CASE length > config.max_payload -> TooLarge
            [] Len(pending) < HeaderSize + length -> NoFrame
            [] OTHER -> Frame(SubSeq(pending, HeaderSize + 1, HeaderSize + length),
                              From(pending, HeaderSize + length + 1))

(* Where the delimiter d starts in s. *)
Occurrences(d, s) == {k \in 1 .. Len(s) - Len(d) + 1 : SubSeq(s, k, k + Len(d) - 1) = d}

(* Faulty framing: one byte is skipped, whatever the length of the delimiter. *)
TakeDelimitedByte ==
  LET found == Occurrences(config.delimiter, pending)
  IN CASE found # {} ->
            LET k == CHOOSE k \in found : \A m \in found : k <= m
            IN Frame(SubSeq(pending, 1, k - 1), From(pending, k + 1))
       [] Len(pending) > config.max_payload + Len(config.delimiter) -> TooLarge
       [] OTHER -> NoFrame

(* Faulty framing: a frame without a delimiter is never too large. *)
TakeDelimitedUnchecked ==
  LET found == Occurrences(config.delimiter, pending)
  IN IF found = {} THEN NoFrame
     ELSE LET k == CHOOSE k \in found : \A m \in found : k <= m
          IN Frame(SubSeq(pending, 1, k - 1), From(pending, k + Len(config.delimiter)))

TakeDelimited ==
  LET found == Occurrences(config.delimiter, pending)
  IN CASE found # {} ->
            LET k == CHOOSE k \in found : \A m \in found : k <= m
            IN Frame(SubSeq(pending, 1, k - 1), From(pending, k + Len(config.delimiter)))
       [] Len(pending) > config.max_payload + Len(config.delimiter) -> TooLarge
       [] OTHER -> NoFrame

(* One turn of drain_frames (the QUIC worker and the loopback reader have the  *)
(* same length framing).                                                       *)
TakeFrame ==
  CASE config.framing = "length" -> TakePrefixed
    [] config.framing = "delimiter" -> TakeDelimited
    [] config.framing = "fixed" ->
         IF Len(pending) >= config.size
           THEN Frame(SubSeq(pending, 1, config.size), From(pending, config.size + 1)) ELSE NoFrame
    [] OTHER -> IF pending # <<>> THEN Frame(pending, <<>>) ELSE NoFrame

(* A framed stream collects all its frames first; the others push each one. *)
Drain ==
  /\ worker = "drain"
  /\ LET t == TakeFrame
     IN CASE t.found = "frame" ->
               /\ frames' = Append(frames, t.frame)
               /\ pending' = t.rest
               /\ worker' = IF config.kind = "stream" THEN "drain" ELSE "push"
               /\ UNCHANGED errors
          [] t.found = "none" ->
               /\ worker' = IF config.kind = "stream" THEN "push" ELSE "top"
               /\ UNCHANGED <<readVars, errors>>
          [] OTHER -> Fail /\ frames' = <<>> /\ UNCHANGED pending
  /\ UNCHANGED <<config, peerVars, wire, inboxVars, alive, sendVars>>

(* push_raw_message *)
Push ==
  /\ worker = "push"
  /\ frames # <<>>
  /\ IF Len(inbox) >= config.max_inbox
       THEN Fail /\ frames' = <<>> /\ UNCHANGED inboxVars
       ELSE /\ inbox' = Append(inbox, Head(frames))
            /\ delivered' = Append(delivered, Head(frames))
            /\ frames' = Tail(frames)
            /\ UNCHANGED <<worker, errors>>
  /\ UNCHANGED <<config, peerVars, wire, pending, alive, sendVars>>

Pushed ==
  /\ worker = "push"
  /\ frames = <<>>
  /\ worker' = IF config.kind = "quic" THEN "drain" ELSE "top"
  /\ UNCHANGED <<config, peerVars, wire, readVars, inboxVars, errors, alive, sendVars>>

-----------------------------------------------------------------------------
(* The role's thread *)

Calling == role = "idle" /\ Len(results) < config.max_sends

(* send_message on a socket of the role's own: it writes under the lock. *)
SendDirect ==
  /\ Calling
  /\ ~OwnsSocket
  /\ \E ok \in WriteOutcomes :
       /\ results' = Append(results, IF ok THEN "ok" ELSE "error")
       /\ written' = IF ok THEN Append(written, Len(results) + 1) ELSE written
  /\ UNCHANGED <<config, peerVars, wire, worker, readVars, inboxVars, errors, alive,
                 commands, closing, role, acking>>

(* send_websocket, or send_message for QUIC *)
SendCommand ==
  /\ Calling
  /\ OwnsSocket
  /\ IF worker = "exit"
       THEN results' = Append(results, "error") /\ UNCHANGED <<commands, role>>
       ELSE commands' = Append(commands, Len(results) + 1) /\ role' = "waiting" /\ UNCHANGED results
  /\ UNCHANGED <<config, peerVars, wire, worker, readVars, inboxVars, errors, alive,
                 closing, written, acking>>

(* recv_timeout: five seconds have passed, or the worker is gone. *)
AckTimeout ==
  /\ role = "waiting"
  /\ results' = Append(results, "error")
  /\ role' = "idle"
  /\ UNCHANGED <<config, peerVars, wire, worker, readVars, inboxVars, errors, alive,
                 commands, closing, written, acking>>

(* half_close, of a "close" step *)
HalfClose ==
  /\ role = "idle"
  /\ ~closing
  /\ \A k \in DOMAIN commands : commands[k] # Close
  /\ IF OwnsSocket
       THEN worker # "exit" /\ commands' = Append(commands, Close) /\ UNCHANGED closing
       ELSE closing' = TRUE /\ UNCHANGED commands
  /\ UNCHANGED <<config, peerVars, wire, worker, readVars, inboxVars, errors, alive,
                 role, results, written, acking>>

(* A receive step takes the oldest message. *)
Receive ==
  /\ role = "idle"
  /\ inbox # <<>>
  /\ inbox' = Tail(inbox)
  /\ UNCHANGED <<config, peerVars, wire, worker, readVars, delivered, errors, alive, sendVars>>

(* finish: stop the worker, then join it. *)
Finish ==
  /\ role = "idle"
  /\ role' = "joining"
  /\ alive' = FALSE
  /\ UNCHANGED <<config, peerVars, wire, worker, readVars, inboxVars, errors,
                 commands, closing, results, written, acking>>

Join ==
  /\ role = "joining"
  /\ worker = "exit"
  /\ role' = "done"
  /\ UNCHANGED <<config, peerVars, wire, worker, readVars, inboxVars, errors, alive,
                 commands, closing, results, written, acking>>

Done == role = "done" /\ UNCHANGED vars

Peer == PeerSend \/ PeerClose \/ PeerReset
Worker == \/ Top \/ TakeData \/ Ack \/ TakeClose \/ NoCommand
          \/ ReadBytes \/ ReadMessage \/ ReadNothing \/ Drain \/ Push \/ Pushed
Role == SendDirect \/ SendCommand \/ AckTimeout \/ HalfClose \/ Receive \/ Finish \/ Join

Next == Peer \/ Worker \/ Role \/ Done

-----------------------------------------------------------------------------
(* Properties *)

(* The delimiter occurs in the framed payload at its end only. *)
Clean(p) ==
  config.framing = "delimiter" =>
    Occurrences(config.delimiter, p \o config.delimiter) = {Len(p) + 1}

(* What a connection preserves: "Raw TCP keeps byte-stream semantics", the      *)
(* other framings and kinds keep the messages.                                  *)
Content(messages) ==
  IF config.kind = "stream" /\ config.framing = "raw" THEN FlattenSeq(messages) ELSE messages

(* What the readers push is what the peer sent, in order and unaltered, however *)
(* the bytes are split into reads, as long as no payload holds the delimiter;   *)
(* and a worker that stops by itself without recording an error has pushed all  *)
(* of it.  (A framed stream says nothing of a broken connection.)               *)
DeliveredInOrder ==
  (\A k \in DOMAIN sent : Clean(sent[k])) =>
    /\ IsPrefix(Content(delivered), Content(sent))
    /\ worker = "exit" /\ alive /\ ~errors /\ (peer = "reset" => config.kind # "stream") =>
         Content(delivered) = Content(sent)

(* A send that returns Ok was written, and no call is written twice or out of   *)
(* order, not even when a call that has timed out is written late.              *)
SendsAreTrue ==
  /\ \A i \in DOMAIN results : results[i] = "ok" => \E k \in DOMAIN written : written[k] = i
  /\ \A j, k \in DOMAIN written : j < k => written[j] < written[k]

(* Between two reads a reader buffers less than one frame of the permitted      *)
(* size, whatever the peer sends.                                               *)
PendingBounded ==
  worker = "read" =>
    CASE config.framing = "length" -> Len(pending) < HeaderSize + AtLeast1(config.max_payload)
      [] config.framing = "delimiter" -> Len(pending) <= config.max_payload + Len(config.delimiter)
      [] config.framing = "fixed" -> Len(pending) < config.size
      [] OTHER -> pending = <<>>

(* No send waits for ever for its acknowledgement, and finish always joins the  *)
(* worker.                                                                      *)
SendsAndFinishReturn ==
  /\ role = "waiting" ~> role = "idle"
  /\ role = "joining" ~> role = "done"

=============================================================================
