----------------------------- MODULE RawReceive -----------------------------
(***************************************************************************)
(* send_raw and recv_raw over an inbox: a sender builds, encodes and       *)
(* fragments packets, the network loses, repeats and reorders them, and    *)
(* recv_raw_match takes candidate messages out of the role's inbox one at  *)
(* a time, returns the first that matches, feeds IP fragments to a         *)
(* reassembler that lives as long as the call, sets the others aside and   *)
(* puts them back at the front of the queue when it returns.  Frames       *)
(* arrive while the lock is released.                                      *)
(***************************************************************************)
EXTENDS Reassembler

CONSTANTS
  Scenarios  \* the situations to check

(* A scenario is                                                            *)
(*   sends   the send_raw steps of the peer, [spec, data]                   *)
(*   frames  frames of others, on the network from the start, [from, wire]  *)
(*   faults  how many frames the network may lose or repeat                 *)
(*   calls   how many recv_raw attempts are made                            *)
(*   expect  [from, by, port, length, wire]: a matcher on header fields, on *)
(*           the length of the payload or on the exact octets ("hex")       *)
(*   limits  [max_inbox, max_datagrams, max_buffered]                       *)

VARIABLES
  scenario,  \* fixed for the run
  step,      \* the send_raw step in progress or next
  left,      \* the packets it has still to transmit
  unsent,    \* steps that failed because a packet they built does not decode
  flight,    \* frames on the network, [no, from, wire]
  count,     \* frames so far, and then messages so far
  faults,    \* faults left
  queue,     \* the inbox, messages [no, from, wire]
  refused,   \* messages refused because the inbox was full
  pc,        \* "idle", "take", "waiting", "inspect" or "panicked"
  expired,   \* the deadline of the call has passed
  hand,      \* the message taken out and being inspected
  deferred,  \* messages set aside by this call, oldest first
  sets,      \* this call's reassembler
  held,      \* fragments it has absorbed
  absorbed,  \* fragments absorbed by this or an earlier call
  calls,     \* calls started
  rejected,  \* a call has failed with a validation error
  returned   \* results of successful calls, [nos, wire]

sender == <<step, left, unsent>>
network == <<flight, count, faults>>
call == <<pc, expired, hand, deferred, sets, held, absorbed, calls, rejected, returned>>
vars == <<scenario, step, left, unsent, flight, count, faults, queue, refused, pc, expired, hand, deferred,
          sets, held, absorbed, calls, rejected, returned>>

Nobody == [no |-> 0, from |-> "-", wire |-> <<>>]

Numbered(frames, n) == {[no |-> n + i, from |-> frames[i].from, wire |-> frames[i].wire] : i \in DOMAIN frames}

Init ==
  /\ scenario \in Scenarios
  /\ step = 1 /\ left = <<>> /\ unsent = {}
  /\ flight = Numbered(scenario.frames, 0)
  /\ count = [frames |-> Len(scenario.frames), messages |-> 0]
  /\ faults = scenario.faults
  /\ queue = <<>> /\ refused = {}
  /\ pc = "idle" /\ expired = FALSE /\ hand = Nobody /\ deferred = <<>>
  /\ sets = <<>> /\ held = {} /\ absorbed = {} /\ calls = 0 /\ rejected = FALSE /\ returned = {}

-----------------------------------------------------------------------------
(* send_raw *)

(* The packets of the step are built. *)
Build ==
  /\ left = <<>> /\ step <= Len(scenario.sends)
  /\ LET built == BuildRawPackets(scenario.sends[step].spec, scenario.sends[step].data)
     IN IF built.r = "ok" /\ built.v # <<>> THEN left' = built.v /\ UNCHANGED step
                                            ELSE step' = step + 1 /\ UNCHANGED left
  /\ UNCHANGED <<scenario, unsent, flight, count, faults, queue, refused, call>>

(* The next packet is made a message, for which it is decoded, and goes out. *)
Transmit ==
  /\ left # <<>>
  /\ \E d \in DecodeRawWire(Head(left)) :
       IF d.r = "ok"
         THEN /\ flight' = flight \cup Numbered(<<[from |-> "peer", wire |-> Head(left)]>>, count.frames)
              /\ count' = [count EXCEPT !.frames = @ + 1]
              /\ left' = Tail(left)
              /\ step' = IF Tail(left) = <<>> THEN step + 1 ELSE step
              /\ UNCHANGED <<unsent, pc>>
         ELSE /\ left' = <<>>
              /\ step' = step + 1
              /\ unsent' = IF d.r = "error" THEN unsent \cup {step} ELSE unsent
              /\ pc' = IF d.r = "panic" THEN "panicked" ELSE pc
              /\ UNCHANGED <<flight, count>>
  /\ UNCHANGED <<scenario, faults, queue, refused, expired, hand, deferred, sets, held, absorbed, calls, rejected, returned>>

Lose ==
  /\ faults > 0
  /\ \E f \in flight : flight' = flight \ {f}
  /\ faults' = faults - 1
  /\ UNCHANGED <<scenario, sender, count, queue, refused, call>>

(* push_message_limited, for any frame on the network; it may come again. *)
Arrive ==
  /\ \E f \in flight :
       /\ \/ flight' = flight \ {f} /\ UNCHANGED faults
          \/ faults > 0 /\ faults' = faults - 1 /\ UNCHANGED flight
       /\ LET m == [f EXCEPT !.no = count.messages + 1]
          IN IF Len(queue) >= scenario.limits.max_inbox
               THEN refused' = refused \cup {m.no} /\ UNCHANGED queue
               ELSE queue' = Append(queue, m) /\ UNCHANGED refused
  /\ count' = [count EXCEPT !.messages = @ + 1]
  /\ UNCHANGED <<scenario, sender, call>>

-----------------------------------------------------------------------------
(* recv_raw_match *)

Call ==
  /\ pc = "idle"
  /\ calls < scenario.calls
  /\ calls' = calls + 1
  /\ pc' = "take"
  /\ expired' = FALSE
  /\ UNCHANGED <<scenario, sender, network, queue, refused, hand, deferred, sets, held, absorbed, rejected, returned>>

(* The deadline of the call passes. *)
Expire ==
  /\ pc \in {"take", "waiting", "inspect"}
  /\ ~expired
  /\ expired' = TRUE
  /\ UNCHANGED <<scenario, sender, network, queue, refused, pc, hand, deferred, sets, held, absorbed, calls, rejected, returned>>

(* The call returns; the reassembler and the locals go with it. *)
ReturnWith(q) ==
  /\ pc' = "idle"
  /\ queue' = q
  /\ hand' = Nobody
  /\ deferred' = <<>>
  /\ sets' = <<>>
  /\ held' = {}

(* A faulty restore_deferred: push_front in queue order. *)
RestoredReversed == Reverse(deferred) \o queue

(* restore_deferred: push_front in reverse order, whatever the queue's length. *)
Restored == deferred \o queue

Candidate(m) == scenario.expect.from \in {"any", m.from}

(* The scan under the lock: take the first candidate, or give up, or wait. *)
Take ==
  /\ pc = "take"
  /\ \/ \E k \in DOMAIN queue :
          /\ Candidate(queue[k])
          /\ \A i \in 1 .. k - 1 : ~Candidate(queue[i])
          /\ hand' = queue[k]
          /\ queue' = RemoveAt(queue, k)
          /\ pc' = "inspect"
          /\ UNCHANGED <<deferred, sets, held>>
     \/ /\ \A k \in DOMAIN queue : ~Candidate(queue[k])
        /\ IF expired
             THEN ReturnWith(Restored)
             ELSE pc' = "waiting" /\ UNCHANGED <<queue, hand, deferred, sets, held>>
  /\ UNCHANGED <<scenario, sender, network, refused, expired, absorbed, calls, rejected, returned>>


(* cv.wait_timeout returns: notified, the loop scans again; timed out, the   *)
(* call gives up without another scan.                                       *)
Wake ==
  /\ pc = "waiting"
  /\ \/ /\ queue # <<>>
        /\ pc' = "take"
        /\ UNCHANGED <<queue, hand, deferred, sets, held>>
     \/ /\ expired
        /\ ReturnWith(Restored)
  /\ UNCHANGED <<scenario, sender, network, refused, expired, absorbed, calls, rejected, returned>>

(* Expect::matches on a message, whose fields are those decoded from it. *)
Matches(d, wire) ==
  LET e == scenario.expect
      fields == RawPacketFields(d.v)
      headers == {"tcp", "udp"} \cap DOMAIN fields
  IN CASE e.by = "hex"     -> wire = e.wire
       [] e.by = "header"  -> d.r = "ok" /\ \E h \in headers : fields[h].destination_port = e.port
       [] e.by = "length"  -> d.r = "ok" /\ headers # {} /\ Size(fields.raw.payload) = e.length

Success(nos, wire) ==
  /\ ReturnWith(Restored)
  /\ returned' = returned \cup {[nos |-> nos, wire |-> wire]}
  /\ UNCHANGED <<absorbed, rejected>>

(* An error of the reassembler or of the codec ends the call at once. *)
Reject ==
  /\ ReturnWith(queue)
  /\ rejected' = TRUE
  /\ UNCHANGED <<absorbed, returned>>

Panics ==
  /\ pc' = "panicked"
  /\ UNCHANGED <<queue, hand, deferred, sets, held, absorbed, rejected, returned>>

Continue(aside, now, more) ==
  /\ deferred' = aside
  /\ sets' = now
  /\ held' = held \cup more
  /\ absorbed' = absorbed \cup more
  /\ hand' = Nobody
  /\ pc' = "take"
  /\ UNCHANGED <<queue, rejected, returned>>

(* What the reassembler gives back is matched as a message of its own.       *)
Reassembled(d, p, now) ==
  LET fragment == IsFragment(d.packet.net)
      wire     == IF fragment THEN Encode(p) ELSE Ok(hand.wire)
  IN IF wire.r = "error" THEN Reject
     ELSE \E e \in DecodeRawWire(wire.v) :
            CASE e.r = "error" -> Reject
              [] e.r = "panic" -> Panics
              [] e.r = "ok" -> IF Matches(e, wire.v)
                                 THEN Success((IF fragment THEN held ELSE {}) \cup {hand.no}, wire.v)
                                 ELSE Continue(Append(deferred, hand), now, {})

(* Datagrams whose time is up; none before the deadline of the call is. *)
Overdue == IF expired THEN {{k \in DOMAIN sets : sets[k].created <= c} : c \in 0 .. count.messages} ELSE {{}}

(* What happens to the message in hand, outside the lock; the queue is       *)
(* locked again to put the deferred messages back.                           *)
Inspect ==
  /\ pc = "inspect"
  /\ \E d \in DecodeRawWire(hand.wire) :
       IF d.r = "panic" THEN Panics
       ELSE IF Matches(d, hand.wire) THEN Success({hand.no}, hand.wire)
       ELSE IF d.r = "error" THEN Continue(Append(deferred, hand), sets, {})
       ELSE \E old \in Overdue :
            \E push \in Push(sets, d.v, hand.no, old, scenario.limits) :
              CASE push.out.r = "error" -> Reject
                [] push.out.r = "panic" -> Panics
                [] push.out = Ok(<<>>)  -> Continue(deferred, push.sets, {hand.no})
                [] OTHER                -> Reassembled(d.v, push.out.v[1], push.sets)
  /\ UNCHANGED <<scenario, sender, network, refused, expired, calls>>

(* The role has no further recv_raw step, or its thread has panicked. *)
Done ==
  /\ \/ pc = "panicked"
     \/ pc = "idle" /\ calls = scenario.calls /\ step > Len(scenario.sends) /\ flight = {}
  /\ UNCHANGED vars

Next == Build \/ Transmit \/ Lose \/ Arrive \/ Call \/ Expire \/ Take \/ Wake \/ Inspect \/ Done

(* Inspect, of which this is all that fairness needs: it is always enabled   *)
(* while a message is in hand, and the only step that then changes pc.       *)
Proceed == pc = "inspect" /\ pc' \in {"idle", "take", "panicked"}

(* The receiving thread runs and time passes. *)
Spec == Init /\ [][Next]_vars /\ WF_vars(Expire) /\ WF_vars(Take) /\ WF_vars(Wake) /\ WF_pc(Proceed)

-----------------------------------------------------------------------------
(* Properties *)

Nos(s) == {s[i].no : i \in DOMAIN s}
Consumed == UNION {x.nos : x \in returned}

(* Frames of any shape, with length fields that say anything, are decoded    *)
(* or refused: no slice the decoder takes is out of bounds, so neither       *)
(* send_raw nor recv_raw panics.                                             *)
DecodingNeverPanics == pc # "panicked"

(* A packet the sender did not give a length of its own, or options behind   *)
(* the end of the options, and whose header is not mistaken for another.     *)
Regular(spec) ==
  /\ "ether_type" \notin DOMAIN spec.ethernet
  /\ {"ihl", "total_length", "payload_length", "fragment_offset", "more_fragments", "source"} \cap DOMAIN spec.ip = {}
  /\ {"data_offset", "length"} \cap DOMAIN spec.transport = {}
  /\ LET opts == Get(spec.transport, "options", <<>>)
     IN \A i \in DOMAIN opts : opts[i].k = "end" => i = Len(opts)


Survive ==
  \A n \in 1 .. count.messages : n \notin refused \cup Consumed \cup absorbed => n \in Nos(queue)

(* A message is in one place at a time: queue, hand, set aside, absorbed or  *)
(* consumed; and what was set aside goes back in arrival order, before what  *)
(* arrived meanwhile.  As long as no call has failed on a packet, neither a  *)
(* match, nor a timeout, nor a reassembled datagram that does not match      *)
(* loses a message that was set aside.                                       *)
KeptOnceInOrder ==
  LET all == queue \o deferred
      candidates == SelectSeq(queue, Candidate)
  IN /\ \A i, j \in DOMAIN all : all[i].no = all[j].no => i = j
     /\ Nos(all) \cap (Consumed \cup held \cup refused \cup {hand.no}) = {}
     /\ held \cap Consumed = {} /\ hand.no \notin held \cup Consumed
     /\ pc = "idle" => \A i, j \in DOMAIN candidates : i < j => candidates[i].no < candidates[j].no
     /\ pc = "idle" /\ ~rejected => Survive

(* "the matcher scans the inbox and leaves non-matching segments for later   *)
(* recvs" (README): between calls, every accepted message that is neither    *)
(* one returned nor a fragment is in the inbox.                              *)
NonMatchingSurvive == pc = "idle" => Survive


=============================================================================
