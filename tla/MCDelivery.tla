----------------------------- MODULE MCDelivery -----------------------------
(***************************************************************************)
(* How messages are delivered, for TLC: a behaviour is one of the          *)
(* simulated transport, with two senders and one destination, or of one    *)
(* live connection.                                                        *)
(***************************************************************************)
EXTENDS Transport

CONSTANTS Connections, Payloads, HeaderSize, Radix   \* for LiveStream

VARIABLES
  which, connection, peer, peer_sent, wire, worker, pending, frames, acking, inbox, delivered,
  errors, alive, commands, closing, role, results, written

L == INSTANCE LiveStream WITH Configs <- Connections, config <- connection, sent <- peer_sent

live == <<connection, peer, peer_sent, wire, worker, pending, frames, acking, inbox, delivered, errors,
          alive, commands, closing, role, results, written>>

LiveIdle ==
  /\ connection = <<>> /\ peer = "" /\ peer_sent = <<>> /\ wire = <<>> /\ worker = "" /\ pending = <<>>
  /\ frames = <<>> /\ acking = <<>> /\ inbox = <<>> /\ delivered = <<>> /\ errors = FALSE
  /\ alive = FALSE /\ commands = <<>> /\ closing = FALSE /\ role = "" /\ results = <<>> /\ written = <<>>

TransportIdle ==
  /\ config = <<>> /\ send_counter = 0 /\ burst_remaining = 0 /\ inboxes = <<>> /\ spc = <<>>
  /\ sent = <<>> /\ call = <<>> /\ workers = {} /\ worker_errors = FALSE /\ ordinal = <<>>
  /\ report = <<>> /\ copies = <<>> /\ received = <<>> /\ finished = ""

MCInit ==
  \/ which = "simulated" /\ Init /\ LiveIdle
  \/ which = "live" /\ L!Init /\ TransportIdle

Simulated(A) == which = "simulated" /\ A /\ UNCHANGED <<which, live>>
Live(A) == which = "live" /\ A /\ UNCHANGED <<which, vars>>

MCNext == Simulated(Next) \/ Live(L!Next)

(* Threads run, a sleeping delivery thread wakes up, the worker of a        *)
(* connection is scheduled, and the two waits of its role end when they can. *)
MCSpec ==
  /\ MCInit /\ [][MCNext]_<<which, vars, live>>
  /\ \A s \in Senders : WF_vars(Simulated(SenderStep(s)))
  /\ WF_vars(Simulated(Deliveries))
  /\ WF_vars(Simulated(Finish))
  /\ WF_live(Live(L!Worker))
  /\ WF_live(Live(L!AckTimeout))
  /\ WF_live(Live(L!Join))

(* ReportsAreTrue, of send_scoped and the inboxes it fills, and             *)
(* DropNthExactlyOne, of drop_nth.                                          *)
SimulatedReportsAreTrue == which = "simulated" => ReportsAreTrue /\ DropNthExactlyOne
(* What is queued for a role is in the order it was sent: InOrder of the    *)
(* inboxes send_scoped fills, L!DeliveredInOrder of a worker's.             *)
QueuedInOrder == IF which = "simulated" THEN InOrder ELSE L!DeliveredInOrder
(* L!SendsAreTrue, of send_message on a live connection. *)
LiveSendsAreTrue == which = "live" => L!SendsAreTrue
(* L!PendingBounded, of what a live reader buffers. *)
LivePendingBounded == which = "live" => L!PendingBounded
(* Whatever waits is woken: finish() returns, every delayed delivery        *)
(* joined; and L!SendsAndFinishReturn, of the acknowledged sends and the    *)
(* join of a live connection.                                               *)
WaitsEnd == (which = "simulated" ~> finished # "no") /\ L!SendsAndFinishReturn

(* BurstIsConsecutive, of burst_loss. *)
BurstsAreConsecutive == which = "simulated" => BurstIsConsecutive

ASSUME L!IsConnection

-----------------------------------------------------------------------------
(* The client sends a1, a2, a3 and the peer b1, b2, all to the server. *)
ToServer == [m \in {"a1", "a2", "a3", "b1", "b2"} |-> "server"]

Quiet ==
  [outbox |-> [client |-> <<"a1", "a2", "a3">>, peer |-> <<"b1", "b2">>],
   eligible |-> DOMAIN ToServer, oversized |-> {}, over_mtu |-> {}, mtu_blackhole |-> FALSE,
   lossy |-> FALSE, burst_loss |-> 1, drop_nth |-> 0, disconnect_nth |-> 0, port_capacity |-> 0,
   duplicates |-> FALSE, delayed |-> {}, reorder |-> {}, max_inbox |-> 2]

(* Loss in bursts, a drop, a disconnect, duplicates and an MTU black hole. *)
Faulty ==
  [Quiet EXCEPT !.eligible = {"a1", "a2", "a3", "b1"}, !.over_mtu = {"b2"}, !.mtu_blackhole = TRUE,
                !.lossy = TRUE, !.burst_loss = 2, !.drop_nth = 2, !.disconnect_nth = 4,
                !.duplicates = TRUE]

(* Delayed deliveries race direct ones, with duplicates and reordering. *)
Slow ==
  [Quiet EXCEPT !.outbox = [client |-> <<"a1", "a2">>, peer |-> <<"b1", "b2">>],
                !.eligible = {"a1", "b1", "b2"}, !.drop_nth = 2, !.duplicates = TRUE,
                !.delayed = {"a1", "b1"}, !.reorder = {0, 1}]

(* Every limit is reached. *)
Limited ==
  [Quiet EXCEPT !.oversized = {"a1"}, !.over_mtu = {"b1"}, !.drop_nth = 1, !.port_capacity = 4,
                !.duplicates = TRUE]

AllConfigs == {Faulty, Slow, Limited}

(* Two senders and a burst of two. *)
Bursts ==
  {[Quiet EXCEPT !.outbox = [client |-> <<"a1", "a2">>, peer |-> <<"b1">>], !.lossy = TRUE,
                 !.burst_loss = 2, !.max_inbox = 4]}

-----------------------------------------------------------------------------
Connection(kind, framing, delimiter, max, frameCount, sends) ==
  [kind |-> kind, framing |-> framing, delimiter |-> delimiter, size |-> 2, max_payload |-> max,
   max_inbox |-> frameCount - 1, max_frames |-> frameCount, max_sends |-> sends]

(* Empty, short, of max_payload, holding a delimiter, and too long. *)
ShortPayloads == {<<>>, <<1>>, <<1, 0>>, <<2, 1, 1>>}

AllConnections ==
  {Connection("stream", "length", <<>>, 2, 3, 0), Connection("stream", "delimiter", <<0>>, 1, 2, 0),
   Connection("stream", "delimiter", <<1, 0>>, 2, 2, 0), Connection("stream", "fixed", <<>>, 2, 3, 0),
   Connection("stream", "raw", <<>>, 2, 2, 0), Connection("tcp", "length", <<>>, 2, 2, 1),
   Connection("quic", "length", <<>>, 2, 2, 1), Connection("websocket", "raw", <<>>, 2, 2, 2)}
=============================================================================
