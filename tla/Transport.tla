----------------------------- MODULE Transport -----------------------------
(***************************************************************************)
(* The simulated transport: role threads call send_scoped concurrently,    *)
(* faults are decided from shared counters, messages go to bounded inboxes *)
(* at once or through delayed-delivery threads, receivers take matching    *)
(* messages out, and finish() joins the deliveries and reports their       *)
(* errors.  Each atomic operation or lock of the code is one action.       *)
(* Message contents are abstracted to what the fault scopes, the size      *)
(* limits and the receivers' expectations see.                             *)
(***************************************************************************)
EXTENDS Integers, Sequences, FiniteSets

CONSTANTS
  Roles,    \* owners of inboxes
  Senders,  \* role threads that send
  To,       \* To[m]: destination role of message m
  Configs   \* the configurations to check (see ConfigType)

Messages == DOMAIN To

(* TransportConfig and ResourceLimits, with the traffic they apply to. *)
ConfigType ==
  [outbox         : [Senders -> Seq(Messages)],  \* what each sender sends, in order
   eligible       : SUBSET Messages,   \* in the scope of the faults (steps, flag, predicate)
   oversized      : SUBSET Messages,   \* longer than limits.max_payload
   over_mtu       : SUBSET Messages,   \* longer than mtu
   mtu_blackhole  : BOOLEAN,
   lossy          : BOOLEAN,           \* loss_rate > 0
   burst_loss     : Nat,
   drop_nth       : Nat,               \* 0: off, as for the next two
   disconnect_nth : Nat,
   port_capacity  : Nat,
   duplicates     : BOOLEAN,           \* duplicate_rate > 0
   delayed        : SUBSET Messages,   \* sent with a positive delay under the real clock
   reorder        : SUBSET Nat,        \* random values of reorder, {} when it is off
   max_inbox      : Nat]

ASSUME TransportAssumption ==
  /\ \A m \in Messages : To[m] \in Roles
  /\ Configs \subseteq ConfigType

VARIABLES
  config,           \* the transport's configuration and traffic, fixed for the run
  send_counter,     \* eligible sends so far
  burst_remaining,  \* drops left in the current loss burst
  inboxes,          \* inboxes[r]: the role's queue of messages
  spc,              \* where each sender is in send_scoped
  sent,             \* how many messages of its outbox a sender has sent
  call,             \* the locals of the sender's current call
  workers,          \* delayed deliveries: messages with copies still to push
  worker_errors,    \* some delayed delivery failed
  ordinal,          \* history: the ordinal each message drew (0: none)
  report,           \* history: how send_scoped returned for each message
  copies,           \* history: copies each accepted message was to make
  received,         \* history: copies taken out by receivers
  finished          \* what finish() returned: "no" yet, "ok" or "err"

vars == <<config, send_counter, burst_remaining, inboxes, spc, sent, call, workers,
          worker_errors, ordinal, report, copies, received, finished>>

NoCall == [continuing |-> FALSE, random_drop |-> FALSE, left |-> 0, position |-> -1]

Init ==
  /\ config \in Configs
  /\ send_counter = 0
  /\ burst_remaining = 0
  /\ inboxes = [r \in Roles |-> <<>>]
  /\ spc = [s \in Senders |-> "ready"]
  /\ sent = [s \in Senders |-> 0]
  /\ call = [s \in Senders |-> NoCall]
  /\ workers = {}
  /\ worker_errors = FALSE
  /\ ordinal = [m \in Messages |-> 0]
  /\ report = [m \in Messages |-> "none"]
  /\ copies = [m \in Messages |-> 0]
  /\ received = [m \in Messages |-> 0]
  /\ finished = "no"

-----------------------------------------------------------------------------
(* send_scoped *)

Current(s) == config.outbox[s][sent[s] + 1]

(* send_scoped returns r to the sender. *)
ReturnReport(s, r) ==
  /\ report' = [report EXCEPT ![Current(s)] = r]
  /\ sent' = [sent EXCEPT ![s] = @ + 1]
  /\ spc' = [spc EXCEPT ![s] = "ready"]
  /\ call' = [call EXCEPT ![s] = NoCall]

Continue(s, label, c) ==
  /\ spc' = [spc EXCEPT ![s] = label]
  /\ call' = [call EXCEPT ![s] = c]
  /\ UNCHANGED <<report, sent>>

(* ordinal = send_counter.fetch_add(1) + 1 for eligible sends; port_capacity. *)
DrawOrdinal(s) ==
  LET m == Current(s)
      n == send_counter + 1
  IN /\ spc[s] = "ready"
     /\ sent[s] < Len(config.outbox[s])
     /\ \/ /\ m \notin config.eligible
           /\ Continue(s, "accept", NoCall)
           /\ UNCHANGED <<send_counter, ordinal>>
        \/ /\ m \in config.eligible
           /\ send_counter' = n
           /\ ordinal' = [ordinal EXCEPT ![m] = n]
           /\ IF config.port_capacity > 0 /\ n > config.port_capacity
                THEN ReturnReport(s, "limit")
                ELSE Continue(s, "burst", NoCall)
     /\ UNCHANGED <<config, burst_remaining, inboxes, workers, worker_errors, copies, received, finished>>

(* burst_remaining.fetch_update(decrement if positive), then the loss draw. *)
TakeBurst(s) ==
  /\ spc[s] = "burst"
  /\ burst_remaining' = IF burst_remaining > 0 THEN burst_remaining - 1 ELSE 0
  /\ \E drop \in {FALSE, config.lossy} :
       Continue(s, "decide", [NoCall EXCEPT !.continuing = burst_remaining > 0, !.random_drop = drop])
  /\ UNCHANGED <<config, send_counter, inboxes, workers, worker_errors, ordinal, copies, received, finished>>

(* disconnect_nth, start of a burst, and the three reasons to drop. *)
DecideLoss(s) ==
  LET c == call[s]
      n == ordinal[Current(s)]
      disconnected == config.disconnect_nth > 0 /\ n = config.disconnect_nth
      dropped == c.continuing \/ c.random_drop \/ (config.drop_nth > 0 /\ n = config.drop_nth)
  IN /\ spc[s] = "decide"
     /\ burst_remaining' = IF ~disconnected /\ c.random_drop /\ config.burst_loss > 1
                             THEN config.burst_loss - 1 ELSE burst_remaining
     /\ \/ disconnected /\ ReturnReport(s, "transport")
        \/ ~disconnected /\ dropped /\ ReturnReport(s, "dropped")
        \/ ~disconnected /\ ~dropped /\ Continue(s, "accept", NoCall)
     /\ UNCHANGED <<config, send_counter, inboxes, workers, worker_errors, ordinal, copies, received, finished>>

(* Duplication and reorder draws, max_payload, mtu, and the look at the     *)
(* destination queue; then deliver here or spawn the delayed delivery.      *)
Accept(s) ==
  LET m == Current(s)
  IN /\ spc[s] = "accept"
     /\ \E n \in IF config.duplicates /\ m \in config.eligible THEN {1, 2} ELSE {1} :
        \E at \in IF config.reorder = {} THEN {-1} ELSE config.reorder :
          \/ /\ m \in config.oversized
             /\ ReturnReport(s, "limit")
             /\ UNCHANGED <<copies, workers>>
          \/ /\ m \notin config.oversized /\ m \in config.over_mtu
             /\ ReturnReport(s, IF config.mtu_blackhole THEN "dropped" ELSE "limit")
             /\ UNCHANGED <<copies, workers>>
          \/ /\ m \notin config.oversized \cup config.over_mtu
             /\ Len(inboxes[To[m]]) >= config.max_inbox
             /\ ReturnReport(s, "limit")
             /\ UNCHANGED <<copies, workers>>
          \/ /\ m \notin config.oversized \cup config.over_mtu
             /\ Len(inboxes[To[m]]) < config.max_inbox
             /\ copies' = [copies EXCEPT ![m] = n]
             /\ \/ /\ m \in config.delayed
                   /\ workers' = workers \cup {[msg |-> m, left |-> n, position |-> at]}
                   /\ ReturnReport(s, "ok")
                \/ /\ m \notin config.delayed
                   /\ Continue(s, "deliver", [NoCall EXCEPT !.left = n, !.position = at])
                   /\ UNCHANGED workers
     /\ UNCHANGED <<config, send_counter, burst_remaining, inboxes, worker_errors, ordinal, received, finished>>

(* push_message_limited: append, or insert at random % (len + 1). *)
InsertMessage(q, m, random) ==
  LET pos == IF random = -1 \/ q = <<>> THEN Len(q) ELSE random % (Len(q) + 1)
  IN SubSeq(q, 1, pos) \o <<m>> \o SubSeq(q, pos + 1, Len(q))

Full(m) == Len(inboxes[To[m]]) >= config.max_inbox

Push(m, at) == inboxes' = [inboxes EXCEPT ![To[m]] = InsertMessage(@, m, at)]

(* deliver_copies in the sender's own thread, one copy per lock. *)
Deliver(s) ==
  LET m == Current(s)
      c == call[s]
  IN /\ spc[s] = "deliver"
     /\ \/ /\ Full(m)
           /\ ReturnReport(s, "limit")
           /\ UNCHANGED inboxes
        \/ /\ ~Full(m)
           /\ Push(m, c.position)
           /\ IF c.left = 1 THEN ReturnReport(s, "ok")
              ELSE Continue(s, "deliver", [c EXCEPT !.left = @ - 1])
     /\ UNCHANGED <<config, send_counter, burst_remaining, workers, worker_errors, ordinal, copies, received, finished>>

SenderStep(s) ==
  DrawOrdinal(s) \/ TakeBurst(s) \/ DecideLoss(s) \/ Accept(s) \/ Deliver(s)

-----------------------------------------------------------------------------
(* Delayed deliveries, receivers and finish *)

(* A faulty delayed delivery: its error is not recorded. *)
WorkerDeliverQuietly(k) ==
  /\ IF Full(k.msg) THEN UNCHANGED inboxes ELSE Push(k.msg, k.position)
  /\ workers' = (workers \ {k}) \cup
                  (IF k.left = 1 \/ Full(k.msg) THEN {} ELSE {[k EXCEPT !.left = @ - 1]})
  /\ UNCHANGED <<config, send_counter, burst_remaining, worker_errors, spc, sent, call, ordinal, report,
                 copies, received, finished>>

(* A delayed-delivery thread pushes its next copy; an error ends it. *)
WorkerDeliver(k) ==
  /\ \/ /\ Full(k.msg)
        /\ worker_errors' = TRUE
        /\ workers' = workers \ {k}
        /\ UNCHANGED inboxes
     \/ /\ ~Full(k.msg)
        /\ Push(k.msg, k.position)
        /\ workers' = (workers \ {k}) \cup
                        (IF k.left = 1 THEN {} ELSE {[k EXCEPT !.left = @ - 1]})
        /\ UNCHANGED worker_errors
  /\ UNCHANGED <<config, send_counter, burst_remaining, spc, sent, call, ordinal, report, copies,
                 received, finished>>

(* recv_match: take the first message of the queue the step expects.  An    *)
(* expectation is any set of messages; a timeout changes nothing here.      *)
Receive(r) ==
  /\ finished = "no"
  /\ \E k \in DOMAIN inboxes[r] :
       LET m == inboxes[r][k]
       IN /\ \A j \in 1 .. k - 1 : inboxes[r][j] # m
          /\ inboxes' = [inboxes EXCEPT ![r] = SubSeq(@, 1, k - 1) \o SubSeq(@, k + 1, Len(@))]
          /\ received' = [received EXCEPT ![m] = @ + 1]
  /\ UNCHANGED <<config, send_counter, burst_remaining, spc, sent, call, workers, worker_errors,
                 ordinal, report, copies, finished>>

AllSent == \A s \in Senders : sent[s] = Len(config.outbox[s])

(* finish(), called once the role threads have ended: join, collect errors. *)
Finish ==
  /\ AllSent
  /\ workers = {}
  /\ finished = "no"
  /\ finished' = IF worker_errors THEN "err" ELSE "ok"
  /\ worker_errors' = FALSE
  /\ UNCHANGED <<config, send_counter, burst_remaining, inboxes, spc, sent, call, workers, ordinal,
                 report, copies, received>>

Returned == finished # "no" /\ UNCHANGED vars

Next ==
  \/ \E s \in Senders : SenderStep(s)
  \/ \E k \in workers : WorkerDeliver(k)
  \/ \E r \in Roles : Receive(r)
  \/ Finish
  \/ Returned

Deliveries == \E k \in workers : WorkerDeliver(k)

-----------------------------------------------------------------------------
(* Properties *)

Queued(m) == Cardinality({k \in DOMAIN inboxes[To[m]] : inboxes[To[m]][k] = m})
Arrived(m) == Queued(m) + received[m]

(* What send_scoped reports is what happens: a message reported dropped     *)
(* never arrives, one reported sent arrives in all its copies unless        *)
(* finish() reports an error, and a failed send delivered at most the first *)
(* of two copies.  No inbox outgrows limits.max_inbox on the way, though    *)
(* the fullness check of send_scoped and the push are separate critical     *)
(* sections and delayed deliveries push on their own.                       *)
ReportsAreTrue ==
  /\ \A m \in Messages :
       /\ report[m] = "dropped" => Arrived(m) = 0
       /\ report[m] \in {"limit", "transport"} =>
            Arrived(m) = 0 \/ (Arrived(m) = 1 /\ copies[m] = 2)
       /\ report[m] = "ok" /\ finished = "ok" => Arrived(m) = copies[m]
  /\ \A r \in Roles : Len(inboxes[r]) <= config.max_inbox

(* "Drop exactly this eligible send ordinal": once that many eligible sends *)
(* have returned, exactly one send has been dropped, when neither random    *)
(* loss nor a disconnect nor a black hole interferes.                       *)
DropNthExactlyOne ==
  ~config.lossy /\ ~config.mtu_blackhole /\ config.disconnect_nth = 0 /\ config.drop_nth > 0 /\ AllSent =>
    Cardinality({m \in Messages : report[m] = "dropped" /\ ordinal[m] > 0})
      = IF send_counter >= config.drop_nth THEN 1 ELSE 0

(* Without reordering and delay, the messages of one sender to one role are *)
(* queued in the order they were sent.                                      *)
InOrder ==
  config.reorder = {} /\ config.delayed = {} =>
    \A r \in Roles, s \in Senders : \A i, j \in DOMAIN inboxes[r] :
      \A a, b \in DOMAIN config.outbox[s] :
        inboxes[r][i] = config.outbox[s][a] /\ inboxes[r][j] = config.outbox[s][b] /\ i < j => a <= b

(* "Number of consecutive drops triggered by a probabilistic loss event"    *)
(* (TransportConfig.burst_loss): the eligible sends that follow a random    *)
(* drop by fewer than burst_loss ordinals do not arrive.                    *)
BurstIsConsecutive ==
  \A m, n \in Messages :
    /\ report[m] = "dropped" /\ ordinal[m] > 0
    /\ \A p \in Messages : ordinal[p] > 0 /\ ordinal[p] < ordinal[m] => report[p] = "ok"
    /\ ordinal[n] > ordinal[m] /\ ordinal[n] < ordinal[m] + config.burst_loss
    => report[n] # "ok"

=============================================================================
