---------------------------- MODULE Orchestrate -----------------------------
(***************************************************************************)
(* tcpform orchestrate: Scenario::validate, then run(): an optional        *)
(* capture process, the declared processes in start_after order, a poll    *)
(* loop with a deadline, and the report.  The operating system runs and    *)
(* ends the children on its own and may refuse to start one.               *)
(***************************************************************************)
EXTENDS Integers, Sequences, FiniteSets

CONSTANTS
  Scenarios,    \* [processes, nodes, links, timeout, capture] (see Validate)
  WaitMayFail   \* try_wait may return an error

VARIABLES
  scenario,  \* fixed
  pc,        \* "validate", "capture", "spawn", "poll", "killing" or "returned"
  child,     \* child[p]: "none", "running", "ok", "failed" (zombie) or "reaped"
  capture,   \* the capture process: "none", "running" or "reaped"
  order,     \* startup_order
  started,   \* how many of order are spawned
  at,        \* the poll loop's position, 0 between rounds
  active,    \* processes found running in this round
  reported,  \* results: process -> success
  expired,   \* the deadline has passed
  result     \* "none", "ok", or why run() returned an error

vars == <<scenario, pc, child, capture, order, started, at, active, reported, expired, result>>

Names(s) == {s.processes[i].name : i \in DOMAIN s.processes}
NodeNames(s) == {"local"} \cup {s.nodes[i].name : i \in DOMAIN s.nodes}
Distinct(seq) == \A i, j \in DOMAIN seq : seq[i] = seq[j] => i = j

(* The checks on nodes: unique names, a known executor, ssh settings on ssh nodes only. *)
ValidNodes(s) ==
  /\ Distinct([i \in DOMAIN s.nodes |-> s.nodes[i].name])
  /\ \A i \in DOMAIN s.nodes :
       LET n == s.nodes[i]
       IN /\ n.name # "local"
          /\ n.executor \in {"local", "ssh"}
          /\ n.executor = "ssh" => n.host = "safe"
          /\ n.executor = "local" => n.host = "none"

(* The checks on processes: unique names and roles, a command, a known node,*)
(* environment names, a working directory where it can be checked.          *)
ValidProcesses(s) ==
  /\ s.processes # <<>>
  /\ Distinct([i \in DOMAIN s.processes |-> s.processes[i].name])
  /\ \A i, j \in DOMAIN s.processes : i # j => s.processes[i].roles \cap s.processes[j].roles = {}
  /\ \A i \in DOMAIN s.processes :
       LET p == s.processes[i]
           remote == \E k \in DOMAIN s.nodes : s.nodes[k].name = p.node /\ s.nodes[k].executor = "ssh"
       IN p.command /\ p.node \in NodeNames(s) /\ p.env_ok /\ (p.cwd_ok \/ remote)

ValidLinks(s) ==
  \A l \in s.links : l[1] # l[2] /\ {l[1], l[2]} \subseteq NodeNames(s)

Find(s, n) == s.processes[CHOOSE i \in DOMAIN s.processes : s.processes[i].name = n]

(* start_after names other processes of the scenario. *)
ValidDependencies(s) ==
  \A i \in DOMAIN s.processes :
    s.processes[i].start_after \subseteq Names(s) \ {s.processes[i].name}

(* startup_order: rounds over the declarations, each taking what has all of *)
(* its start_after taken; a round without progress is a cycle, and the      *)
(* order stays short.                                                       *)
StartupOrder(s) ==
  LET n == Len(s.processes)
      taken(o) == {o[i] : i \in DOMAIN o}
      step(o, p) == IF p.name \notin taken(o) /\ p.start_after \subseteq taken(o) THEN Append(o, p.name) ELSE o
      order_after[k \in 0 .. n * n] ==
        IF k = 0 THEN <<>> ELSE step(order_after[k - 1], s.processes[((k - 1) % n) + 1])
  IN order_after[n * n]

(* Scenario::validate *)
Validate(s) ==
  /\ ValidProcesses(s) /\ ValidNodes(s) /\ ValidDependencies(s)
  /\ Len(StartupOrder(s)) = Len(s.processes)
  /\ ValidLinks(s)
  /\ s.timeout > 0
  /\ s.capture # "bad"

Init ==
  /\ scenario \in Scenarios
  /\ pc = "validate"
  /\ child = [n \in Names(scenario) |-> "none"] /\ capture = "none"
  /\ order = <<>> /\ started = 0 /\ at = 0 /\ active = 0
  /\ reported = << >> /\ expired = FALSE /\ result = "none"

Return(r) == pc' = "returned" /\ result' = r

CheckScenario ==
  /\ pc = "validate"
  /\ IF Validate(scenario)
       THEN pc' = "capture" /\ order' = StartupOrder(scenario) /\ UNCHANGED result
       ELSE Return("invalid") /\ UNCHANGED order
  /\ UNCHANGED <<scenario, child, capture, started, at, active, reported, expired>>

StartCapture ==
  /\ pc = "capture"
  /\ \/ scenario.capture = "none" /\ pc' = "spawn" /\ UNCHANGED <<capture, result>>
     \/ scenario.capture = "on" /\ capture' = "running" /\ pc' = "spawn" /\ UNCHANGED result
     \/ scenario.capture = "on" /\ Return("capture failed") /\ UNCHANGED capture
  /\ UNCHANGED <<scenario, child, order, started, at, active, reported, expired>>

(* Spawn the next process; when it cannot be started, terminate() the rest. *)
Spawn ==
  /\ pc = "spawn"
  /\ \/ /\ started = Len(order)
        /\ pc' = "poll"
        /\ UNCHANGED <<child, started, result>>
     \/ /\ started < Len(order)
        /\ child' = [child EXCEPT ![order[started + 1]] = "running"]
        /\ started' = started + 1
        /\ UNCHANGED <<pc, result>>
     \/ /\ started < Len(order)
        /\ pc' = "killing" /\ result' = "spawn failed"
        /\ UNCHANGED <<child, started>>
  /\ UNCHANGED <<scenario, capture, order, at, active, reported, expired>>

(* The operating system: a child ends with or without success. *)
ChildExits(n) ==
  /\ child[n] = "running"
  /\ \E s \in {"ok", "failed"} : child' = [child EXCEPT ![n] = s]
  /\ UNCHANGED <<scenario, pc, capture, order, started, at, active, reported, expired, result>>

Expire ==
  /\ pc = "poll" /\ ~expired
  /\ expired' = TRUE
  /\ UNCHANGED <<scenario, pc, child, capture, order, started, at, active, reported, result>>

Allowed(n) == Find(scenario, n).allow_failure


(* The end of a round: all ended, the deadline has passed, or sleep. *)
RoundEnds ==
  /\ pc = "poll" /\ at = Len(order)
  /\ \/ /\ active = 0 /\ pc' = "killing"
        /\ result' = IF \E n \in DOMAIN reported : ~reported[n] /\ ~Allowed(n) THEN "failed" ELSE "ok"
        /\ UNCHANGED <<at, active>>
     \/ active > 0 /\ expired /\ pc' = "killing" /\ result' = "timeout" /\ UNCHANGED <<at, active>>
     \/ active > 0 /\ ~expired /\ at' = 0 /\ active' = 0 /\ UNCHANGED <<pc, result>>
  /\ UNCHANGED <<scenario, child, capture, order, started, reported, expired>>

(* try_wait of the next child that has no result yet. *)
TryWait ==
  /\ pc = "poll" /\ at < Len(order)
  /\ LET n == order[at + 1]
     IN \/ /\ n \in DOMAIN reported \/ child[n] = "running"
           /\ active' = active + (IF n \in DOMAIN reported THEN 0 ELSE 1)
           /\ at' = at + 1
           /\ UNCHANGED <<pc, child, reported, result>>
        \/ /\ n \notin DOMAIN reported /\ child[n] \in {"ok", "failed"}
           /\ reported' = [p \in DOMAIN reported \cup {n} |-> IF p = n THEN child[n] = "ok" ELSE reported[p]]
           /\ child' = [child EXCEPT ![n] = "reaped"]
           /\ at' = at + 1
           /\ UNCHANGED <<pc, active, result>>
        \/ /\ WaitMayFail /\ n \notin DOMAIN reported
           /\ Return("wait failed")
           /\ UNCHANGED <<child, at, active, reported>>
  /\ UNCHANGED <<scenario, capture, order, started, expired>>

(* Faulty terminate: the capture is forgotten. *)
TerminateChildrenOnly ==
  /\ pc = "killing"
  /\ child' = [n \in DOMAIN child |-> IF child[n] = "none" THEN "none" ELSE "reaped"]
  /\ pc' = "returned"
  /\ UNCHANGED <<scenario, capture, order, started, at, active, reported, expired, result>>

(* terminate(): kill and wait for every child and the capture; after a      *)
(* complete round all children are reaped already and only the capture is   *)
(* left.                                                                    *)
Terminate ==
  /\ pc = "killing"
  /\ child' = [n \in DOMAIN child |-> IF child[n] = "none" THEN "none" ELSE "reaped"]
  /\ capture' = IF capture = "none" THEN "none" ELSE "reaped"
  /\ pc' = "returned"
  /\ UNCHANGED <<scenario, order, started, at, active, reported, expired, result>>

Done == pc = "returned" /\ UNCHANGED vars

Step == CheckScenario \/ StartCapture \/ Spawn \/ TryWait \/ RoundEnds \/ Terminate

Next == Step \/ Expire \/ Done \/ \E n \in DOMAIN child : ChildExits(n)

(* The supervising thread runs and time passes; children owe nothing. *)
Spec == Init /\ [][Next]_vars /\ WF_vars(Step) /\ WF_vars(Expire)

-----------------------------------------------------------------------------
(* Properties *)

(* When run() has returned, every process it started, the capture included, *)
(* is ended and reaped, unless try_wait itself failed; a scenario that is   *)
(* refused starts nothing.                                                  *)
NothingLeftRunning ==
  pc = "returned" /\ result # "wait failed" =>
    /\ \A n \in DOMAIN child : child[n] \in {"none", "reaped"}
    /\ capture # "running"
    /\ result = "invalid" => \A n \in DOMAIN child : child[n] = "none"

(* A process is started only after those it names in start_after, and the   *)
(* run succeeds only if every process was started, ended by itself, and     *)
(* succeeded or was allowed to fail.                                        *)
OrderAndVerdict ==
  /\ \A n \in DOMAIN child : child[n] # "none" => \A d \in Find(scenario, n).start_after : child[d] # "none"
  /\ result = "ok" =>
       \A n \in DOMAIN child : n \in DOMAIN reported /\ (reported[n] \/ Allowed(n))

=============================================================================
