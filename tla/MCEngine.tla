------------------------------ MODULE MCEngine ------------------------------
(* Instances of Engine for TLC: small protocols of two or three roles. *)
EXTENDS Engine, StepGraph

(* A step with no policy at all; the protocols below override what they need. *)
Plain(r) ==
  [role |-> r, act |-> "local", emits |-> 1, when |-> {"true"}, loop |-> 1, retry |-> 0,
   on_timeout |-> FALSE, retry_on |-> {}, retransmit |-> 0, from_state |-> "*",
   to_state |-> "-", delay |-> 0, timeout |-> 0, backoff |-> 0, faults |-> {}, panics |-> FALSE]

(* The relations plan() accepts: acyclic together with the implicit chaining of *)
(* each role's steps.                                                          *)
Chained(g) ==
  [s \in Steps |-> g[s] \cup
     UNION {{StepsOf[r][i - 1] : i \in {j \in DOMAIN StepsOf[r] : j > 1 /\ StepsOf[r][j] = s}} :
              r \in Roles}]

CrossRole == {g \in [Steps -> SUBSET Steps] :
                \A s \in Steps : \A d \in g[s] : Step[d].role # Step[s].role}

AcyclicGraphs == {g \in CrossRole : Acyclic(Chained(g))}

-----------------------------------------------------------------------------
(* Two roles of two steps.  The client sends, then receives with retransmission  *)
(* and retry; the server's steps can be skipped, looped and guarded by states.   *)
TwoRoles == {"client", "server"}
TwoOrder == <<"client", "server">>
TwoStepsOf == [client |-> <<"syn", "wait_ack">>, server |-> <<"wait_syn", "reply">>]

TwoStep ==
  [syn      |-> [Plain("client") EXCEPT !.act = "send", !.delay = 1, !.faults = {"transport"},
                   !.to_state = "open"],
   wait_ack |-> [Plain("client") EXCEPT !.act = "recv", !.faults = {"timeout"}, !.timeout = 1,
                   !.retransmit = 1, !.retry = 1, !.on_timeout = TRUE, !.from_state = "open"],
   wait_syn |-> [Plain("server") EXCEPT !.act = "recv", !.faults = {"timeout"},
                   !.when = {"true", "false"}, !.to_state = "open"],
   reply    |-> [Plain("server") EXCEPT !.act = "send_raw", !.emits = 2, !.from_state = "open"]]

(* The same protocol where execution may panic. *)
PanicStep == [s \in DOMAIN TwoStep |->
                [TwoStep[s] EXCEPT !.panics = s \in {"wait_syn", "wait_ack"}, !.retransmit = 0]]

-----------------------------------------------------------------------------
(* Three roles, one of them external: its step counts as done from the start.  *)
(* The client loops and retries a guarded step, sends two fragments and resends *)
(* both when the answer does not come.                                          *)
ThreeRoles == {"client", "server", "peer"}
ThreeStepsOf == [client |-> <<"probe", "burst", "await">>, server |-> <<"collect">>,
                 peer |-> <<"remote">>]

ThreeStep ==
  [probe   |-> [Plain("client") EXCEPT !.when = {"true", "false", "error"}, !.to_state = "open",
                  !.loop = 2, !.faults = {"assertion"}, !.retry = 1, !.retry_on = {"assertion"},
                  !.backoff = 1],
   burst   |-> [Plain("client") EXCEPT !.act = "send_raw", !.emits = 2, !.from_state = "open",
                  !.delay = 1, !.faults = {"transport", "timeout"}],
   await   |-> [Plain("client") EXCEPT !.act = "recv", !.retransmit = 1, !.timeout = 1,
                  !.faults = {"timeout"}],
   collect |-> [Plain("server") EXCEPT !.act = "recv", !.retransmit = 1, !.retry = 1,
                  !.faults = {"timeout", "resource_limit"}],
   remote  |-> Plain("peer")]

(* burst waits for the external role; collect for nothing, for probe or for burst. *)
ThreeGraphs ==
  {[probe |-> {}, burst |-> {"remote"}, await |-> {}, collect |-> c, remote |-> {}] :
     c \in {{}, {"probe"}, {"burst"}}}
=============================================================================
