--------------------------- MODULE MCSupervision ----------------------------
(***************************************************************************)
(* Instances of the modules that supervise threads, processes and tasks:   *)
(* JobStore, CaseRunner, Benchmark, FuzzCampaign, Orchestrate, PluginCall  *)
(* and Proxy.  A behaviour is a behaviour of one of them, the one `which`  *)
(* names; all but JobStore share the variables v1 .. v13, so the state     *)
(* space is the sum of theirs.                                             *)
(***************************************************************************)
EXTENDS JobStore, Sequences, TLC

VARIABLES which, v1, v2, v3, v4, v5, v6, v7, v8, v9, v10, v11, v12, v13

shared == <<v1, v2, v3, v4, v5, v6, v7, v8, v9, v10, v11, v12, v13>>
all == <<which, shared, vars>>

-----------------------------------------------------------------------------
(* The suites are cases blocks that interpret_cases_block reads. *)
D == INSTANCE Interpret
Smoke == [tags |-> D!Arr(<<D!Str("smoke")>>)]
Fails == [expect |-> D!Str("fail")]
Asserts(role, attrs) == <<[name |-> "assert_", labels |-> <<role>>, attrs |-> attrs, blocks |-> <<>>]>>
CaseBlock(name, attrs, asserts) ==
  [name |-> "case", labels |-> <<name>>, attrs |-> attrs, blocks |-> asserts]
SuiteBlock(protocol, cases) ==
  [name |-> "cases", labels |-> <<protocol>>, attrs |-> <<>>, blocks |-> cases]

(* A suite with the outcome run_with_vars has for each case.  All roles end *)
(* in FinalState.                                                           *)
FinalState == [client |-> [recv_flags |-> {"SYN", "ACK"}, sent_flags |-> {}, send_count |-> 1]]
Expected(v) == IF v.t = "arr" THEN {v.v[i].v : i \in DOMAIN v.v} ELSE v.v
Suite(block, runs) ==
  LET s == D!InterpretCasesBlock(block)[1]
      case(c, run) ==
        [name |-> c.name, tags |-> {c.tags[i] : i \in DOMAIN c.tags}, run |-> run, final |-> FinalState,
         asserts |-> [r \in DOMAIN c.asserts |->
                        [k \in DOMAIN c.asserts[r] |-> Expected(c.asserts[r][k])]],
         expect |-> c.outcome]
  IN [protocol |-> s.protocol, known |-> s.protocol # "gone",
      cases |-> [i \in DOMAIN s.cases |-> case(s.cases[i], runs[i])]]

(* Two suites of known protocols; four cases match, one of each outcome. *)
TestSuites ==
  <<Suite(SuiteBlock("p",
            <<CaseBlock("a", Smoke, Asserts("client", [recv_flags |-> D!Arr(<<D!Str("SYN")>>)])),
              CaseBlock("b", <<>>, <<>>), CaseBlock("c", Smoke @@ Fails, <<>>),
              CaseBlock("d", Smoke, Asserts("server", [send_count |-> D!Num(1)]))>>),
          <<"ok", "ok", "timeout", "ok">>),
    Suite(SuiteBlock("q",
            <<CaseBlock("e", Smoke, Asserts("client", [send_count |-> D!Num(1)])),
              CaseBlock("f", Smoke @@ Fails, <<>>)>>), <<"ok", "plan">>),
    Suite(SuiteBlock("gone", <<CaseBlock("g", [tags |-> D!Arr(<<D!Str("rare")>>)], <<>>)>>), <<"ok">>)>>

TestOptions ==
  [filter : {"*"}, pattern : {{}, {"a", "e"}}, tags : {{"smoke"}}, jobs : {1, 2}, shards : {1, 2}]
    \cup [filter : {"q", "gone"}, pattern : {{}}, tags : {{}}, jobs : {3}, shards : {1}]

C == INSTANCE CaseRunner WITH Suites <- TestSuites, Options <- TestOptions,
       opts <- v1, shard <- v2, suite <- v3, pc <- v4, selected <- v5, next <- v6, slots <- v7,
       claim <- v8, counted <- v9, results <- v10, exits <- v11

BenchConfigs ==
  [iterations : {3}, warmup : {0}, jobs : {2}, duration : BOOLEAN, deadline : {1}, plan_ok : {TRUE}]
    \cup [iterations : {0, 2}, warmup : {0, 1}, jobs : {0, 2}, duration : {FALSE}, deadline : {1}, plan_ok : BOOLEAN]

B == INSTANCE Benchmark WITH Configs <- BenchConfigs, Durations <- {1, 2},
       config <- v1, warmed <- v2, pc <- v3, next <- v4, lock <- v5, worker <- v6, samples <- v7,
       late <- v8, joined <- v9, result <- v10

FuzzTargets ==
  [crash : {{<<1, 0, 1>>, <<1, 1>>}}, hang : {{}, {<<>>, <<0, 0>>}}, reject : {{<<0>>}}]

F == INSTANCE FuzzCampaign WITH Bytes <- {0, 1}, Targets <- FuzzTargets,
       Seeds <- {<<<<0, 0, 1>>>>, <<<<1>>, <<0>>>>}, MaxInput <- 3, Iterations <- 2, StopOnCrash <- FALSE,
       target <- v1, seed <- v2, pc <- v3, iteration <- v4, mutant <- v5, seen <- v6, code <- v7,
       corpus <- v8, failures <- v9, findings <- v10, shrink <- v11, executions <- v12, calls <- v13

Process(n, after, allow) ==
  [name |-> n, command |-> TRUE, node |-> "local", roles |-> {n}, env_ok |-> TRUE, cwd_ok |-> TRUE,
   start_after |-> after, allow_failure |-> allow]
Scenario(ps, capture) ==
  [processes |-> ps, nodes |-> <<[name |-> "far", executor |-> "ssh", host |-> "safe"]>>,
   links |-> {<<"local", "far">>}, timeout |-> 1, capture |-> capture]

(* A chain declared backwards, an independent process, and refused forms. *)
OrchestrateScenarios ==
  LET chain == <<Process("c", {"b"}, FALSE), Process("b", {"a"}, TRUE), Process("a", {}, FALSE)>>
  IN {Scenario(chain, "on"), Scenario(<<Process("a", {}, FALSE), Process("b", {}, TRUE)>>, "none"),
      Scenario(<<Process("a", {"b"}, FALSE), Process("b", {"a"}, FALSE)>>, "on"),
      Scenario(<<Process("a", {"z"}, FALSE)>>, "on"), Scenario(<<>>, "none"),
      Scenario(<<[Process("a", {}, FALSE) EXCEPT !.node = "far", !.cwd_ok = FALSE]>>, "none")}

O == INSTANCE Orchestrate WITH Scenarios <- OrchestrateScenarios, WaitMayFail <- TRUE,
       scenario <- v1, pc <- v2, child <- v3, capture <- v4, order <- v5, started <- v6, at <- v7,
       active <- v8, reported <- v9, expired <- v10, result <- v11

AllPlugins ==
  [manifest : {"valid"}, declared : {TRUE}, shares : BOOLEAN, answer : {"result", "bad json"}, request : {1, 3}]
    \cup [manifest : {"valid", "bad timeout"}, declared : {FALSE}, shares : {FALSE}, answer : {"result"}, request : {1}]

G == INSTANCE PluginCall WITH Plugins <- AllPlugins, PipeCapacity <- 2, MaxOutput <- 2, MaxWritten <- 4,
       plugin <- v1, pc <- v2, stdin <- v3, child <- v4, status <- v5, holders <- v6, written <- v7,
       got <- v8, reader <- v9, expired <- v10, result <- v11

ProxyOptions ==
  [downstream_cert : BOOLEAN, downstream_key : {TRUE}, client_cert : {FALSE}, client_key : {FALSE},
   upstream_tls : {TRUE}, server_name : BOOLEAN, capture : {TRUE}]
    \cup [downstream_cert : {FALSE}, downstream_key : {FALSE}, client_cert : {FALSE}, client_key : BOOLEAN,
          upstream_tls : {FALSE}, server_name : {FALSE}, capture : {FALSE}]

P == INSTANCE Proxy WITH Options <- ProxyOptions, Chunks <- 2,
       opts <- v1, pc <- v2, offered <- v3, source <- v4, sink <- v5, pump <- v6, copied <- v7,
       log <- v8, result <- v9

-----------------------------------------------------------------------------
Rest9 == v10 = 0 /\ v11 = 0 /\ v12 = 0 /\ v13 = 0
Rest11 == v12 = 0 /\ v13 = 0
Keep9 == UNCHANGED <<which, vars, v10, v11, v12, v13>>
Keep10 == UNCHANGED <<which, vars, v11, v12, v13>>
Keep11 == UNCHANGED <<which, vars, v12, v13>>

Rest0 == v1 = 0 /\ v2 = 0 /\ v3 = 0 /\ v4 = 0 /\ v5 = 0 /\ v6 = 0 /\ v7 = 0 /\ v8 = 0 /\ v9 = 0 /\ Rest9
(* No job and no server: nothing of JobStore is enabled. *)
NoServer ==
  /\ rows = [j \in Jobs |-> Absent] /\ clock = 0 /\ server = "none"
  /\ wpc = [w \in Workers |-> "idle"] /\ wjob = [w \in Workers |-> NoJob] /\ crashes = 0 /\ faults = 0

MCInit ==
  \/ which = "jobs" /\ Init /\ Rest0
  \/ /\ NoServer
     /\ \/ which = "cases" /\ C!Init /\ Rest11
        \/ which = "bench" /\ B!Init /\ v11 = 0 /\ Rest11
        \/ which = "fuzz" /\ F!Init
        \/ which = "orchestrate" /\ O!Init /\ Rest11
        \/ which = "plugin" /\ G!Init /\ Rest11
        \/ which = "proxy" /\ P!Init /\ Rest9

MCNext ==
  \/ which = "jobs" /\ Next /\ UNCHANGED <<which, shared>>
  \/ which = "cases" /\ C!Next /\ Keep11
  \/ which = "bench" /\ B!Next /\ Keep10
  \/ which = "fuzz" /\ F!Next /\ UNCHANGED <<which, vars>>
  \/ which = "orchestrate" /\ O!Next /\ Keep11
  \/ which = "plugin" /\ G!Next /\ Keep11
  \/ which = "proxy" /\ P!Next /\ Keep9

(* The fairness of JobStore, Orchestrate, PluginCall and Proxy. *)
MCFairness ==
  /\ Fairness
  /\ WF_all(which = "orchestrate" /\ O!Step /\ Keep11) /\ WF_all(which = "orchestrate" /\ O!Expire /\ Keep11)
  /\ WF_all(which = "plugin" /\ G!Caller /\ Keep11) /\ WF_all(which = "plugin" /\ G!Read /\ Keep11)
  /\ WF_all(which = "plugin" /\ G!Expire /\ Keep11)
  /\ WF_all(which = "proxy" /\ (P!CheckOptions \/ P!SetUp \/ P!Await) /\ Keep9)
  /\ \A d \in {"down_up", "up_down"} : WF_all(which = "proxy" /\ P!Pump(d) /\ Keep9)

MCSpec == MCInit /\ [][MCNext]_all /\ MCFairness

-----------------------------------------------------------------------------
(* The properties of the instances, each for the behaviours of its module;  *)
(* those of JobStore are OneOwner, CancelWins, PruneKeepsYoung,             *)
(* ImplementsLifecycle and QueuedJobsEnd.                                   *)

(* CaseRunner: run_cases_parallel reports in order, with the right verdict, *)
(* and the shards of cmd_test partition the matching cases.                 *)
CasesAreOrdered == which = "cases" => C!ReportIsOrdered /\ C!EveryCaseOnce
(* Benchmark: the report of benchmark() rests on the samples it should. *)
BenchIsFounded == which = "bench" => B!ReportIsFounded
(* Orchestrate: run() leaves no process behind, in the declared order. *)
NothingLeftRunning == which = "orchestrate" => O!NothingLeftRunning /\ O!OrderAndVerdict
(* PluginCall: invoke_plugin accepts whole answers of ended processes only. *)
AnswerIsWhole == which = "plugin" => G!AnswerIsWhole
(* Proxy: proxy_bidirectional forwards all bytes before a half-close. *)
RelayIsComplete == which = "proxy" => P!RelayIsComplete

Returned == which \in {"orchestrate", "plugin", "proxy"} /\ v2 = "returned"

=============================================================================
