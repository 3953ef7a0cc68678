----------------------------- MODULE Benchmark ------------------------------
(***************************************************************************)
(* tcpform perf: benchmark() runs the protocol `iterations` times on `jobs`*)
(* worker threads that share a counter and a vector of samples, then       *)
(* summarises the samples.                                                 *)
(***************************************************************************)
EXTENDS Integers, Sequences, FiniteSets

CONSTANTS
  Configs,    \* PerformanceConfig: [iterations, warmup, jobs, duration, deadline, plan_ok]
  Durations   \* run durations, in model microseconds

VARIABLES
  config,   \* the configuration, fixed
  warmed,   \* warm-up runs done
  pc,       \* "warmup", "measure" or "returned"
  next,     \* the shared counter
  lock,     \* the worker holding the samples mutex, or 0
  worker,   \* where each worker is: check, claim, lock, run, exit, err
  samples,  \* Vec<RunSample>: [us, success]
  late,     \* stop_at has passed
  joined,   \* workers joined by the main thread
  result    \* what benchmark() returned: nothing yet, an error or the report

vars == <<config, warmed, pc, next, lock, worker, samples, late, joined, result>>

Threads(c) == 1 .. IF c.jobs < c.iterations THEN c.jobs ELSE c.iterations

Init ==
  /\ config \in Configs
  /\ warmed = 0 /\ pc = "warmup" /\ next = 0 /\ lock = 0 /\ worker = <<>>
  /\ samples = <<>> /\ late = FALSE /\ joined = 0 /\ result = [tag |-> "none"]

Return(r) == pc' = "returned" /\ result' = r

(* The configuration checks, the warm-up runs and the spawn of the workers. *)
Start ==
  /\ pc = "warmup"
  /\ \/ /\ config.iterations = 0 \/ config.jobs = 0 \/ (warmed < config.warmup /\ ~config.plan_ok)
        /\ Return([tag |-> "err"])
        /\ UNCHANGED <<warmed, worker>>
     \/ /\ config.iterations > 0 /\ config.jobs > 0 /\ warmed < config.warmup /\ config.plan_ok
        /\ warmed' = warmed + 1
        /\ UNCHANGED <<pc, worker, result>>
     \/ /\ config.iterations > 0 /\ config.jobs > 0 /\ warmed = config.warmup
        /\ pc' = "measure"
        /\ worker' = [w \in Threads(config) |-> "check"]
        /\ UNCHANGED <<warmed, result>>
  /\ UNCHANGED <<config, next, lock, samples, late, joined>>

Goto(w, label) == worker' = [worker EXCEPT ![w] = label]

(* The duration of the measurement is over. *)
Expire ==
  /\ pc = "measure" /\ config.duration /\ ~late
  /\ late' = TRUE
  /\ UNCHANGED <<config, warmed, pc, next, lock, worker, samples, joined, result>>

(* Faulty check: a late worker leaves even when nothing was claimed. *)
CheckAlways(w) ==
  /\ pc \in {"measure", "returned"} /\ worker[w] = "check"
  /\ Goto(w, IF late THEN "exit" ELSE "claim")
  /\ UNCHANGED <<config, warmed, pc, next, lock, samples, late, joined, result>>

(* if next.load() > 0 && now >= deadline { break } *)
Check(w) ==
  /\ pc \in {"measure", "returned"} /\ worker[w] = "check"
  /\ Goto(w, IF next > 0 /\ late THEN "exit" ELSE "claim")
  /\ UNCHANGED <<config, warmed, pc, next, lock, samples, late, joined, result>>

(* let index = next.fetch_add(1); if index >= iterations { break } *)
Claim(w) ==
  /\ worker[w] = "claim"
  /\ next' = next + 1
  /\ Goto(w, IF next >= config.iterations THEN "exit" ELSE "lock")
  /\ UNCHANGED <<config, warmed, pc, lock, samples, late, joined, result>>

(* samples.lock(): the receiver of push() is evaluated before its argument. *)
Lock(w) ==
  /\ worker[w] = "lock" /\ lock = 0
  /\ lock' = w
  /\ Goto(w, "run")
  /\ UNCHANGED <<config, warmed, pc, next, samples, late, joined, result>>

(* run_once: a plan error ends the worker, a run is one sample; the guard   *)
(* is dropped at the end of the statement.                                  *)
RunOnce(w) ==
  /\ worker[w] = "run"
  /\ lock' = 0
  /\ \/ /\ ~config.plan_ok
        /\ Goto(w, "err")
        /\ UNCHANGED samples
     \/ /\ config.plan_ok
        /\ \E us \in Durations, ok \in BOOLEAN : samples' = Append(samples, [us |-> us, success |-> ok])
        /\ Goto(w, "check")
  /\ UNCHANGED <<config, warmed, pc, next, late, joined, result>>

Sorted(s) ==
  CHOOSE t \in [DOMAIN s -> Durations] :
    /\ \A i, j \in DOMAIN t : i < j => t[i] <= t[j]
    /\ \A d \in Durations : Cardinality({i \in DOMAIN s : s[i].us = d}) = Cardinality({i \in DOMAIN t : t[i] = d})

(* distribution(): the element of rank ceil(n * p / 100), counted from 1. *)
Percentile(sorted, p) ==
  LET rank == (Len(sorted) * p + 99) \div 100
  IN sorted[IF rank = 0 THEN 1 ELSE rank]

(* The metrics of the report. *)
Metrics(s) ==
  LET sorted == Sorted(s)
  IN [tag |-> "report", runs |-> Len(s),
      successful |-> Cardinality({i \in DOMAIN s : s[i].success}),
      misses |-> Cardinality({i \in DOMAIN s : s[i].us > config.deadline}),
      min |-> sorted[1], max |-> sorted[Len(s)],
      p50 |-> Percentile(sorted, 50), p95 |-> Percentile(sorted, 95), p99 |-> Percentile(sorted, 99)]

(* for worker in workers { worker.join()?? } and the report. *)
Join ==
  /\ pc = "measure"
  /\ \/ /\ joined < Len(worker)
        /\ \/ worker[joined + 1] = "exit" /\ joined' = joined + 1 /\ UNCHANGED <<pc, result>>
           \/ worker[joined + 1] = "err" /\ Return([tag |-> "err"]) /\ UNCHANGED joined
     \/ /\ joined = Len(worker)
        /\ Return(IF samples = <<>> THEN [tag |-> "not a number"] ELSE Metrics(samples))
        /\ UNCHANGED joined
  /\ UNCHANGED <<config, warmed, next, lock, worker, samples, late>>

Done == pc = "returned" /\ (\A w \in DOMAIN worker : worker[w] \in {"exit", "err"}) /\ UNCHANGED vars

Next ==
  \/ Start \/ Expire \/ Join \/ Done
  \/ \E w \in DOMAIN worker : Check(w) \/ Claim(w) \/ Lock(w) \/ RunOnce(w)

Spec == Init /\ [][Next]_vars

-----------------------------------------------------------------------------
(* Properties *)

(* The nearest-rank definition: the least sample that at least p percent of *)
(* the samples do not exceed.                                               *)
NearestRank(s, p) ==
  CHOOSE v \in {s[i].us : i \in DOMAIN s} :
    /\ 100 * Cardinality({i \in DOMAIN s : s[i].us <= v}) >= p * Len(s)
    /\ \A u \in {s[i].us : i \in DOMAIN s} :
         u < v => 100 * Cardinality({i \in DOMAIN s : s[i].us <= u}) < p * Len(s)

(* However the workers interleave, a report rests on at least one sample    *)
(* (success_rate is never 0/0), on all iterations when no duration cuts the *)
(* measurement short and never on more, and its percentiles are those of    *)
(* the nearest-rank definition.                                             *)
ReportIsFounded ==
  pc = "returned" /\ result.tag # "err" =>
    /\ result.tag = "report"
    /\ result.runs >= 1 /\ result.runs <= config.iterations
    /\ ~config.duration => result.runs = config.iterations
    /\ result.p50 = NearestRank(samples, 50) /\ result.p95 = NearestRank(samples, 95)

=============================================================================
