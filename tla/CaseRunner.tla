----------------------------- MODULE CaseRunner -----------------------------
(***************************************************************************)
(* tcpform test: cmd_test selects the cases of every suite by protocol,    *)
(* name, tag and shard and hands each suite to run_cases_parallel, whose   *)
(* scoped workers claim indexes from a shared counter and fill one slot    *)
(* each.  A build matrix runs the command once for each shard.             *)
(***************************************************************************)
EXTENDS Integers, Sequences, FiniteSets

CONSTANTS
  Suites,   \* the suites of the file: <<[protocol, known, cases], ...>>
  Options   \* the command lines: [filter, pattern, tags, jobs, shards]

VARIABLES
  opts,     \* the command line, fixed
  shard,    \* the shard (from 0) the current invocation runs
  suite,    \* index of the suite in the loop over all_cases
  pc,       \* "suite", "workers" or "done"
  selected, \* the cases of the suite this shard runs
  next,     \* the workers' counter
  slots,    \* one result for each selected case, or None
  claim,    \* what each worker runs: an index from 0, Free or Exited
  counted,  \* candidate_index
  results,  \* json_results of this invocation
  exits     \* history: for every finished invocation, its results and verdict

vars == <<opts, shard, suite, pc, selected, next, slots, claim, counted, results, exits>>

None == [case |-> "-", kind |-> "-", passed |-> FALSE]
Free == -1
Exited == -2

FlagKeys == {"recv_flags", "sent_flags"}

(* check_case_asserts: the (role, key) pairs that fail.  Flags must be      *)
(* included, other keys equal; an unknown role or key is a failure.         *)
CheckCaseAsserts(final, asserts) ==
  {<<r, k>> \in UNION {{r} \X DOMAIN asserts[r] : r \in DOMAIN asserts} :
     ~ /\ r \in DOMAIN final
       /\ IF k \in FlagKeys
            THEN asserts[r][k] \subseteq final[r][k]
            ELSE k \in DOMAIN final[r] /\ final[r][k] = asserts[r][k]}

(* run_case: the outcome and failure kind of one case. *)
RunCase(c) ==
  LET failures == CheckCaseAsserts(c.final, c.asserts)
      kind == IF c.run = "ok" THEN (IF failures = {} THEN "-" ELSE "assertion")
              ELSE IF c.run = "plan" THEN "validation" ELSE c.run
  IN [case |-> c.name, kind |-> kind, passed |-> (kind = "-") = (c.expect = "pass")]

Matches(o, c) ==
  /\ o.pattern = {} \/ c.name \in o.pattern
  /\ o.tags = {} \/ o.tags \cap c.tags # {}

(* The filter closure of cmd_test: matching cases are numbered across the   *)
(* suites, a shard keeps every shards-th of them.                           *)
Select(o, s, from) ==
  LET cs == Suites[s].cases
      nth(i) == from + Cardinality({j \in 1 .. i - 1 : Matches(o, cs[j])})
      kept == {i \in DOMAIN cs : Matches(o, cs[i]) /\ (nth(i) % o.shards) = shard}
  IN [n \in 1 .. Cardinality(kept) |->
        cs[CHOOSE i \in kept : Cardinality({j \in kept : j < i}) = n - 1]]

Threads(o, n) == 1 .. IF n <= 1 \/ o.jobs <= 1 THEN 1 ELSE IF o.jobs < n THEN o.jobs ELSE n

Init ==
  /\ opts \in Options
  /\ shard = 0 /\ suite = 1 /\ pc = "suite"
  /\ selected = <<>> /\ next = 0 /\ slots = <<>> /\ claim = <<>>
  /\ counted = 0 /\ results = <<>> /\ exits = <<>>

(* The invocation ends with a verdict; the matrix goes on to the next shard. *)
Exit(verdict) ==
  /\ exits' = Append(exits, [results |-> results, verdict |-> verdict])
  /\ shard' = shard + 1 /\ suite' = 1 /\ counted' = 0 /\ results' = <<>>
  /\ pc' = IF shard + 1 = opts.shards THEN "done" ELSE "suite"
  /\ UNCHANGED <<opts, selected, next, slots, claim>>

(* One round of the loop over the suites, up to the spawn of the workers. *)
EnterSuite ==
  /\ pc = "suite" /\ suite <= Len(Suites)
  /\ LET chosen == Select(opts, suite, counted)
         wanted == opts.filter \in {"*", Suites[suite].protocol}
         found == Cardinality({i \in DOMAIN Suites[suite].cases : Matches(opts, Suites[suite].cases[i])})
     IN \/ /\ ~wanted \/ chosen = <<>>
           /\ suite' = suite + 1
           /\ counted' = counted + IF wanted THEN found ELSE 0
           /\ UNCHANGED <<opts, shard, pc, selected, next, slots, claim, results, exits>>
        \/ /\ wanted /\ chosen # <<>> /\ ~Suites[suite].known
           /\ Exit("err")
        \/ /\ wanted /\ chosen # <<>> /\ Suites[suite].known
           /\ counted' = counted + found
           /\ selected' = chosen /\ next' = 0 /\ pc' = "workers"
           /\ slots' = [i \in DOMAIN chosen |-> None]
           /\ claim' = [w \in Threads(opts, Len(chosen)) |-> Free]
           /\ UNCHANGED <<opts, shard, suite, results, exits>>

(* next.fetch_add(1); past the end the worker leaves its loop. *)
Claim(w) ==
  /\ pc = "workers" /\ claim[w] = Free
  /\ next' = next + 1
  /\ claim' = [claim EXCEPT ![w] = IF next < Len(selected) THEN next ELSE Exited]
  /\ UNCHANGED <<opts, shard, suite, pc, selected, slots, counted, results, exits>>

(* Faulty store: results are pushed as they come. *)
StoreByFinish(w) ==
  /\ pc = "workers" /\ claim[w] >= 0
  /\ LET free == CHOOSE i \in DOMAIN slots : slots[i] = None /\ \A j \in 1 .. i - 1 : slots[j] # None
     IN slots' = [slots EXCEPT ![free] = RunCase(selected[claim[w] + 1])]
  /\ claim' = [claim EXCEPT ![w] = Free]
  /\ UNCHANGED <<opts, shard, suite, pc, selected, next, counted, results, exits>>

(* The case has run and its slot is filled under the lock. *)
Store(w) ==
  /\ pc = "workers" /\ claim[w] >= 0
  /\ slots' = [slots EXCEPT ![claim[w] + 1] = RunCase(selected[claim[w] + 1])]
  /\ claim' = [claim EXCEPT ![w] = Free]
  /\ UNCHANGED <<opts, shard, suite, pc, selected, next, counted, results, exits>>

(* The scope ends when all workers have left; the results are reported. *)
LeaveSuite ==
  /\ pc = "workers" /\ \A w \in DOMAIN claim : claim[w] = Exited
  /\ results' = results \o slots
  /\ suite' = suite + 1 /\ pc' = "suite"
  /\ UNCHANGED <<opts, shard, selected, next, slots, claim, counted, exits>>

(* After the last suite: nothing matched, a case failed, or all passed. *)
Report ==
  /\ pc = "suite" /\ suite > Len(Suites)
  /\ Exit(IF results # <<>> /\ \A i \in DOMAIN results : results[i].passed THEN "ok" ELSE "err")

Done == pc = "done" /\ UNCHANGED vars

Next == EnterSuite \/ LeaveSuite \/ Report \/ Done \/ \E w \in DOMAIN claim : Claim(w) \/ Store(w)

Spec == Init /\ [][Next]_vars

-----------------------------------------------------------------------------
(* Properties *)

Concat(ss) ==
  LET upto[n \in 0 .. Len(ss)] == IF n = 0 THEN <<>> ELSE upto[n - 1] \o ss[n]
  IN upto[Len(ss)]

Wanted(s) == opts.filter \in {"*", Suites[s].protocol}
Resolvable == \A s \in DOMAIN Suites :
  Wanted(s) /\ ~Suites[s].known => \A i \in DOMAIN Suites[s].cases : ~Matches(opts, Suites[s].cases[i])
AllCases == Concat([s \in DOMAIN Suites |-> IF Wanted(s) THEN Suites[s].cases ELSE <<>>])
Candidates == SelectSeq(AllCases, LAMBDA c : Matches(opts, c))

(* However the claims of the workers interleave, an invocation reports its  *)
(* cases in declaration order, each with its own verdict, no slot is left   *)
(* empty, and it succeeds exactly if it ran a case and all went as expected *)
(* (run_cases_parallel: "preserving declaration order").                    *)
ReportIsOrdered ==
  \A e \in DOMAIN exits :
    Resolvable =>
      LET mine == {i \in DOMAIN Candidates : ((i - 1) % opts.shards) = e - 1}
          nth(n) == CHOOSE i \in mine : Cardinality({j \in mine : j < i}) = n - 1
      IN /\ exits[e].results = [n \in 1 .. Cardinality(mine) |-> RunCase(Candidates[nth(n)])]
         /\ (exits[e].verdict = "ok") =
              (mine # {} /\ \A i \in mine : RunCase(Candidates[i]).passed)

(* A matrix that runs every shard runs every matching case exactly once     *)
(* (cmd_test numbers the candidates across the suites).                     *)
EveryCaseOnce ==
  pc = "done" /\ Resolvable =>
    LET ran == Concat([e \in DOMAIN exits |-> exits[e].results])
    IN \A i \in DOMAIN Candidates :
         Cardinality({n \in DOMAIN ran : ran[n] # None /\ ran[n].case = Candidates[i].name}) = 1

=============================================================================
