---------------------------- MODULE FuzzCampaign ----------------------------
(***************************************************************************)
(* native_fuzz: run_campaign mutates the fuzzable sends of a role, runs    *)
(* the mutant, keeps inputs that show new behaviour, and shrinks the first *)
(* fuzzable send of every new crash or hang by delta debugging.            *)
(***************************************************************************)
EXTENDS Integers, Sequences, FiniteSets

CONSTANTS
  Bytes,     \* the byte values
  Targets,   \* the programs under test (see Observe)
  Seeds,     \* the sends of the unmutated protocol: sequences of byte strings
  MaxInput,  \* config.max_input_bytes
  Iterations, StopOnCrash

VARIABLES
  target, seed,  \* fixed
  pc,            \* "mutate", "run", "minimize" or "done"
  iteration,     \* for iteration in 1..=iterations
  mutant,        \* the sends of the current mutant: <<[bytes, loop], ...>>
  seen,          \* states: signatures observed
  code,          \* code coverage observed
  corpus,        \* CorpusEntry: [iteration, signature]
  failures,      \* failure signatures
  findings,      \* [outcome, original, minimized], in order
  shrink,        \* locals of minimize_bytes: [current, granularity, start, runs]
  executions,    \* the report's counter
  calls          \* history: how often the runner was called

vars == <<target, seed, pc, iteration, mutant, seen, code, corpus, failures, findings, shrink, executions, calls>>

(* The target, external: a deterministic program that crashes or hangs on   *)
(* some byte strings, wherever they are sent.                               *)
Observe(t, sends) ==
  LET has(bad) == \E i \in DOMAIN sends : sends[i].bytes \in bad
  IN [outcome |-> IF has(t.crash) THEN "crash" ELSE IF has(t.hang) THEN "hang"
                  ELSE IF has(t.reject) THEN "rejected" ELSE "ok",
      code |-> {Len(sends[i].bytes) : i \in DOMAIN sends}]

Truncated(b) == SubSeq(b, 1, IF Len(b) < MaxInput THEN Len(b) ELSE MaxInput)
Without(b, from, to) == SubSeq(b, 1, from - 1) \o SubSeq(b, to + 1, Len(b))
InsertAt(b, at, x) == SubSeq(b, 1, at - 1) \o <<x>> \o SubSeq(b, at, Len(b))

(* One round of mutate_protocol on send i: flip_bit and boundary replace a  *)
(* byte, then insert, delete, clear, duplicate, splice with another send,   *)
(* or append when there is no other; the result is cut to max_input.        *)
Mutated(sends, i) ==
  LET b == sends[i].bytes
      put(bytes) == [sends EXCEPT ![i].bytes = Truncated(bytes)]
  IN {put([b EXCEPT ![at] = x]) : at \in DOMAIN b, x \in Bytes}
       \cup (IF Len(b) < MaxInput THEN {put(InsertAt(b, at, x)) : at \in 1 .. Len(b) + 1, x \in Bytes} ELSE {})
       \cup {put(Without(b, at, at)) : at \in DOMAIN b}
       \cup {put(<<>>)}
       \cup {[put(b) EXCEPT ![i].loop = IF @ + 1 < 2 THEN 2 ELSE @ + 1]}
       \cup (IF Len(sends) > 1 THEN {put(sends[j].bytes) : j \in DOMAIN sends}
             ELSE {put(Append(b, x)) : x \in Bytes})

Init ==
  /\ target \in Targets /\ seed \in Seeds
  /\ pc = "mutate" /\ iteration = 1
  /\ mutant = [i \in DOMAIN seed |-> [bytes |-> seed[i], loop |-> 1]]
  /\ seen = {} /\ code = {} /\ corpus = <<>> /\ failures = {} /\ findings = <<>>
  /\ shrink = <<>> /\ executions = 0 /\ calls = 0

(* mutate_protocol: one to three mutations, at most one for each send. *)
MutateProtocol ==
  /\ pc = "mutate" /\ iteration <= Iterations
  /\ LET original == [i \in DOMAIN seed |-> [bytes |-> seed[i], loop |-> 1]]
         after1 == UNION {Mutated(original, i) : i \in DOMAIN original}
         after2 == UNION {UNION {Mutated(m, i) : i \in DOMAIN m} : m \in after1}
     IN mutant' \in IF Len(seed) > 1 THEN after1 \cup after2 ELSE after1
  /\ pc' = "run"
  /\ UNCHANGED <<target, seed, iteration, seen, code, corpus, failures, findings, shrink, executions, calls>>

(* The end of the iteration: stop on a crash if asked to. *)
Advance(outcome) ==
  /\ iteration' = iteration + 1
  /\ pc' = IF StopOnCrash /\ outcome = "crash" THEN "done" ELSE "mutate"

(* runner(&mutant), the coverage bookkeeping, and the start of a            *)
(* minimization for a failure with a new signature.                         *)
Run ==
  /\ pc = "run"
  /\ LET o == Observe(target, mutant)
         signature == <<o, mutant>>
         failing == o.outcome \in {"crash", "hang"} /\ o.outcome \notin failures
         first == mutant[1].bytes
     IN /\ seen' = seen \cup {signature}
        /\ code' = code \cup o.code
        /\ corpus' = IF signature \notin seen \/ ~(o.code \subseteq code)
                       THEN Append(corpus, [iteration |-> iteration, signature |-> signature]) ELSE corpus
        /\ failures' = IF failing THEN failures \cup {o.outcome} ELSE failures
        /\ \/ /\ failing /\ first # <<>>
              /\ pc' = "minimize"
              /\ shrink' = [current |-> first, granularity |-> 2, start |-> 0, runs |-> 0]
              /\ UNCHANGED <<findings, iteration>>
           \/ /\ failing /\ first = <<>>
              /\ findings' = Append(findings, [outcome |-> o.outcome, original |-> mutant, minimized |-> <<>>])
              /\ Advance(o.outcome)
              /\ UNCHANGED shrink
           \/ /\ ~failing
              /\ Advance(o.outcome)
              /\ UNCHANGED <<findings, shrink>>
  /\ executions' = executions + 1 /\ calls' = calls + 1
  /\ UNCHANGED <<target, seed, mutant>>

Preserves(candidate, outcome) == Observe(target, [mutant EXCEPT ![1].bytes = candidate]).outcome = outcome


(* minimize_bytes has nothing left to try. *)
Finished(s) == Len(s.current) < 2 \/ (s.start >= Len(s.current) /\ s.granularity >= Len(s.current))

(* One round of minimize_bytes: try without the chunk at start, or refine. *)
Try(s, outcome) ==
  LET chunk == (Len(s.current) + s.granularity - 1) \div s.granularity
      end == IF s.start + chunk < Len(s.current) THEN s.start + chunk ELSE Len(s.current)
      candidate == Without(s.current, s.start + 1, end)
  IN IF s.start >= Len(s.current)
       THEN [s EXCEPT !.start = 0, !.granularity = IF 2 * @ < Len(s.current) THEN 2 * @ ELSE Len(s.current)]
     ELSE IF Preserves(candidate, outcome)
       THEN [current |-> candidate, granularity |-> 2, start |-> 0, runs |-> s.runs + 1]
       ELSE [s EXCEPT !.start = @ + chunk, !.runs = @ + 1]

Minimize ==
  LET outcome == Observe(target, mutant).outcome
      after == Try(shrink, outcome)
  IN /\ pc = "minimize"
     /\ \/ /\ Finished(shrink)
           /\ findings' = Append(findings, [outcome |-> outcome, original |-> mutant, minimized |-> shrink.current])
           /\ executions' = executions + shrink.runs
           /\ shrink' = <<>>
           /\ Advance(outcome)
           /\ UNCHANGED calls
        \/ /\ ~Finished(shrink)
           /\ shrink' = after
           /\ calls' = calls + (after.runs - shrink.runs)
           /\ UNCHANGED <<findings, executions, iteration, pc>>
     /\ UNCHANGED <<target, seed, mutant, seen, code, corpus, failures>>

Done == (pc = "done" \/ (pc = "mutate" /\ iteration > Iterations)) /\ UNCHANGED vars

Next == MutateProtocol \/ Run \/ Minimize \/ Done

Spec == Init /\ [][Next]_vars

-----------------------------------------------------------------------------
(* Properties *)


(* No mutated send grows past max_input_bytes, and the report's executions  *)
(* are the calls of the runner, minimization included.                      *)
CampaignIsAccounted ==
  /\ \A i \in DOMAIN mutant : mutant[i].bytes # seed[i] => Len(mutant[i].bytes) <= MaxInput
  /\ pc \in {"mutate", "done"} => executions = calls

=============================================================================
