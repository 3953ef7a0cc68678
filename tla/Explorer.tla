------------------------------ MODULE Explorer ------------------------------
(***************************************************************************)
(* model_check.rs: breadth-first exploration of the schedules of a planned *)
(* protocol, with its state invariants, up to max_states.  Steps are their *)
(* positions in plan order; every turn of the while loop is one action.    *)
(***************************************************************************)
EXTENDS Integers, Sequences, FiniteSets

CONSTANTS
  Roles,       \* the protocol's roles
  Invariants,  \* the protocol's invariants (see Invariant)
  Protocols,   \* the planned protocols to check (see Planned)
  Bounds       \* values of max_states

(* Protocol states; "-" is no to_state, "*" any or no from_state. *)
RoleStates == {"initial", "open", "closed"}

Invariant ==
  [kind : {"never", "implies", "eventually"}, role : Roles, state : RoleStates,
   implies_role : Roles, implies_state : RoleStates]

(* What the explorer reads of a planned step. *)
Planned ==
  [role : Roles, deps : SUBSET Nat, when : {"true", "false", "dynamic"},
   from_state : RoleStates \cup {"*"}, to_state : RoleStates \cup {"-"}]

(* plan() has put every step after its dependencies and chained the steps of a role. *)
IsPlanned ==
  /\ Invariants \subseteq Invariant
  /\ Bounds \subseteq Nat \ {0}
  /\ \A p \in Protocols :
       /\ p \in Seq(Planned)
       /\ \A r \in Roles : \E i \in DOMAIN p : p[i].role = r
       /\ \A i \in DOMAIN p : p[i].deps \subseteq 1 .. i - 1
       /\ \A i, j \in DOMAIN p :
            i < j /\ p[i].role = p[j].role /\ (\A k \in i + 1 .. j - 1 : p[k].role # p[j].role)
              => i \in p[j].deps

VARIABLES
  protocol,     \* the planned steps
  max_states,
  queue,        \* states to visit, oldest first
  visited,      \* keys of visited states
  reached,      \* reached_steps
  violations,   \* one witness per kind and invariant
  transitions,  \* transitions_explored
  phase         \* "search", then "complete" or "bounded"

vars == <<protocol, max_states, queue, visited, reached, violations, transitions, phase>>

Steps == DOMAIN protocol

Eventually == {v \in Invariants : v.kind = "eventually"}

Initial ==
  [completed |-> {}, role_states |-> [r \in Roles |-> "initial"],
   reached_liveness |-> {v \in Eventually : v.state = "initial"}, path |-> <<>>]

Init ==
  /\ protocol \in Protocols
  /\ max_states \in Bounds
  /\ queue = <<Initial>>
  /\ visited = {}
  /\ reached = {}
  /\ violations = {}
  /\ transitions = 0
  /\ phase = "search"

Key(s) == <<s.completed, s.role_states, s.reached_liveness>>

-----------------------------------------------------------------------------
(* add_violation: the first witness of a kind and invariant is kept *)

Violation(kind, inv, s) == [kind |-> kind, invariant |-> inv, path |-> s.path]

(* Faulty witnesses: one per kind, whatever the invariant. *)
WithViolationsByKind(old, new) ==
  old \cup {v \in new : \A w \in old : w.kind # v.kind}

WithViolations(old, new) ==
  old \cup {v \in new : \A w \in old : w.kind # v.kind \/ w.invariant # v.invariant}

(* check_safety *)
Fails(v, states) ==
  \/ v.kind = "never" /\ states[v.role] = v.state
  \/ v.kind = "implies" /\ states[v.role] = v.state /\ states[v.implies_role] # v.implies_state

Unsafe(s) == {Violation("invariant", v, s) : v \in {u \in Invariants : Fails(u, s.role_states)}}

(* check_liveness *)
Unfulfilled(s) == {Violation("liveness", v, s) : v \in Eventually \ s.reached_liveness}

NoInvariant == "none"

-----------------------------------------------------------------------------
(* The loop *)

Outcomes(i) ==
  CASE protocol[i].when = "false" -> {FALSE}
    [] protocol[i].when = "true" -> {TRUE}
    [] OTHER -> BOOLEAN

IsEnabled(s, i, execute) ==
  /\ i \notin s.completed
  /\ protocol[i].deps \subseteq s.completed
  /\ execute \in Outcomes(i)
  /\ execute => protocol[i].from_state \in {"*", s.role_states[protocol[i].role]}

(* The (index, execute) pairs in the order the two loops push them. *)
Enabled(s) ==
  LET pairs == [k \in 1 .. 2 * Len(protocol) |-> [step |-> (k + 1) \div 2, execute |-> k % 2 = 0]]
      test(e) == IsEnabled(s, e.step, e.execute)
  IN SelectSeq(pairs, test)

Successor(s, e) ==
  LET step == protocol[e.step]
  IN [completed |-> s.completed \cup {e.step},
      role_states |-> IF e.execute /\ step.to_state # "-"
                        THEN [s.role_states EXCEPT ![step.role] = step.to_state] ELSE s.role_states,
      reached_liveness |-> s.reached_liveness \cup
        {v \in Eventually : e.execute /\ v.role = step.role /\ v.state = step.to_state},
      path |-> Append(s.path, e.step)]

(* Faulty queues: the newest state first. *)
EnqueueFront(rest, s, enabled) ==
  [k \in DOMAIN enabled |-> Successor(s, enabled[k])] \o rest

Enqueue(rest, s, enabled) ==
  rest \o [k \in DOMAIN enabled |-> Successor(s, enabled[k])]

(* The state was visited before. *)
Revisit ==
  /\ phase = "search"
  /\ queue # <<>>
  /\ Key(Head(queue)) \in visited
  /\ queue' = Tail(queue)
  /\ UNCHANGED <<protocol, max_states, visited, reached, violations, transitions, phase>>

OverBound(n) == n > max_states

(* One state too many: the search is cut short. *)
GiveUp ==
  /\ phase = "search"
  /\ queue # <<>>
  /\ Key(Head(queue)) \notin visited
  /\ OverBound(Cardinality(visited) + 1)
  /\ queue' = Tail(queue)
  /\ visited' = visited \cup {Key(Head(queue))}
  /\ phase' = "bounded"
  /\ UNCHANGED <<protocol, max_states, reached, violations, transitions>>

Visit ==
  /\ phase = "search"
  /\ queue # <<>>
  /\ LET s == Head(queue)
         enabled == Enabled(s)
         safe == WithViolations(violations, Unsafe(s))
     IN /\ Key(s) \notin visited
        /\ ~OverBound(Cardinality(visited) + 1)
        /\ visited' = visited \cup {Key(s)}
        /\ violations' = CASE enabled # <<>> -> safe
                           [] s.completed = Steps -> WithViolations(safe, Unfulfilled(s))
                           [] OTHER -> WithViolations(safe, {Violation("deadlock", NoInvariant, s)})
        /\ reached' = reached \cup {enabled[k].step : k \in DOMAIN enabled}
        /\ transitions' = transitions + Len(enabled)
        /\ queue' = Enqueue(Tail(queue), s, enabled)
  /\ UNCHANGED <<protocol, max_states, phase>>

(* The queue is empty. *)
Finish ==
  /\ phase = "search"
  /\ queue = <<>>
  /\ phase' = "complete"
  /\ UNCHANGED <<protocol, max_states, queue, visited, reached, violations, transitions>>

(* check() has returned its report. *)
Returned == phase # "search" /\ UNCHANGED vars

Next == Revisit \/ GiveUp \/ Visit \/ Finish \/ Returned

Spec == Init /\ [][Next]_vars

unreachable_steps == Steps \ reached

-----------------------------------------------------------------------------
(* What the schedules of a protocol are, without a search.  A situation is a   *)
(* set of finished steps closed under dependencies and the set of those that   *)
(* were executed rather than skipped.                                          *)

(* The state of role r after the executed steps X that precede step i. *)
StateBefore(r, X, i) ==
  LET setters == {j \in X : j < i /\ protocol[j].role = r /\ protocol[j].to_state # "-"}
  IN IF setters = {} THEN "initial"
     ELSE protocol[CHOOSE j \in setters : \A k \in setters : k <= j].to_state

StatesAfter(X) == [r \in Roles |-> StateBefore(r, X, Len(protocol) + 1)]

MayExecute(X, i) ==
  protocol[i].when # "false" /\ protocol[i].from_state \in {"*", StateBefore(protocol[i].role, X, i)}

Situations ==
  {c \in (SUBSET Steps) \X (SUBSET Steps) :
     LET C == c[1]  X == c[2]
     IN /\ X \subseteq C
        /\ \A i \in C : protocol[i].deps \subseteq C
        /\ \A i \in X : MayExecute(X, i)
        /\ \A i \in C \ X : protocol[i].when # "true"}

(* The steps that can come next. *)
Candidates(C, X) ==
  {i \in Steps \ C : protocol[i].deps \subseteq C /\ (protocol[i].when # "true" \/ MayExecute(X, i))}

Stuck(C, X) == C # Steps /\ Candidates(C, X) = {}

Attains(X, v) ==
  v.state = "initial" \/ \E i \in X : protocol[i].role = v.role /\ protocol[i].to_state = v.state

(* What a situation violates. *)
Broken(c) ==
  {[kind |-> "invariant", invariant |-> v] : v \in {u \in Invariants : Fails(u, StatesAfter(c[2]))}}
  \cup {[kind |-> "liveness", invariant |-> v] :
          v \in {u \in Eventually : c[1] = Steps /\ ~Attains(c[2], u)}}
  \cup (IF Stuck(c[1], c[2]) THEN {[kind |-> "deadlock", invariant |-> NoInvariant]} ELSE {})

Reported == {[kind |-> v.kind, invariant |-> v.invariant] : v \in violations}

-----------------------------------------------------------------------------
(* Properties *)

(* "exhaustively explores valid interleavings": a complete report lists       *)
(* exactly the kinds of violation some schedule shows, and exactly the steps   *)
(* no schedule reaches; and the search is cut short exactly when the protocol  *)
(* has more than max_states states.                                            *)
ReportIsExact ==
  LET states == {<<c[1], StatesAfter(c[2]), {v \in Eventually : Attains(c[2], v)}>> : c \in Situations}
  IN /\ phase = "complete" =>
          /\ Reported = UNION {Broken(c) : c \in Situations}
          /\ unreachable_steps = Steps \ UNION {Candidates(c[1], c[2]) : c \in Situations}
          /\ Cardinality(states) <= max_states
     /\ phase = "bounded" => Cardinality(states) > max_states

(* "a reproducible step-name counterexample for each violation", and           *)
(* "Breadth-first exploration guarantees the first report is a shortest        *)
(* counterexample", complete or not: the path of a violation is a schedule     *)
(* that ends in a situation that shows it, and no schedule shows it with fewer *)
(* steps.                                                                      *)
CounterexamplesAreShortest ==
  \A v \in violations :
    LET shown == {c \in Situations : [kind |-> v.kind, invariant |-> v.invariant] \in Broken(c)}
        steps == {v.path[k] : k \in DOMAIN v.path}
    IN /\ \A k \in DOMAIN v.path : protocol[v.path[k]].deps \subseteq {v.path[m] : m \in 1 .. k - 1}
       /\ Cardinality(steps) = Len(v.path)
       /\ \E c \in shown : c[1] = steps
       /\ \A c \in shown : Len(v.path) <= Cardinality(c[1])

=============================================================================
