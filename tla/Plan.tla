-------------------------------- MODULE Plan --------------------------------
(***************************************************************************)
(* graph.rs: plan() validates a protocol's steps, adds to every step an    *)
(* implicit dependency on the previous step of its role, and sorts them    *)
(* topologically with Kahn's algorithm, ties broken by declaration order.  *)
(* Steps are identified by their declaration index.                        *)
(***************************************************************************)
EXTENDS Integers, Sequences, FiniteSets, StepGraph

CONSTANTS
  Names,       \* step names
  RoleNames,   \* role names
  Protocols    \* the step lists to plan

(* The attributes of struct Step that plan() reads. *)
StepDecl == [name : Names, role : RoleNames, depends_on : SUBSET Names]

ASSUME ProtocolsAssumption == \A p \in Protocols : p \in Seq(StepDecl)

VARIABLES
  protocol,  \* protocol.steps: [name, role, depends_on] records
  phase,     \* "check", "sort", then "ok" or the kind of plan error
  deps,      \* resolved dependencies of every step
  indeg,     \* dependencies not yet ordered
  ready,     \* steps whose in-degree has reached zero
  order      \* the plan built so far

vars == <<protocol, phase, deps, indeg, ready, order>>

Indices == DOMAIN protocol

Done == {order[k] : k \in DOMAIN order}

(* Two steps share a name. *)
DuplicateName == \E i, j \in Indices : i # j /\ protocol[i].name = protocol[j].name

(* The steps of i's role declared before i, and the last of them. *)
EarlierInRole(i) == {j \in Indices : j < i /\ protocol[j].role = protocol[i].role}
PrevInRole(i) == {j \in EarlierInRole(i) : \A k \in EarlierInRole(i) : k <= j}

(* Explicit dependencies, by name. *)
Explicit(i) == {j \in Indices : protocol[j].name \in protocol[i].depends_on}

ResolveDeps == [i \in Indices |-> PrevInRole(i) \cup Explicit(i)]

(* depends_on names a step that is not declared. *)
UnknownDependency ==
  \E i \in Indices : \E e \in protocol[i].depends_on : \A j \in Indices : protocol[j].name # e

Init ==
  /\ protocol \in Protocols
  /\ phase = "check"
  /\ deps = <<>>
  /\ indeg = <<>>
  /\ ready = {}
  /\ order = <<>>

(* Sections 1 to 3 of plan(): names, implicit and explicit edges, references. *)
Reject ==
  /\ phase = "check"
  /\ \/ DuplicateName /\ phase' = "duplicate"
     \/ ~DuplicateName /\ UnknownDependency /\ phase' = "unknown"
  /\ UNCHANGED <<protocol, deps, indeg, ready, order>>

(* A faulty plan(): a dependency that is both implicit and explicit counts twice. *)
PrepareCountsTwice ==
  /\ phase = "check"
  /\ ~DuplicateName /\ ~UnknownDependency
  /\ phase' = "sort"
  /\ deps' = ResolveDeps
  /\ indeg' = [i \in Indices |-> Cardinality(PrevInRole(i)) + Cardinality(Explicit(i))]
  /\ ready' = {i \in Indices : ResolveDeps[i] = {}}
  /\ UNCHANGED <<protocol, order>>

Prepare ==
  /\ phase = "check"
  /\ ~DuplicateName /\ ~UnknownDependency
  /\ phase' = "sort"
  /\ deps' = ResolveDeps
  /\ indeg' = [i \in Indices |-> Cardinality(ResolveDeps[i])]
  /\ ready' = {i \in Indices : ResolveDeps[i] = {}}
  /\ UNCHANGED <<protocol, order>>

(* ready.pop_front(): the lowest declaration index, as ready is kept sorted. *)
First(S) == CHOOSE i \in S : \A j \in S : i <= j

(* One turn of the while loop: order a ready step, release its dependents. *)
Pop ==
  /\ phase = "sort"
  /\ ready # {}
  /\ LET i == First(ready)
     IN /\ order' = Append(order, i)
        /\ indeg' = [j \in Indices |-> IF i \in deps[j] THEN indeg[j] - 1 ELSE indeg[j]]
        /\ ready' = (ready \ {i}) \cup {j \in Indices : i \in deps[j] /\ indeg[j] = 1}
  /\ UNCHANGED <<protocol, phase, deps>>

(* The queue is empty: every step is ordered, or the rest is cyclic. *)
Finish ==
  /\ phase = "sort"
  /\ ready = {}
  /\ phase' = IF Len(order) = Len(protocol) THEN "ok" ELSE "cycle"
  /\ UNCHANGED <<protocol, deps, indeg, ready, order>>

(* plan() has returned. *)
Returned == phase \notin {"check", "sort"} /\ UNCHANGED vars

Next == Reject \/ Prepare \/ Pop \/ Finish \/ Returned

Spec == Init /\ [][Next]_vars

-----------------------------------------------------------------------------
(* The types of the variables. *)
TypeOK ==
  /\ protocol \in Seq(StepDecl)
  /\ phase \in {"check", "sort", "ok", "duplicate", "unknown", "cycle"}
  /\ order \in Seq(Indices)
  /\ ready \subseteq Indices
  /\ phase \in {"sort", "ok", "cycle"} =>
       /\ deps \in [Indices -> SUBSET Indices]
       /\ indeg \in [Indices -> Nat]

(* At every moment of the sort every ordered step comes after everything   *)
(* it depends on, and once only; a step is placed before one declared      *)
(* earlier only if the earlier one was waiting for it; "plan order         *)
(* restricted to the role == declaration order, since within-role steps    *)
(* are implicitly chained" (engine.rs, where the per-role step lists are   *)
(* built from the plan).  And the verdict is right whatever the graph:     *)
(* "ok" exactly when no set of steps waits for itself.                     *)
PlanIsRight ==
  /\ \A k \in DOMAIN order :
       /\ \A d \in deps[order[k]] : \E m \in DOMAIN order : m < k /\ order[m] = d
       /\ \A m \in DOMAIN order : order[m] = order[k] => m = k
       /\ k > 1 /\ order[k] < order[k - 1] => order[k - 1] \in deps[order[k]]
       /\ \A m \in 1 .. k - 1 :
            protocol[order[k]].role = protocol[order[m]].role => order[m] < order[k]
  /\ phase = "ok" => Acyclic(deps) /\ Done = Indices
  /\ phase = "cycle" => ~Acyclic(deps)

=============================================================================
