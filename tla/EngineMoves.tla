---------------------------- MODULE EngineMoves -----------------------------
(* What a step of one thread that touches only its own step does to IndInv. *)
EXTENDS EngineTypes, TLAPS

(* Thread r takes a step that no other thread sees except in error, where a *)
(* failure, once recorded, stays.                                           *)
Alone(r) ==
  /\ \A q \in ActiveRoles : q # r => pc'[q] = pc[q] /\ frame'[q] = frame[q]
  /\ error # NoFailure => error' # NoFailure
  /\ UNCHANGED <<deps, joined, result>>

(* Of the step outcomes, at most the one of r's current step changes, as the *)
(* run of that step goes on.                                                 *)
Outcomes(r) ==
  \/ UNCHANGED outcome
  \/ /\ idx[r] <= Len(StepsOf[r])
     /\ \A t \in Steps : t # Cur(r) => outcome'[t] = outcome[t]
     /\ outcome[Cur(r)] = "running" \/ (/\ outcome[Cur(r)] = "none"
                                        /\ error = NoFailure
                                        /\ deps[Cur(r)] \subseteq completed)

(* set_failure never clears a failure. *)
LEMMA FailureStays ==
  ASSUME NEW who, NEW k \in Kinds, SetFailure(who, k)
  PROVE  error' # NoFailure
  BY DEF SetFailure, NoFailure, Kinds

(* The place and the frame a stamped thread settles on. *)
Settles(r, f, next) ==
  /\ Loc(r)' = next
  /\ Alone(r)
  /\ frame'[r].kind = f.kind /\ frame'[r].last_tx = f.last_tx

(* Where a stamped thread goes, and what record_with_network leaves alone. *)
LEMMA StampEffect ==
  ASSUME TypeOK, NEW r \in ActiveRoles, NEW f \in FrameType, NEW step \in Steps,
         NEW ok \in BOOLEAN, NEW next \in Labels \ {"push"}, Stamp(r, f, step, ok, next),
         UNCHANGED <<deps, joined, result>>
  PROVE  /\ Settles(r, f, next)
         /\ counter >= MaxTrace => pc'[r] = next /\ error' # NoFailure
         /\ counter < MaxTrace =>
               /\ pc'[r] = "push"
               /\ frame'[r].event = [seq |-> counter, role |-> r, step |-> step, ok |-> ok]
<1> DEFINE g == [f EXCEPT !.event = [seq |-> counter, role |-> r, step |-> step, ok |-> ok],
                          !.next = next]
<1>1. /\ g.kind = f.kind /\ g.last_tx = f.last_tx /\ g.next = next
      /\ g.event = [seq |-> counter, role |-> r, step |-> step, ok |-> ok]
  BY DEF FrameType
<1>2. CASE counter >= MaxTrace
  <2>1. SetFailure(r, "resource_limit") /\ frame' = [frame EXCEPT ![r] = f] /\ Goto(r, next)
    BY <1>2, LimitAssumption DEF Stamp, TypeOK
  <2>2. error' # NoFailure
    BY <2>1, FailureStays DEF Kinds
  <2> QED BY <1>2, <2>1, <2>2, LimitAssumption DEF TypeOK, Goto, Loc, Alone, Settles
<1>3. CASE counter < MaxTrace
  <2>1. frame' = [frame EXCEPT ![r] = g] /\ Goto(r, "push") /\ error' = error
    BY <1>3, LimitAssumption DEF Stamp, TypeOK
  <2> HIDE DEF g
  <2>2. pc'[r] = "push" /\ frame'[r] = g
    BY <2>1 DEF TypeOK, Goto
  <2>3. Alone(r)
    BY <2>1 DEF TypeOK, Goto, Alone
  <2> QED BY <1>1, <1>3, <2>2, <2>3, LimitAssumption DEF Loc, TypeOK, Settles
<1> QED BY <1>2, <1>3, LimitAssumption DEF TypeOK

(* Every label is listed once in Allowed. *)
LEMMA AllowedCases ==
  /\ Allowed("begin") = {"none"} /\ Allowed("wait") = {"none"}
  /\ Allowed("poll") = {"none"} /\ Allowed("check") = {"none"}
  /\ Allowed("gate") = {"running"} /\ Allowed("execute") = {"running"}
  /\ Allowed("retransmit") = {"running"} /\ Allowed("after") = {"running"}
  /\ Allowed("setfail") = {"failed"} /\ Allowed("done_exit") = {"failed"}
  /\ Allowed("panicked") = {"failed"} /\ Allowed("done_next") = {"ok", "skipped"}
  /\ Allowed("exit") = {"none", "failed"}
  BY DEF Allowed

(* A thread that moves without marking anything done keeps ProgressInv. *)
LEMMA MoveProgress ==
  ASSUME IndInv, NEW r \in ActiveRoles, Alone(r), Outcomes(r), pc[r] # "exit",
         UNCHANGED <<idx, completed>>, outcome' \in [Steps -> Good \cup {"none", "running", "failed"}],
         idx[r] <= Len(StepsOf[r]) => outcome'[Cur(r)] \in Allowed(Loc(r)')
  PROVE  ProgressInv'
<1> USE DEF IndInv
<1>1. ASSUME NEW q \in ActiveRoles, NEW i \in DOMAIN StepsOf[q], q # r \/ i # idx[r]
      PROVE  outcome'[StepsOf[q][i]] = outcome[StepsOf[q][i]]
  <2>1. CASE UNCHANGED outcome
    BY <2>1
  <2>2. CASE idx[r] <= Len(StepsOf[r]) /\ \A t \in Steps : t # Cur(r) => outcome'[t] = outcome[t]
    <3>1. StepsOf[q][i] # Cur(r)
      BY <1>1, <2>2, CurrentStep, OnePlace DEF Cur
    <3>2. StepsOf[q][i] \in Steps
      BY ActiveRolesAreRoles, ProgramAssumption
    <3> QED BY <2>2, <3>1, <3>2
  <2> QED BY <2>1, <2>2 DEF Outcomes
<1>2. ASSUME NEW q \in ActiveRoles, NEW i \in DOMAIN StepsOf[q]
      PROVE  /\ i < idx'[q] => StepsOf[q][i] \in completed' /\ outcome'[StepsOf[q][i]] \in {"ok", "skipped"}
             /\ i = idx'[q] => /\ outcome'[StepsOf[q][i]] \in Allowed(Loc(q)')
                               /\ StepsOf[q][i] \in completed' => pc'[q] = "exit"
             /\ i > idx'[q] => outcome'[StepsOf[q][i]] = "none" /\ StepsOf[q][i] \notin completed'
  <2>1. CASE q # r \/ i # idx[r]
    <3>1. outcome'[StepsOf[q][i]] = outcome[StepsOf[q][i]]
      BY <1>1, <2>1
    <3>2. q # r => Loc(q)' = Loc(q)
      BY DEF Alone, Loc
    <3>3. idx[q] \in Nat /\ i \in Nat
      BY ActiveRolesAreRoles, ProgramAssumption DEF TypeOK
    <3> QED BY <2>1, <3>1, <3>2, <3>3 DEF ProgressInv, Alone
  <2>2. CASE q = r /\ i = idx[r]
    <3>1. i <= Len(StepsOf[r]) /\ StepsOf[q][i] = Cur(r)
      BY <2>2, ActiveRolesAreRoles, ProgramAssumption DEF Cur
    <3>2. Cur(r) \notin completed
      BY <2>2, <3>1 DEF ProgressInv
    <3>3. idx[q] \in Nat /\ i \in Nat
      BY ActiveRolesAreRoles, ProgramAssumption DEF TypeOK
    <3> QED BY <2>2, <3>1, <3>2, <3>3
  <2> QED BY <2>1, <2>2
<1>3. ASSUME NEW t \in Steps, Step[t].role \notin ActiveRoles
      PROVE  t \in completed' /\ outcome'[t] = "external"
  <2>1. idx[r] <= Len(StepsOf[r]) => t # Cur(r)
    BY <1>3, CurrentStep
  <2> QED BY <1>3, <2>1 DEF ProgressInv, Outcomes
<1> HIDE DEF IndInv
<1> QED BY <1>2, <1>3 DEF ProgressInv

(* ... and FailureInv, given what its new place requires. *)
LEMMA MoveFailure ==
  ASSUME IndInv, NEW r \in ActiveRoles, Alone(r), Outcomes(r), pc[r] # "exit",
         UNCHANGED <<idx, completed>>,
         Loc(r)' = "done_exit" => error' # NoFailure,
         Loc(r)' = "exit" /\ error' = NoFailure => idx[r] > Len(StepsOf[r]),
         Loc(r)' = "check" => deps[Cur(r)] \subseteq completed,
         Loc(r)' = "setfail" => frame'[r].kind \in Kinds,
         Loc(r)' = "retransmit" => frame'[r].last_tx # NoTx
  PROVE  FailureInv'
<1> USE DEF IndInv
<1>1. ASSUME error' = NoFailure, NEW t \in completed
      PROVE  outcome'[t] \in Good
  <2>1. outcome[t] \in Good /\ t \in Steps
    BY <1>1 DEF FailureInv, Alone, TypeOK
  <2>2. idx[r] <= Len(StepsOf[r]) => Cur(r) \notin completed
    BY CurrentStep DEF ProgressInv, Cur
  <2> QED BY <2>1, <2>2 DEF Outcomes
<1>2. ASSUME NEW q \in ActiveRoles
      PROVE  /\ Loc(q)' \in {"done_exit"} => error' # NoFailure
             /\ Loc(q)' = "exit" /\ error' = NoFailure => idx'[q] > Len(StepsOf[q])
             /\ Loc(q)' = "check" => deps'[Cur(q)'] \subseteq completed'
             /\ Loc(q)' = "setfail" => frame'[q].kind \in Kinds
             /\ Loc(q)' = "retransmit" => frame'[q].last_tx # NoTx
  <2>0. Cur(q)' = Cur(q) /\ deps' = deps
    BY DEF Cur, Alone
  <2>1. CASE q = r
    BY <2>0, <2>1
  <2>2. CASE q # r
    <3>1. Loc(q)' = Loc(q) /\ frame'[q] = frame[q] /\ (error # NoFailure => error' # NoFailure)
      BY <2>2 DEF Loc, Alone
    <3> QED BY <2>0, <3>1 DEF FailureInv
  <2> QED BY <2>1, <2>2
<1> HIDE DEF IndInv
<1> QED BY <1>1, <1>2 DEF FailureInv

(* ... and DependentsOfFailedNeverRun: a step that starts has only good     *)
(* dependencies, and no step that started depends on one still running.     *)
LEMMA MoveDependents ==
  ASSUME IndInv, NEW r \in ActiveRoles, Alone(r), Outcomes(r), pc[r] # "exit",
         outcome' \in [Steps -> Good \cup {"none", "running", "failed"}]
  PROVE  DependentsOfFailedNeverRun'
<1> USE DEF IndInv
<1>1. CASE UNCHANGED outcome
  BY <1>1 DEF DependentsOfFailedNeverRun, Alone
<1>2. CASE ~ UNCHANGED outcome
  <2> DEFINE c == Cur(r)
  <2>1. /\ idx[r] <= Len(StepsOf[r])
        /\ \A t \in Steps : t # c => outcome'[t] = outcome[t]
        /\ outcome[c] = "running" \/ (outcome[c] = "none" /\ error = NoFailure /\ deps[c] \subseteq completed)
    BY <1>2 DEF Outcomes
  <2>2. c \in Steps /\ c \notin completed
    BY <2>1, CurrentStep DEF ProgressInv, Cur
  <2>3. deps \in [Steps -> SUBSET Steps]
    BY GraphAssumption DEF TypeOK
  <2>4. \A d \in deps[c] : outcome[d] \in Good
    <3>1. CASE outcome[c] = "running"
      BY <2>2, <3>1 DEF DependentsOfFailedNeverRun
    <3>2. CASE error = NoFailure /\ deps[c] \subseteq completed
      BY <3>2 DEF FailureInv
    <3> QED BY <2>1, <3>1, <3>2
  <2>5. outcome[c] \notin Good
    BY <2>1 DEF Good
  <2>6. ASSUME NEW t \in Steps, outcome'[t] \notin {"none", "external"}, NEW d \in deps[t]
        PROVE  outcome'[d] \in Good
    <3>1. outcome[d] \in Good
      BY <2>1, <2>4, <2>6 DEF DependentsOfFailedNeverRun
    <3>2. d \in Steps /\ d # c
      BY <2>3, <2>5, <2>6, <3>1
    <3> QED BY <2>1, <3>1, <3>2
  <2> HIDE DEF IndInv
  <2> QED BY <2>6 DEF DependentsOfFailedNeverRun, Alone
<1> QED BY <1>1, <1>2

(* A live thread has not been joined, so JoinInv is not its concern. *)
LEMMA ThreadJoin ==
  ASSUME IndInv, NEW r \in ActiveRoles, Alone(r), pc[r] \notin {"exit", "panicked"}
  PROVE  JoinInv'
<1> USE DEF IndInv
<1>1. joined < Len(JoinOrder) /\ result = "none"
  <2>1. PICK i \in DOMAIN JoinOrder : JoinOrder[i] = r
    BY DEF ActiveRoles
  <2>2. i \in 1 .. Len(JoinOrder) /\ Len(JoinOrder) \in Nat /\ joined \in 0 .. Len(JoinOrder)
    BY <2>1, ProgramAssumption DEF TypeOK
  <2>3. ~(i \in 1 .. joined)
    BY <2>1 DEF JoinInv
  <2> QED BY <2>2, <2>3 DEF JoinInv, TypeOK
<1>2. ASSUME NEW i \in 1 .. joined
      PROVE  /\ JoinOrder[i] \in ActiveRoles
             /\ pc'[JoinOrder[i]] = pc[JoinOrder[i]]
  <2>1. i \in DOMAIN JoinOrder
    BY <1>1, ProgramAssumption DEF TypeOK
  <2>2. JoinOrder[i] \in ActiveRoles /\ JoinOrder[i] # r
    BY <2>1 DEF ActiveRoles, JoinInv
  <2> QED BY <2>2 DEF Alone
<1> QED BY <1>1, <1>2 DEF JoinInv, Alone

(* A thread step that records nothing keeps TraceInv. *)
LEMMA QuietTrace ==
  ASSUME IndInv, NEW r \in ActiveRoles, Alone(r), pc[r] # "push", pc'[r] # "push",
         pc[r] = "setfail" => error' # NoFailure,
         UNCHANGED <<counter, trace>>
  PROVE  TraceInv'
<1> USE DEF IndInv
<1>1. Pushing' = Pushing /\ r \notin Pushing
  BY DEF Pushing, Alone
<1>2. \A q \in Pushing : frame'[q] = frame[q]
  BY <1>1 DEF Alone, Pushing
<1>3. ASSUME NEW e \in trace, ~e.ok
      PROVE  error' # NoFailure \/ Loc(e.role)' = "setfail"
  <2>1. e.role \in ActiveRoles
    BY DEF TypeOK, EventType
  <2>2. error # NoFailure \/ Loc(e.role) = "setfail"
    BY <1>3 DEF TraceInv
  <2>3. e.role # r => Loc(e.role)' = Loc(e.role)
    BY <2>1 DEF Alone, Loc
  <2>4. Loc(r) = pc[r]
    BY DEF Loc
  <2> QED BY <2>2, <2>3, <2>4 DEF Alone
<1>4. counter > MaxTrace => error' # NoFailure
  BY DEF TraceInv, Alone
<1> HIDE DEF IndInv
<1>5. TraceInv
  BY DEF IndInv
<1> QED BY <1>1, <1>2, <1>3, <1>4, <1>5 DEF TraceInv

(* Taking a sequence number keeps TraceInv: the number is on its way to the *)
(* trace, or the trace is full and the run has failed.                      *)
LEMMA StampTrace ==
  ASSUME IndInv, NEW r \in ActiveRoles, NEW f \in FrameType, NEW step \in Steps,
         NEW ok \in BOOLEAN, NEW next \in Labels \ {"push"}, Stamp(r, f, step, ok, next),
         ~ok => next = "setfail", pc[r] \notin {"push", "setfail"},
         UNCHANGED <<deps, joined, result, trace>>
  PROVE  TraceInv'
<1> USE DEF IndInv
<1>0. /\ Loc(r)' = next
      /\ Alone(r)
      /\ counter >= MaxTrace => pc'[r] = next /\ error' # NoFailure
      /\ counter < MaxTrace =>
            /\ pc'[r] = "push"
            /\ frame'[r].event = [seq |-> counter, role |-> r, step |-> step, ok |-> ok]
  BY StampEffect DEF Settles
<1>1. counter' = counter + 1 /\ counter \in Nat /\ MaxTrace \in Nat
  BY LimitAssumption DEF Stamp, TypeOK
<1>2. ASSUME NEW q \in ActiveRoles, q # r
      PROVE  q \in Pushing' <=> q \in Pushing
  BY <1>0, <1>2 DEF Alone, Pushing
<1>3. r \notin Pushing /\ (r \in Pushing' <=> counter < MaxTrace)
  BY <1>0, <1>1 DEF Pushing
<1>4. ASSUME NEW q \in Pushing'
      PROVE  /\ frame'[q].event \in EventType
             /\ frame'[q].event.role = q
             /\ frame'[q].event.seq < counter'
             /\ ~frame'[q].event.ok => frame'[q].next = "setfail"
  <2>0. q \in ActiveRoles
    BY DEF Pushing
  <2>1. CASE q = r
    <3>1. frame'[r].event = [seq |-> counter, role |-> r, step |-> step, ok |-> ok]
      BY <1>0, <1>3, <2>1
    <3>2. frame'[r].next = next
      BY <1>0, <1>3, <2>1 DEF Loc
    <3> QED BY <1>1, <2>1, <3>1, <3>2 DEF EventType
  <2>2. CASE q # r
    <3>1. q \in Pushing /\ frame'[q] = frame[q]
      BY <1>0, <1>2, <1>4, <2>0, <2>2 DEF Alone
    <3>2. /\ frame[q].event \in EventType
          /\ frame[q].event.role = q
          /\ frame[q].event.seq < counter
          /\ ~frame[q].event.ok => frame[q].next = "setfail"
      BY <3>1, Zenon DEF TraceInv
    <3> HIDE DEF IndInv
    <3>3. frame[q].event.seq \in Nat
      BY <3>2 DEF EventType
    <3>4. frame[q].event.seq < counter'
      BY <1>1, <3>2, <3>3
    <3> QED BY <3>1, <3>2, <3>4, Zenon
  <2> QED BY <2>1, <2>2
<1>5. ASSUME NEW e \in trace
      PROVE  /\ e.seq < counter'
             /\ ~e.ok => error' # NoFailure \/ Loc(e.role)' = "setfail"
  <2>1. e.role \in ActiveRoles /\ e.seq \in Nat
    BY DEF TypeOK, EventType
  <2>2. e.seq < counter /\ (~e.ok => error # NoFailure \/ Loc(e.role) = "setfail")
    BY DEF TraceInv
  <2>3. e.role # r => Loc(e.role)' = Loc(e.role)
    BY <1>0, <2>1 DEF Alone, Loc
  <2>4. Loc(r) # "setfail"
    BY DEF Loc
  <2> QED BY <1>0, <1>1, <2>1, <2>2, <2>3, <2>4 DEF Alone
<1>6. ASSUME NEW n \in 0 .. counter' - 1, n < MaxTrace
      PROVE  (\E e \in trace : e.seq = n) \/ (\E q \in Pushing' : frame'[q].event.seq = n)
  <2>1. CASE n = counter
    BY <1>0, <1>3, <1>6, <2>1
  <2>2. CASE n \in 0 .. counter - 1
    <3>1. CASE \E e \in trace : e.seq = n
      BY <3>1
    <3>2. CASE \E q \in Pushing : frame[q].event.seq = n
      <4>1. PICK q \in Pushing : frame[q].event.seq = n
        BY <3>2
      <4>2. q # r /\ q \in ActiveRoles
        BY <1>3 DEF Pushing
      <4> QED BY <1>0, <1>2, <4>1, <4>2 DEF Alone
    <3> QED BY <1>6, <2>2, <3>1, <3>2 DEF TraceInv
  <2> QED BY <1>1, <1>6, <2>1, <2>2
<1> HIDE DEF IndInv
<1>7. counter' > MaxTrace => error' # NoFailure
  BY <1>0, <1>1
<1> QED BY <1>4, <1>5, <1>6, <1>7 DEF TraceInv

(* A step of thread r that stamps an event and settles on place next: what  *)
(* is left to show is about the outcome and the new frame only.             *)
LEMMA StampInv ==
  ASSUME IndInv, TypeOK', NEW r \in ActiveRoles, NEW f \in FrameType, NEW step \in Steps,
         NEW ok \in BOOLEAN, NEW next \in Labels \ {"push"},
         next \in {"setfail", "done_next", "execute", "retransmit", "after"},
         Stamp(r, f, step, ok, next), ~ok => next = "setfail",
         pc[r] \in {"gate", "execute", "retransmit"},
         UNCHANGED <<deps, idx, completed, trace, joined, result>>,
         next = "setfail" => f.kind \in Kinds,
         next = "retransmit" => f.last_tx # NoTx,
         \/ UNCHANGED outcome /\ Allowed(next) = {"running"}
         \/ \E o \in Allowed(next) : outcome' = [outcome EXCEPT ![Cur(r)] = o]
  PROVE  IndInv'
<1> USE DEF IndInv
<1>0. next \notin {"done_exit", "exit", "check"}
  OBVIOUS
<1>1. /\ Loc(r)' = next /\ Alone(r)
      /\ frame'[r].kind = f.kind /\ frame'[r].last_tx = f.last_tx
  <2>1. Settles(r, f, next)
    BY StampEffect, Zenon
  <2> QED BY <2>1, Zenon DEF Settles
<1>2. idx[r] <= Len(StepsOf[r]) /\ Cur(r) \in Steps /\ idx[r] \in DOMAIN StepsOf[r]
  BY CurrentStep, Zenon DEF TypeOK
<1>3. outcome[Cur(r)] = "running"
  <2>1. outcome[Cur(r)] \in Allowed(Loc(r)) /\ Loc(r) = pc[r]
    BY <1>2 DEF ProgressInv, Cur, Loc
  <2> QED BY <2>1, AllowedCases
<1>4. Outcomes(r)
  BY <1>2, <1>3 DEF Outcomes, TypeOK
<1>5. outcome'[Cur(r)] \in Allowed(Loc(r)')
  BY <1>1, <1>2, <1>3 DEF TypeOK
<1>6. outcome' \in [Steps -> Good \cup {"none", "running", "failed"}]
  BY DEF TypeOK
<1>7. ProgressInv'
  BY <1>1, <1>4, <1>5, <1>6, MoveProgress
<1>8. FailureInv'
  BY <1>0, <1>1, <1>4, MoveFailure
<1>9. DependentsOfFailedNeverRun'
  BY <1>1, <1>4, <1>6, MoveDependents
<1>10. JoinInv'
  BY <1>1, ThreadJoin
<1>11. TraceInv'
  BY StampTrace
<1> QED BY <1>7, <1>8, <1>9, <1>10, <1>11

(* The same for a step that records nothing. *)
LEMMA QuietInv ==
  ASSUME IndInv, TypeOK', NEW r \in ActiveRoles, NEW l \in Labels \ {"push"}, Goto(r, l),
         Alone(r), Outcomes(r), pc[r] \notin {"push", "exit", "panicked"},
         UNCHANGED <<deps, idx, completed, counter, trace, joined, result>>,
         pc[r] = "setfail" => error' # NoFailure,
         idx[r] <= Len(StepsOf[r]) => outcome'[Cur(r)] \in Allowed(l),
         l = "done_exit" => error' # NoFailure,
         l = "exit" /\ error' = NoFailure => idx[r] > Len(StepsOf[r]),
         l = "check" => deps[Cur(r)] \subseteq completed,
         l \notin {"setfail", "retransmit"}
  PROVE  IndInv'
<1> USE DEF IndInv
<1>1. pc'[r] = l /\ Loc(r)' = l
  BY DEF Goto, Loc, TypeOK
<1>2. outcome' \in [Steps -> Good \cup {"none", "running", "failed"}]
  BY DEF TypeOK
<1>3. ProgressInv'
  BY <1>1, <1>2, MoveProgress, Zenon
<1>4. FailureInv'
  BY <1>1, MoveFailure
<1>5. DependentsOfFailedNeverRun'
  BY <1>2, MoveDependents
<1>6. JoinInv' /\ TraceInv'
  BY <1>1, ThreadJoin, QuietTrace
<1> QED BY <1>3, <1>4, <1>5, <1>6
=============================================================================
