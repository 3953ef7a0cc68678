---------------------------- MODULE EngineTypes -----------------------------
(* Engine keeps its types: the lemmas every proof about Engine starts from. *)
EXTENDS Engine, TLAPS

(* The roles main joins are roles of the protocol. *)
LEMMA ActiveRolesAreRoles == ActiveRoles \subseteq Roles
  BY ProgramAssumption DEF ActiveRoles

(* The step a thread is at is one of its own steps. *)
LEMMA CurrentStep ==
  ASSUME TypeOK, NEW r \in ActiveRoles, idx[r] <= Len(StepsOf[r])
  PROVE  /\ Cur(r) \in Steps
         /\ idx[r] \in DOMAIN StepsOf[r]
         /\ Step[Cur(r)].role = r
         /\ Step[Cur(r)] \in StepType
  BY ProgramAssumption, ActiveRolesAreRoles DEF TypeOK, Cur

(* A stamped frame is a frame. *)
LEMMA StampType ==
  ASSUME TypeOK, NEW r \in ActiveRoles, NEW f \in FrameType, NEW step \in Steps,
         NEW ok \in BOOLEAN, NEW next \in Labels \ {"push"}, Stamp(r, f, step, ok, next)
  PROVE  /\ pc' \in [ActiveRoles -> Labels]
         /\ frame' \in [ActiveRoles -> FrameType]
         /\ counter' \in Nat
         /\ error' = NoFailure \/ error'.kind \in Kinds
         /\ \A q \in ActiveRoles : q # r => pc'[q] = pc[q]
<1> DEFINE ev == [seq |-> counter, role |-> r, step |-> step, ok |-> ok]
<1>1. ev \in EventType
  BY DEF TypeOK, EventType
<1>2. [f EXCEPT !.event = ev, !.next = next] \in FrameType
  BY <1>1, Zenon DEF FrameType
<1>3. pc' \in [ActiveRoles -> Labels] /\ \A q \in ActiveRoles : q # r => pc'[q] = pc[q]
  <2>1. PICK l \in Labels : pc' = [pc EXCEPT ![r] = l]
    BY DEF Stamp, Goto, Labels
  <2> QED BY <2>1 DEF TypeOK
<1>4. frame' \in [ActiveRoles -> FrameType]
  <2>1. \E g \in FrameType : frame' = [frame EXCEPT ![r] = g]
    BY <1>2 DEF Stamp
  <2> QED BY <2>1 DEF TypeOK
<1>5. error' = NoFailure \/ error'.kind \in Kinds
  <2>1. error' = error \/ error' = [role |-> r, kind |-> "resource_limit"]
    BY DEF Stamp, SetFailure
  <2> QED BY <2>1 DEF TypeOK, Kinds
<1>6. counter' \in Nat
  BY DEF Stamp, TypeOK
<1> QED BY <1>3, <1>4, <1>5, <1>6

(* A step has one place in the program. *)
LEMMA OnePlace ==
  ASSUME NEW q \in ActiveRoles, NEW r \in ActiveRoles,
         NEW i \in DOMAIN StepsOf[q], NEW j \in DOMAIN StepsOf[r],
         StepsOf[q][i] = StepsOf[r][j]
  PROVE  q = r /\ i = j
  BY ProgramAssumption, ActiveRolesAreRoles

-----------------------------------------------------------------------------
(* TypeOK is preserved by every step *)

(* set_failure keeps error well typed. *)
LEMMA SetFailureType ==
  ASSUME TypeOK, NEW who, NEW k \in Kinds, SetFailure(who, k)
  PROVE  error' = NoFailure \/ error'.kind \in Kinds
  BY DEF TypeOK, SetFailure

(* Goto moves one thread. *)
LEMMA GotoType ==
  ASSUME TypeOK, NEW r \in ActiveRoles, NEW l \in Labels, Goto(r, l)
  PROVE  /\ pc' \in [ActiveRoles -> Labels]
         /\ pc'[r] = l
         /\ \A q \in ActiveRoles : q # r => pc'[q] = pc[q]
  BY DEF TypeOK, Goto

(* What a step of thread r that leaves idx alone must show for TypeOK. *)
LEMMA TypeByParts ==
  ASSUME TypeOK, NEW r \in ActiveRoles,
         pc' \in [ActiveRoles -> Labels],
         \A q \in ActiveRoles : q # r => pc'[q] = pc[q],
         idx[r] <= Len(StepsOf[r]) \/ pc'[r] \in {"begin", "exit"},
         frame' \in [ActiveRoles -> FrameType],
         error' = NoFailure \/ error'.kind \in Kinds,
         counter' \in Nat,
         now' \in 0 .. MaxRuntime + 1,
         outcome' \in [Steps -> Good \cup {"none", "running", "failed"}],
         UNCHANGED <<deps, idx, completed, trace, joined, result>>
  PROVE  TypeOK'
  BY DEF TypeOK

(* Advance keeps the clock in range. *)
LEMMA AdvanceType ==
  ASSUME TypeOK, NEW ms \in Nat, Advance(ms)
  PROVE  now' \in 0 .. MaxRuntime + 1
  BY LimitAssumption DEF TypeOK, Advance

(* Every thread step keeps the types. *)
LEMMA TypeRoleStep ==
  ASSUME IndInv, NEW r \in ActiveRoles, RoleStep(r)
  PROVE  TypeOK'
<1> USE DEF IndInv
<1>1. CASE Begin(r)
  <2>1. error' = NoFailure \/ error'.kind \in Kinds
    BY <1>1, SetFailureType DEF Begin, Kinds, TypeOK
  <2>2. /\ pc' \in [ActiveRoles -> Labels]
        /\ \A q \in ActiveRoles : q # r => pc'[q] = pc[q]
        /\ idx[r] <= Len(StepsOf[r]) \/ pc'[r] \in {"begin", "exit"}
    BY <1>1, GotoType DEF Begin, Labels
  <2> QED BY <1>1, <2>1, <2>2, TypeByParts, Zenon DEF Begin, TypeOK
<1>2. CASE WaitDeps(r)
  BY <1>2, GotoType, TypeByParts DEF WaitDeps, TypeOK, Labels
<1>3. CASE PollDeps(r)
  <2>1. error' = NoFailure \/ error'.kind \in Kinds
    BY <1>3, SetFailureType DEF PollDeps, Kinds, TypeOK
  <2>2. /\ pc' \in [ActiveRoles -> Labels]
        /\ \A q \in ActiveRoles : q # r => pc'[q] = pc[q]
    BY <1>3, GotoType DEF PollDeps, Labels
  <2> QED BY <1>3, <2>1, <2>2, TypeByParts, Zenon DEF PollDeps, TypeOK
<1> DEFINE s == Cur(r)
<1>c. ASSUME pc[r] \notin {"begin", "exit"}
      PROVE  idx[r] <= Len(StepsOf[r]) /\ s \in Steps /\ Step[s] \in StepType
  BY <1>c, CurrentStep DEF TypeOK
<1>f. frame[r] \in FrameType
  BY DEF TypeOK
<1>n. /\ frame[r].retries + 1 \in Nat
      /\ frame[r].retransmits + 1 \in Nat
      /\ frame[r].emitted + 1 \in Nat
  BY <1>f DEF FrameType
<1>o. ASSUME NEW o \in {"running", "failed", "ok", "skipped"}, s \in Steps
      PROVE  [outcome EXCEPT ![s] = o] \in [Steps -> Good \cup {"none", "running", "failed"}]
  BY <1>o DEF TypeOK, Good
<1>4. CASE CheckFailed(r)
  <2>1. s \in Steps /\ idx[r] <= Len(StepsOf[r])
    BY <1>4, <1>c DEF CheckFailed
  <2>2. /\ pc' \in [ActiveRoles -> Labels]
        /\ \A q \in ActiveRoles : q # r => pc'[q] = pc[q]
    BY <1>4, GotoType DEF CheckFailed, Labels
  <2>3. outcome' \in [Steps -> Good \cup {"none", "running", "failed"}]
    BY <1>4, <2>1, <1>o DEF CheckFailed, TypeOK
  <2> QED BY <1>4, <2>1, <2>2, <2>3, TypeByParts, Zenon DEF CheckFailed, TypeOK
<1>5. CASE Gate(r)
  <2>1. s \in Steps /\ idx[r] <= Len(StepsOf[r])
    BY <1>5, <1>c DEF Gate
  <2>2. /\ [frame[r] EXCEPT !.kind = "runtime"] \in FrameType
        /\ [frame[r] EXCEPT !.kind = "validation"] \in FrameType
        /\ Attempt([frame[r] EXCEPT !.iter = 1]) \in FrameType
    BY <1>f, Zenon DEF FrameType, Attempt, Kinds
  <2>3. outcome' \in [Steps -> Good \cup {"none", "running", "failed"}]
    BY <1>5, <2>1, <1>o, Zenon DEF Gate, TypeOK
  <2>4. /\ pc' \in [ActiveRoles -> Labels]
        /\ \A q \in ActiveRoles : q # r => pc'[q] = pc[q]
        /\ frame' \in [ActiveRoles -> FrameType]
        /\ counter' \in Nat
        /\ error' = NoFailure \/ error'.kind \in Kinds
    <3>l. {"setfail", "done_next", "execute"} \subseteq Labels \ {"push"}
      BY DEF Labels
    <3>1. CASE Goto(r, "execute") /\ frame' = [frame EXCEPT ![r] = Attempt([frame[r] EXCEPT !.iter = 1])]
               /\ UNCHANGED <<error, counter, outcome>>
      BY <3>1, <3>l, <2>2, GotoType DEF TypeOK
    <3>2. CASE \/ Stamp(r, [frame[r] EXCEPT !.kind = "runtime"], s, FALSE, "setfail")
               \/ Stamp(r, frame[r], s, TRUE, "done_next")
               \/ Stamp(r, [frame[r] EXCEPT !.kind = "validation"], s, FALSE, "setfail")
      BY <3>2, <3>l, <2>1, <2>2, <1>f, StampType, Zenon
    <3> QED BY <1>5, <3>1, <3>2, Zenon DEF Gate
  <2> QED BY <1>5, <2>1, <2>3, <2>4, TypeByParts, Zenon DEF Gate, TypeOK
<1>6. CASE ExecuteEmit(r)
  <2>1. s \in Steps /\ idx[r] <= Len(StepsOf[r]) /\ Step[s] \in StepType
    BY <1>6, <1>c DEF ExecuteEmit
  <2> DEFINE n == frame[r].emitted + 1
             g == [frame[r] EXCEPT !.emitted = n,
                     !.last_tx = IF Step[s].act \in {"send", "send_raw"} THEN Snapshot(s, n) ELSE @]
             next == IF n = Step[s].emits THEN "after" ELSE "execute"
  <2>2. n \in Nat
    BY <1>f DEF FrameType
  <2>3. Snapshot(s, n) \in [step : Steps, count : Nat]
    BY <2>1, <2>2 DEF Snapshot
  <2>4. g \in FrameType
    BY <1>f, <2>2, <2>3, Zenon DEF FrameType
  <2>5. next \in Labels \ {"push"}
    BY DEF Labels
  <2>6. Stamp(r, g, s, TRUE, next)
    BY <1>6, Zenon DEF ExecuteEmit
  <2>7. now' \in 0 .. MaxRuntime + 1
    BY <1>6, <2>1, AdvanceType DEF ExecuteEmit, StepType
  <2> HIDE DEF g, next
  <2> QED BY <1>6, <2>1, <2>4, <2>5, <2>6, <2>7, StampType, TypeByParts, Zenon DEF ExecuteEmit, TypeOK
<1>7. CASE ExecuteFail(r)
  <2>1. s \in Steps /\ idx[r] <= Len(StepsOf[r]) /\ Step[s] \in StepType
    BY <1>7, <1>c DEF ExecuteFail
  <2>2. PICK k \in Step[s].faults :
          \/ /\ Stamp(r, [frame[r] EXCEPT !.emitted = 0], s, TRUE, "retransmit")
             /\ Advance(Waited(s, k))
             /\ UNCHANGED outcome
          \/ /\ Stamp(r, [frame[r] EXCEPT !.retries = @ + 1, !.emitted = 0], s, TRUE, "execute")
             /\ Advance(Waited(s, k) + Step[s].backoff)
             /\ UNCHANGED outcome
          \/ /\ Stamp(r, [frame[r] EXCEPT !.kind = k], s, FALSE, "setfail")
             /\ Advance(Waited(s, k))
             /\ outcome' = [outcome EXCEPT ![s] = "failed"]
    BY <1>7, Zenon DEF ExecuteFail
  <2>3. /\ [frame[r] EXCEPT !.emitted = 0] \in FrameType
        /\ [frame[r] EXCEPT !.retries = @ + 1, !.emitted = 0] \in FrameType
        /\ [frame[r] EXCEPT !.kind = k] \in FrameType
    <3>1. k \in Kinds
      BY <2>1, <2>2 DEF StepType
    <3> QED BY <3>1, <1>f, <1>n, Zenon DEF FrameType
  <2>4. now' \in 0 .. MaxRuntime + 1
    <3>1. Waited(s, k) \in Nat /\ Waited(s, k) + Step[s].backoff \in Nat
      BY <2>1 DEF Waited, StepType
    <3> QED BY <2>2, <3>1, AdvanceType, Zenon
  <2>5. /\ pc' \in [ActiveRoles -> Labels]
        /\ \A q \in ActiveRoles : q # r => pc'[q] = pc[q]
        /\ frame' \in [ActiveRoles -> FrameType]
        /\ counter' \in Nat
        /\ error' = NoFailure \/ error'.kind \in Kinds
    <3>l. {"setfail", "retransmit", "execute"} \subseteq Labels \ {"push"}
      BY DEF Labels
    <3> QED BY <3>l, <2>1, <2>2, <2>3, StampType, Zenon
  <2>6. outcome' \in [Steps -> Good \cup {"none", "running", "failed"}]
    BY <2>1, <2>2, <1>o, Zenon DEF TypeOK
  <2> QED BY <1>7, <2>1, <2>4, <2>5, <2>6, TypeByParts DEF ExecuteFail
<1>8. CASE ExecutePanic(r)
  <2>1. s \in Steps /\ idx[r] <= Len(StepsOf[r])
    BY <1>8, <1>c DEF ExecutePanic
  <2>2. /\ pc' \in [ActiveRoles -> Labels]
        /\ \A q \in ActiveRoles : q # r => pc'[q] = pc[q]
    BY <1>8, GotoType DEF ExecutePanic, Labels
  <2>3. outcome' \in [Steps -> Good \cup {"none", "running", "failed"}]
    BY <1>8, <2>1, <1>o DEF ExecutePanic
  <2> QED BY <1>8, <2>1, <2>2, <2>3, TypeByParts, Zenon DEF ExecutePanic, TypeOK
<1>9. CASE Retransmit(r)
  <2>1. s \in Steps /\ idx[r] <= Len(StepsOf[r]) /\ Step[s] \in StepType
    BY <1>9, <1>c DEF Retransmit
  <2> DEFINE first == frame[r].last_tx.step
  <2>2. first \in Steps /\ Step[first] \in StepType
    <3>1. frame[r].last_tx # NoTx
      BY <1>9 DEF Retransmit, FailureInv, Loc
    <3> QED BY <3>1, <1>f, ProgramAssumption DEF FrameType
  <2> HIDE DEF first
  <2>3. ASSUME NEW k \in Step[first].faults
        PROVE  [frame[r] EXCEPT !.kind = k] \in FrameType
    <3>1. k \in Kinds
      BY <2>2, <2>3 DEF StepType
    <3> QED BY <3>1, <1>f DEF FrameType
  <2>4. /\ [frame[r] EXCEPT !.emitted = 0, !.retransmits = @ + 1] \in FrameType
        /\ [frame[r] EXCEPT !.emitted = frame[r].emitted + 1] \in FrameType
    BY <1>f, <1>n, Zenon DEF FrameType
  <2>5. /\ pc' \in [ActiveRoles -> Labels]
        /\ \A q \in ActiveRoles : q # r => pc'[q] = pc[q]
        /\ frame' \in [ActiveRoles -> FrameType]
        /\ counter' \in Nat
        /\ error' = NoFailure \/ error'.kind \in Kinds
    <3>l. {"setfail", "retransmit", "execute"} \subseteq Labels \ {"push"}
      BY DEF Labels
    <3>1. \/ Stamp(r, [frame[r] EXCEPT !.emitted = 0, !.retransmits = @ + 1], first, TRUE, "execute")
          \/ Stamp(r, [frame[r] EXCEPT !.emitted = frame[r].emitted + 1], first, TRUE, "retransmit")
          \/ \E k \in Step[first].faults : Stamp(r, [frame[r] EXCEPT !.kind = k], first, FALSE, "setfail")
      BY <1>9, Zenon DEF Retransmit, first
    <3> QED BY <3>l, <3>1, <2>2, <2>3, <2>4, StampType, Zenon
  <2>6. now' \in 0 .. MaxRuntime + 1
    <3>1. Step[first].delay \in Nat
      BY <2>2 DEF StepType
    <3>2. Advance(Step[first].delay) \/ UNCHANGED now
      BY <1>9, Zenon DEF Retransmit, first
    <3> QED BY <3>1, <3>2, AdvanceType DEF TypeOK
  <2>7. outcome' \in [Steps -> Good \cup {"none", "running", "failed"}]
    BY <1>9, <2>1, <1>o, Zenon DEF Retransmit, TypeOK
  <2> QED BY <1>9, <2>1, <2>5, <2>6, <2>7, TypeByParts DEF Retransmit
<1>10. CASE Push(r)
  <2>1. idx[r] <= Len(StepsOf[r])
    BY <1>10, <1>c DEF Push
  <2>2. frame[r].next \in Labels
    BY <1>f DEF FrameType
  <2>3. /\ pc' \in [ActiveRoles -> Labels]
        /\ \A q \in ActiveRoles : q # r => pc'[q] = pc[q]
    BY <1>10, <2>2, GotoType DEF Push
  <2>4. [frame[r] EXCEPT !.event = NoEvent] \in FrameType
    BY <1>f DEF FrameType
  <2>5. frame' \in [ActiveRoles -> FrameType]
    BY <1>10, <2>4 DEF Push, TypeOK
  <2>6. frame[r].event \in EventType
    BY <1>10 DEF Push, TraceInv, Pushing
  <2>7. trace' \subseteq EventType
    BY <1>10, <2>6 DEF Push, TypeOK
  <2> QED BY <1>10, <2>1, <2>3, <2>5, <2>7 DEF Push, TypeOK
<1>11. CASE After(r)
  <2>1. s \in Steps /\ idx[r] <= Len(StepsOf[r]) /\ Step[s] \in StepType
    BY <1>11, <1>c DEF After
  <2>2. /\ pc' \in [ActiveRoles -> Labels]
        /\ \A q \in ActiveRoles : q # r => pc'[q] = pc[q]
    BY <1>11, GotoType DEF After, Labels
  <2>3. outcome' \in [Steps -> Good \cup {"none", "running", "failed"}]
    BY <1>11, <2>1, <1>o DEF After, TypeOK
  <2>4. error' = NoFailure \/ error'.kind \in Kinds
    BY <1>11, SetFailureType DEF After, Kinds, TypeOK
  <2>5. frame' \in [ActiveRoles -> FrameType]
    <3>1. frame[r].iter + 1 \in Nat
      BY <1>f DEF FrameType
    <3>2. Attempt([frame[r] EXCEPT !.iter = @ + 1]) \in FrameType
      BY <3>1, <1>f, Zenon DEF FrameType, Attempt
    <3>3. ASSUME NEW v \in States
          PROVE  [frame[r] EXCEPT !.state = v] \in FrameType
      BY <1>f DEF FrameType
    <3>4. (IF Step[s].to_state = "-" THEN frame[r].state ELSE Step[s].to_state) \in States
      BY <1>f, <2>1 DEF FrameType, StepType
    <3>5. \E g \in FrameType : frame' = [frame EXCEPT ![r] = g]
      BY <1>11, <1>f, <3>2, <3>3, <3>4 DEF After, TypeOK
    <3> QED BY <3>5 DEF TypeOK
  <2> QED BY <1>11, <2>1, <2>2, <2>3, <2>4, <2>5, TypeByParts DEF After, TypeOK
<1>12. CASE SetFail(r)
  <2>1. idx[r] <= Len(StepsOf[r])
    BY <1>12, <1>c DEF SetFail
  <2>2. frame[r].kind \in Kinds
    BY <1>12 DEF SetFail, FailureInv, Loc
  <2>3. error' = NoFailure \/ error'.kind \in Kinds
    BY <1>12, <2>2, SetFailureType DEF SetFail
  <2>4. /\ pc' \in [ActiveRoles -> Labels]
        /\ \A q \in ActiveRoles : q # r => pc'[q] = pc[q]
    BY <1>12, GotoType DEF SetFail, Labels
  <2> QED BY <1>12, <2>1, <2>3, <2>4, TypeByParts DEF SetFail, TypeOK
<1>13. CASE MarkDone(r)
  <2>1. s \in Steps /\ idx[r] <= Len(StepsOf[r])
    BY <1>13, <1>c DEF MarkDone
  <2>2. /\ pc' \in [ActiveRoles -> Labels]
        /\ pc'[r] \in {"begin", "exit"}
        /\ \A q \in ActiveRoles : q # r => pc'[q] = pc[q]
    BY <1>13, GotoType DEF MarkDone, Labels
  <2> QED BY <1>13, <2>1, <2>2 DEF MarkDone, TypeOK
<1> QED
  BY <1>1, <1>2, <1>3, <1>4, <1>5, <1>6, <1>7, <1>8, <1>9, <1>10, <1>11, <1>12, <1>13 DEF RoleStep

(* Every step of the engine keeps the types. *)
LEMMA TypeStep ==
  ASSUME IndInv, [Next]_vars
  PROVE  TypeOK'
<1> USE DEF IndInv
<1>1. CASE \E r \in ActiveRoles : RoleStep(r)
  BY <1>1, TypeRoleStep
<1>2. CASE Join
  <2>1. error' = NoFailure \/ error'.kind \in Kinds
    BY <1>2, SetFailureType DEF Join, Kinds, TypeOK
  <2> QED BY <1>2, <2>1 DEF Join, TypeOK
<1>3. CASE Return
  <2>1. error' = NoFailure \/ error'.kind \in Kinds
    BY <1>3, SetFailureType, LimitAssumption DEF Return, TypeOK
  <2>2. result' \in {"ok", "err"}
    BY <1>3 DEF Return
  <2> QED BY <1>3, <2>1, <2>2 DEF Return, TypeOK
<1>4. CASE Tick
  BY <1>4, LimitAssumption DEF Tick, TypeOK, OverTime
<1>5. CASE UNCHANGED vars
  BY <1>5 DEF TypeOK, vars
<1> QED BY <1>1, <1>2, <1>3, <1>4, <1>5 DEF Next, Returned
=============================================================================
