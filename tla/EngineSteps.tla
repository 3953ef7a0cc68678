---------------------------- MODULE EngineSteps -----------------------------
(* Each action of a role thread keeps IndInv. *)
EXTENDS EngineMoves, TLAPS

(* A thread that only moves, without touching its frame, moves alone. *)
LEMMA GotoAlone ==
  ASSUME TypeOK, NEW r \in ActiveRoles, NEW l \in Labels, Goto(r, l),
         \A q \in ActiveRoles : q # r => frame'[q] = frame[q],
         error # NoFailure => error' # NoFailure,
         UNCHANGED <<deps, joined, result>>
  PROVE  Alone(r)
  BY DEF Goto, TypeOK, Alone

(* Begin, wait_deps and the failed() check keep IndInv. *)
LEMMA WaitSteps ==
  ASSUME IndInv, TypeOK', NEW r \in ActiveRoles,
         Begin(r) \/ WaitDeps(r) \/ PollDeps(r) \/ CheckFailed(r)
  PROVE  IndInv'
<1> USE DEF IndInv
<1>0. ASSUME pc[r] \in {"begin", "wait", "poll", "check"}, idx[r] <= Len(StepsOf[r])
      PROVE  /\ Cur(r) \in Steps
             /\ outcome[Cur(r)] = "none"
             /\ pc[r] = "check" => deps[Cur(r)] \subseteq completed
  <2>1. Cur(r) \in Steps /\ idx[r] \in DOMAIN StepsOf[r]
    BY <1>0, CurrentStep
  <2>2. outcome[Cur(r)] \in Allowed(Loc(r)) /\ Loc(r) = pc[r]
    BY <1>0, <2>1 DEF ProgressInv, Cur, Loc
  <2>3. outcome[Cur(r)] = "none"
    BY <1>0, <2>2, AllowedCases
  <2>4. pc[r] = "check" => deps[Cur(r)] \subseteq completed
    BY <2>2 DEF FailureInv
  <2> QED BY <2>1, <2>3, <2>4
<1>1. CASE Begin(r)
  <2>1. PICK l \in {"exit", "wait"} :
          /\ Goto(r, l)
          /\ l = "exit" => error' # NoFailure \/ idx[r] > Len(StepsOf[r])
          /\ error # NoFailure => error' # NoFailure
    BY <1>1, FailureStays, Zenon DEF Begin, Kinds
  <2>2. l \in Labels \ {"push"} /\ pc[r] = "begin" /\ UNCHANGED outcome
    BY <1>1 DEF Begin, Labels
  <2>3. UNCHANGED <<deps, idx, frame, completed, counter, trace, joined, result>>
    BY <1>1 DEF Begin
  <2>4. Alone(r) /\ Outcomes(r)
    BY <2>1, <2>2, <2>3, GotoAlone DEF Outcomes
  <2>5. idx[r] <= Len(StepsOf[r]) => outcome'[Cur(r)] \in Allowed(l)
    BY <1>0, <2>1, <2>2, AllowedCases
  <2> QED BY <2>1, <2>2, <2>3, <2>4, <2>5, QuietInv, Zenon
<1>2. CASE WaitDeps(r)
  <2>1. PICK l \in {"check", "poll"} :
          /\ Goto(r, l)
          /\ l = "check" => deps[Cur(r)] \subseteq completed
    BY <1>2 DEF WaitDeps
  <2>2. l \in Labels \ {"push"} /\ pc[r] = "wait" /\ UNCHANGED <<outcome, error>>
    BY <1>2 DEF WaitDeps, Labels
  <2>3. UNCHANGED <<deps, idx, frame, completed, counter, trace, joined, result>>
    BY <1>2 DEF WaitDeps
  <2>4. Alone(r) /\ Outcomes(r)
    BY <2>1, <2>2, <2>3, GotoAlone DEF Outcomes
  <2>5. idx[r] <= Len(StepsOf[r]) => outcome'[Cur(r)] \in Allowed(l)
    BY <1>0, <2>1, <2>2, AllowedCases
  <2> QED BY <2>1, <2>2, <2>3, <2>4, <2>5, QuietInv
<1>3. CASE PollDeps(r)
  <2>1. PICK l \in {"exit", "wait"} :
          /\ Goto(r, l)
          /\ l = "exit" => error' # NoFailure
          /\ error # NoFailure => error' # NoFailure
    BY <1>3, FailureStays DEF PollDeps, Kinds
  <2>2. l \in Labels \ {"push"} /\ pc[r] = "poll" /\ UNCHANGED outcome
    BY <1>3 DEF PollDeps, Labels
  <2>3. UNCHANGED <<deps, idx, frame, completed, counter, trace, joined, result>>
    BY <1>3 DEF PollDeps
  <2>4. Alone(r) /\ Outcomes(r)
    BY <2>1, <2>2, <2>3, GotoAlone DEF Outcomes
  <2>5. idx[r] <= Len(StepsOf[r]) => outcome'[Cur(r)] \in Allowed(l)
    BY <1>0, <2>1, <2>2, AllowedCases
  <2> QED BY <2>1, <2>2, <2>3, <2>4, <2>5, QuietInv
<1>4. CASE CheckFailed(r)
  <2>0. pc[r] = "check" /\ idx[r] <= Len(StepsOf[r])
    BY <1>4 DEF CheckFailed, TypeOK
  <2>c. Cur(r) \in Steps /\ outcome[Cur(r)] = "none" /\ deps[Cur(r)] \subseteq completed
    BY <1>0, <2>0
  <2>1. PICK l \in {"exit", "gate"} :
          /\ Goto(r, l)
          /\ l = "exit" => error # NoFailure /\ UNCHANGED outcome
          /\ l = "gate" => error = NoFailure /\ outcome' = [outcome EXCEPT ![Cur(r)] = "running"]
    BY <1>4 DEF CheckFailed
  <2>2. l \in Labels \ {"push"} /\ UNCHANGED error
    BY <1>4 DEF CheckFailed, Labels
  <2>3. UNCHANGED <<deps, idx, frame, completed, counter, trace, joined, result>>
    BY <1>4 DEF CheckFailed
  <2>4. Alone(r)
    BY <2>1, <2>2, <2>3, GotoAlone
  <2>5. Outcomes(r)
    BY <2>0, <2>c, <2>1, Zenon DEF Outcomes, TypeOK
  <2>6. outcome'[Cur(r)] \in Allowed(l)
    BY <2>c, <2>1, AllowedCases, ZenonT(30) DEF TypeOK
  <2> QED BY <2>0, <2>1, <2>2, <2>3, <2>4, <2>5, <2>6, QuietInv
<1> QED BY <1>1, <1>2, <1>3, <1>4

(* What holds of the current step while it runs. *)
LEMMA Running ==
  ASSUME IndInv, NEW r \in ActiveRoles, pc[r] \in {"gate", "execute", "retransmit", "after"}
  PROVE  /\ idx[r] <= Len(StepsOf[r])
         /\ Cur(r) \in Steps /\ Step[Cur(r)] \in StepType
         /\ outcome[Cur(r)] = "running"
         /\ frame[r] \in FrameType
<1> USE DEF IndInv
<1>1. idx[r] <= Len(StepsOf[r])
  BY DEF TypeOK
<1>2. Cur(r) \in Steps /\ Step[Cur(r)] \in StepType /\ idx[r] \in DOMAIN StepsOf[r]
  BY <1>1, CurrentStep
<1>3. outcome[Cur(r)] \in Allowed(Loc(r)) /\ Loc(r) = pc[r]
  BY <1>2 DEF ProgressInv, Cur, Loc
<1>4. frame[r] \in FrameType
  BY DEF TypeOK
<1> HIDE DEF IndInv
<1>5. outcome[Cur(r)] = "running"
  BY <1>3, AllowedCases
<1> QED BY <1>1, <1>2, <1>4, <1>5

(* Gate keeps IndInv: skip, run or fail the step. *)
LEMMA GateStep ==
  ASSUME IndInv, TypeOK', NEW r \in ActiveRoles, Gate(r)
  PROVE  IndInv'
<1> DEFINE s == Cur(r)
<1>1. pc[r] = "gate" /\ UNCHANGED <<deps, idx, completed, trace, joined, result>>
  BY DEF Gate
<1>2. /\ idx[r] <= Len(StepsOf[r]) /\ s \in Steps /\ outcome[s] = "running"
      /\ frame[r] \in FrameType
  BY <1>1, Running
<1>l. {"setfail", "done_next", "execute"} \subseteq Labels \ {"push"}
  BY DEF Labels
<1>3. CASE /\ Stamp(r, [frame[r] EXCEPT !.kind = "runtime"], s, FALSE, "setfail")
           /\ outcome' = [outcome EXCEPT ![s] = "failed"]
  <2> DEFINE g == [frame[r] EXCEPT !.kind = "runtime"]
  <2>1. g \in FrameType /\ g.kind \in Kinds
    BY <1>2 DEF FrameType, Kinds
  <2> HIDE DEF g
  <2>2. Stamp(r, g, s, FALSE, "setfail")
    BY <1>3, Zenon DEF g
  <2> QED BY <1>1, <1>2, <1>3, <1>l, <2>1, <2>2, StampInv, AllowedCases, Zenon
<1>4. CASE /\ Stamp(r, [frame[r] EXCEPT !.kind = "validation"], s, FALSE, "setfail")
           /\ outcome' = [outcome EXCEPT ![s] = "failed"]
  <2> DEFINE g == [frame[r] EXCEPT !.kind = "validation"]
  <2>1. g \in FrameType /\ g.kind \in Kinds
    BY <1>2 DEF FrameType, Kinds
  <2> HIDE DEF g
  <2>2. Stamp(r, g, s, FALSE, "setfail")
    BY <1>4, Zenon DEF g
  <2> QED BY <1>1, <1>2, <1>4, <1>l, <2>1, <2>2, StampInv, AllowedCases, Zenon
<1>5. CASE /\ Stamp(r, frame[r], s, TRUE, "done_next")
           /\ outcome' = [outcome EXCEPT ![s] = "skipped"]
  BY <1>1, <1>2, <1>5, <1>l, StampInv, AllowedCases, Zenon
<1>6. CASE /\ Goto(r, "execute")
           /\ \E g : frame' = [frame EXCEPT ![r] = g]
           /\ UNCHANGED <<error, counter, outcome>>
  <2>1. TypeOK /\ \A q \in ActiveRoles : q # r => frame'[q] = frame[q]
    BY <1>6 DEF IndInv, TypeOK
  <2>2. Alone(r)
    BY <1>1, <1>6, <1>l, <2>1, GotoAlone
  <2>3. Outcomes(r)
    BY <1>6 DEF Outcomes
  <2> QED BY <1>1, <1>2, <1>6, <1>l, <2>2, <2>3, QuietInv, AllowedCases
<1> QED BY <1>3, <1>4, <1>5, <1>6, Zenon DEF Gate

(* execute_step records an event: IndInv is kept. *)
LEMMA ExecuteEmitStep ==
  ASSUME IndInv, TypeOK', NEW r \in ActiveRoles, ExecuteEmit(r)
  PROVE  IndInv'
<1> DEFINE s == Cur(r)
           n == frame[r].emitted + 1
           g == [frame[r] EXCEPT !.emitted = n,
                   !.last_tx = IF Step[s].act \in {"send", "send_raw"} THEN Snapshot(s, n) ELSE @]
           next == IF n = Step[s].emits THEN "after" ELSE "execute"
<1>1. /\ pc[r] = "execute" /\ Stamp(r, g, s, TRUE, next)
      /\ UNCHANGED <<deps, idx, completed, trace, joined, result, outcome>>
  BY Zenon DEF ExecuteEmit
<1>2. /\ s \in Steps /\ frame[r] \in FrameType
  BY <1>1, Running
<1>3. n \in Nat
  BY <1>2 DEF FrameType
<1>4. Snapshot(s, n) \in [step : Steps, count : Nat]
  BY <1>2, <1>3 DEF Snapshot
<1>5. g \in FrameType
  BY <1>2, <1>3, <1>4, Zenon DEF FrameType
<1>6. next \in Labels \ {"push"} /\ next \in {"execute", "after"}
  BY DEF Labels
<1> HIDE DEF g, next
<1>7. Allowed(next) = {"running"} /\ next \notin {"setfail", "retransmit"}
  BY <1>6, AllowedCases
<1> QED BY <1>1, <1>2, <1>5, <1>6, <1>7, StampInv, Zenon

(* A stamp that reports the failure k of the current step keeps IndInv. *)
LEMMA FailStamp ==
  ASSUME IndInv, TypeOK', NEW r \in ActiveRoles, NEW k \in Kinds, NEW step \in Steps,
         Stamp(r, [frame[r] EXCEPT !.kind = k], step, FALSE, "setfail"),
         pc[r] \in {"execute", "retransmit"},
         outcome' = [outcome EXCEPT ![Cur(r)] = "failed"],
         UNCHANGED <<deps, idx, completed, trace, joined, result>>
  PROVE  IndInv'
<1> DEFINE g == [frame[r] EXCEPT !.kind = k]
<1>1. frame[r] \in FrameType
  BY Running
<1>2. g \in FrameType /\ g.kind \in Kinds
  BY <1>1 DEF FrameType
<1>3. "setfail" \in Labels \ {"push"}
  BY DEF Labels
<1>4. Stamp(r, g, step, FALSE, "setfail")
  OBVIOUS
<1> HIDE DEF g
<1> QED BY <1>2, <1>3, <1>4, StampInv, AllowedCases, Zenon

(* A stamp after which the current step goes on keeps IndInv. *)
LEMMA GoOnStamp ==
  ASSUME IndInv, TypeOK', NEW r \in ActiveRoles, NEW g \in FrameType, NEW step \in Steps,
         NEW next \in Labels \ {"push"}, next \in {"execute", "retransmit"},
         Stamp(r, g, step, TRUE, next),
         pc[r] \in {"execute", "retransmit"},
         g.last_tx # NoTx \/ next = "execute",
         UNCHANGED <<deps, idx, completed, trace, joined, result, outcome>>
  PROVE  IndInv'
<1>1. Allowed(next) = {"running"} /\ next # "setfail"
  BY AllowedCases
<1> QED BY <1>1, StampInv, Zenon

(* execute_step fails: the retransmission, the retry and the failure keep IndInv. *)
LEMMA ExecuteFailStep ==
  ASSUME IndInv, TypeOK', NEW r \in ActiveRoles, ExecuteFail(r)
  PROVE  IndInv'
<1> DEFINE s == Cur(r)
           f == frame[r]
<1>1. pc[r] = "execute" /\ UNCHANGED <<deps, idx, completed, trace, joined, result>>
  BY DEF ExecuteFail
<1>2. s \in Steps /\ Step[s] \in StepType /\ f \in FrameType
  BY <1>1, Running
<1>3. PICK k \in Step[s].faults :
        \/ /\ MayRetransmit(s, f, k)
           /\ Stamp(r, [f EXCEPT !.emitted = 0], s, TRUE, "retransmit")
           /\ UNCHANGED outcome
        \/ /\ Stamp(r, [f EXCEPT !.retries = @ + 1, !.emitted = 0], s, TRUE, "execute")
           /\ UNCHANGED outcome
        \/ /\ Stamp(r, [f EXCEPT !.kind = k], s, FALSE, "setfail")
           /\ outcome' = [outcome EXCEPT ![s] = "failed"]
  BY Zenon DEF ExecuteFail
<1>4. k \in Kinds
  BY <1>2, <1>3 DEF StepType
<1>l. {"retransmit", "execute"} \subseteq Labels \ {"push"}
  BY DEF Labels
<1>5. CASE /\ MayRetransmit(s, f, k)
           /\ Stamp(r, [f EXCEPT !.emitted = 0], s, TRUE, "retransmit")
           /\ UNCHANGED outcome
  <2> DEFINE g == [f EXCEPT !.emitted = 0]
  <2>1. g \in FrameType /\ g.last_tx # NoTx
    BY <1>2, <1>5 DEF FrameType, MayRetransmit
  <2>2. Stamp(r, g, s, TRUE, "retransmit")
    BY <1>5, Zenon
  <2> HIDE DEF g, s, f
  <2> QED BY <1>1, <1>2, <1>5, <1>l, <2>1, <2>2, GoOnStamp, Zenon
<1>6. CASE /\ Stamp(r, [f EXCEPT !.retries = @ + 1, !.emitted = 0], s, TRUE, "execute")
           /\ UNCHANGED outcome
  <2> DEFINE g == [f EXCEPT !.retries = @ + 1, !.emitted = 0]
  <2>0. f.retries + 1 \in Nat
    BY <1>2 DEF FrameType
  <2>1. g \in FrameType
    BY <1>2, <2>0, Zenon DEF FrameType
  <2>2. Stamp(r, g, s, TRUE, "execute")
    BY <1>6, Zenon
  <2> HIDE DEF g, s, f
  <2> QED BY <1>1, <1>2, <1>6, <1>l, <2>1, <2>2, GoOnStamp, Zenon
<1>7. CASE /\ Stamp(r, [f EXCEPT !.kind = k], s, FALSE, "setfail")
           /\ outcome' = [outcome EXCEPT ![s] = "failed"]
  BY <1>1, <1>2, <1>4, <1>7, FailStamp, Zenon
<1> QED BY <1>3, <1>5, <1>6, <1>7, Zenon

(* retransmit_snapshot keeps IndInv. *)
LEMMA RetransmitStep ==
  ASSUME IndInv, TypeOK', NEW r \in ActiveRoles, Retransmit(r)
  PROVE  IndInv'
<1> DEFINE f == frame[r]
           first == f.last_tx.step
<1>1. pc[r] = "retransmit" /\ UNCHANGED <<deps, idx, completed, trace, joined, result>>
  BY DEF Retransmit
<1>2. f \in FrameType
  BY <1>1, Running
<1>3. f.last_tx # NoTx
  BY <1>1 DEF IndInv, FailureInv, Loc
<1>4. first \in Steps /\ Step[first] \in StepType
  BY <1>2, <1>3, ProgramAssumption DEF FrameType
<1>l. {"retransmit", "execute"} \subseteq Labels \ {"push"}
  BY DEF Labels
<1>n. f.emitted + 1 \in Nat /\ f.retransmits + 1 \in Nat
  BY <1>2 DEF FrameType
<1>5. CASE /\ Stamp(r, [f EXCEPT !.emitted = 0, !.retransmits = @ + 1], first, TRUE, "execute")
           /\ UNCHANGED outcome
  <2> DEFINE g == [f EXCEPT !.emitted = 0, !.retransmits = @ + 1]
  <2>1. g \in FrameType
    BY <1>2, <1>n, Zenon DEF FrameType
  <2>2. Stamp(r, g, first, TRUE, "execute")
    BY <1>5, Zenon
  <2> HIDE DEF g, first, f
  <2> QED BY <1>1, <1>4, <1>5, <1>l, <2>1, <2>2, GoOnStamp, Zenon
<1>6. CASE /\ Stamp(r, [f EXCEPT !.emitted = f.emitted + 1], first, TRUE, "retransmit")
           /\ UNCHANGED outcome
  <2> DEFINE g == [f EXCEPT !.emitted = f.emitted + 1]
  <2>1. g \in FrameType /\ g.last_tx # NoTx
    BY <1>2, <1>3, <1>n DEF FrameType
  <2>2. Stamp(r, g, first, TRUE, "retransmit")
    BY <1>6, Zenon
  <2> HIDE DEF g, first, f
  <2> QED BY <1>1, <1>4, <1>6, <1>l, <2>1, <2>2, GoOnStamp, Zenon
<1>7. CASE /\ \E k \in Step[first].faults : Stamp(r, [f EXCEPT !.kind = k], first, FALSE, "setfail")
           /\ outcome' = [outcome EXCEPT ![Cur(r)] = "failed"]
  <2>1. PICK k \in Step[first].faults : Stamp(r, [f EXCEPT !.kind = k], first, FALSE, "setfail")
    BY <1>7, Zenon
  <2>2. k \in Kinds
    BY <1>4, <2>1 DEF StepType
  <2> HIDE DEF first
  <2> QED BY <1>1, <1>4, <1>7, <2>1, <2>2, FailStamp, Zenon
<1> QED BY <1>5, <1>6, <1>7, Zenon DEF Retransmit

(* A panic, the end of an execution and set_failure keep IndInv. *)
LEMMA EndSteps ==
  ASSUME IndInv, TypeOK', NEW r \in ActiveRoles, ExecutePanic(r) \/ After(r) \/ SetFail(r)
  PROVE  IndInv'
<1> USE DEF IndInv
<1> DEFINE s == Cur(r)
<1>l. {"panicked", "done_exit", "execute", "done_next"} \subseteq Labels \ {"push"}
  BY DEF Labels
<1>1. CASE ExecutePanic(r)
  <2>1. /\ pc[r] = "execute" /\ Goto(r, "panicked")
        /\ outcome' = [outcome EXCEPT ![s] = "failed"]
        /\ UNCHANGED <<deps, idx, frame, completed, error, counter, trace, joined, result>>
    BY <1>1 DEF ExecutePanic
  <2>2. idx[r] <= Len(StepsOf[r]) /\ s \in Steps /\ outcome[s] = "running"
    BY <2>1, Running
  <2>3. Alone(r)
    BY <1>l, <2>1, GotoAlone, Zenon
  <2>4. Outcomes(r) /\ outcome'[s] = "failed"
    BY <2>1, <2>2, Zenon DEF Outcomes, TypeOK
  <2> QED BY <1>l, <2>1, <2>2, <2>3, <2>4, QuietInv, AllowedCases, Zenon
<1>2. CASE After(r)
  <2>1. pc[r] = "after" /\ UNCHANGED <<deps, idx, completed, counter, trace, joined, result>>
    BY <1>2 DEF After
  <2>2. idx[r] <= Len(StepsOf[r]) /\ s \in Steps /\ outcome[s] = "running"
    BY <2>1, Running
  <2>3. PICK l \in {"done_exit", "execute", "done_next"} :
          /\ Goto(r, l)
          /\ l = "done_exit" => /\ outcome' = [outcome EXCEPT ![s] = "failed"]
                                /\ error' # NoFailure
          /\ l = "execute" => UNCHANGED <<error, outcome>>
          /\ l = "done_next" => UNCHANGED error /\ outcome' = [outcome EXCEPT ![s] = "ok"]
    BY <1>2, FailureStays DEF After, Kinds
  <2>4. \A q \in ActiveRoles : q # r => frame'[q] = frame[q]
    BY <1>2 DEF After, TypeOK
  <2>5. Alone(r)
    BY <1>l, <2>1, <2>3, <2>4, GotoAlone
  <2>6. Outcomes(r)
    BY <2>2, <2>3 DEF Outcomes, TypeOK
  <2>7. outcome'[s] \in Allowed(l)
    BY <2>2, <2>3, AllowedCases, SMTT(30) DEF TypeOK
  <2> QED BY <1>l, <2>1, <2>2, <2>3, <2>5, <2>6, <2>7, QuietInv, Zenon
<1>3. CASE SetFail(r)
  <2>1. /\ pc[r] = "setfail" /\ Goto(r, "done_exit") /\ SetFailure(r, frame[r].kind)
        /\ UNCHANGED <<deps, idx, frame, completed, counter, trace, joined, result, outcome>>
    BY <1>3, Zenon DEF SetFail
  <2>2. error' # NoFailure
    BY <2>1, FailureStays DEF FailureInv, Loc
  <2>3. Alone(r) /\ Outcomes(r)
    BY <1>l, <2>1, <2>2, GotoAlone, Zenon DEF Outcomes
  <2>4. idx[r] <= Len(StepsOf[r]) /\ idx[r] \in DOMAIN StepsOf[r]
    BY <2>1, CurrentStep, Zenon DEF TypeOK
  <2>5. outcome[s] \in Allowed(Loc(r)) /\ Loc(r) = "setfail"
    BY <2>1, <2>4, Zenon DEF ProgressInv, Cur, Loc
  <2> QED BY <1>l, <2>1, <2>2, <2>3, <2>4, <2>5, QuietInv, AllowedCases, Zenon
<1> QED BY <1>1, <1>2, <1>3

(* Pushing the stamped event keeps IndInv. *)
LEMMA PushStep ==
  ASSUME IndInv, TypeOK', NEW r \in ActiveRoles, Push(r)
  PROVE  IndInv'
<1> USE DEF IndInv
<1> DEFINE ev == frame[r].event
<1>1. /\ pc[r] = "push" /\ trace' = trace \cup {ev} /\ Goto(r, frame[r].next)
      /\ frame' = [frame EXCEPT ![r].event = NoEvent]
      /\ UNCHANGED <<deps, idx, completed, error, counter, joined, result, outcome>>
  BY DEF Push
<1>2. frame[r] \in FrameType /\ frame[r].next \in Labels \ {"push"}
  BY DEF TypeOK, FrameType
<1>3. frame'[r] = [frame[r] EXCEPT !.event = NoEvent]
  BY <1>1 DEF TypeOK
<1>4. frame'[r].kind = frame[r].kind /\ frame'[r].last_tx = frame[r].last_tx
  BY <1>2, <1>3 DEF FrameType
<1>5. pc'[r] = frame[r].next /\ Loc(r)' = Loc(r)
  BY <1>1, <1>2 DEF Goto, Loc, TypeOK
<1>6. \A q \in ActiveRoles : q # r => pc'[q] = pc[q] /\ frame'[q] = frame[q]
  BY <1>1 DEF Goto, TypeOK
<1>7. Alone(r) /\ Outcomes(r)
  BY <1>1, <1>6 DEF Alone, Outcomes
<1>8. idx[r] <= Len(StepsOf[r]) /\ idx[r] \in DOMAIN StepsOf[r]
  BY <1>1, CurrentStep, Zenon DEF TypeOK
<1>9. ProgressInv'
  <2>1. outcome'[Cur(r)] \in Allowed(Loc(r)')
    BY <1>1, <1>5, <1>8 DEF ProgressInv, Cur
  <2>2. outcome' \in [Steps -> Good \cup {"none", "running", "failed"}]
    BY DEF TypeOK
  <2> QED BY <1>1, <1>7, <2>1, <2>2, MoveProgress
<1>10. FailureInv'
  <2>1. /\ Loc(r) = "done_exit" => error # NoFailure
        /\ Loc(r) = "exit" /\ error = NoFailure => idx[r] > Len(StepsOf[r])
        /\ Loc(r) = "check" => deps[Cur(r)] \subseteq completed
        /\ Loc(r) = "setfail" => frame[r].kind \in Kinds
        /\ Loc(r) = "retransmit" => frame[r].last_tx # NoTx
    BY DEF FailureInv
  <2> QED BY <1>1, <1>4, <1>5, <1>7, <2>1, MoveFailure
<1>11. JoinInv' /\ DependentsOfFailedNeverRun'
  BY <1>1, <1>7, ThreadJoin DEF DependentsOfFailedNeverRun
<1>12. TraceInv'
  <2>1. r \in Pushing /\ Pushing' = Pushing \ {r}
    BY <1>1, <1>2, <1>5, <1>6 DEF Pushing
  <2>2. /\ ev \in EventType /\ ev.role = r /\ ev.seq < counter
        /\ ~ev.ok => frame[r].next = "setfail"
    BY <2>1 DEF TraceInv
  <2>3. ASSUME NEW q \in Pushing'
        PROVE  q \in Pushing /\ frame'[q] = frame[q]
    BY <1>6, <2>1, <2>3 DEF Pushing
  <2>4. ASSUME NEW e \in trace'
        PROVE  /\ e.seq < counter
               /\ ~e.ok => error # NoFailure \/ Loc(e.role)' = "setfail"
    <3>1. CASE e = ev
      BY <1>1, <1>5, <2>2, <3>1 DEF Loc
    <3>2. CASE e \in trace
      <4>1. e.role \in ActiveRoles
        BY <3>2 DEF TypeOK, EventType
      <4>2. Loc(e.role)' = Loc(e.role)
        BY <1>5, <1>6, <4>1 DEF Loc
      <4> QED BY <3>2, <4>2 DEF TraceInv
    <3> QED BY <1>1, <2>4, <3>1, <3>2
  <2>5. ASSUME NEW n \in 0 .. counter - 1, n < MaxTrace
        PROVE  (\E e \in trace' : e.seq = n) \/ (\E q \in Pushing' : frame'[q].event.seq = n)
    <3>1. CASE \E e \in trace : e.seq = n
      BY <1>1, <3>1
    <3>2. CASE \E q \in Pushing : frame[q].event.seq = n
      <4>1. PICK q \in Pushing : frame[q].event.seq = n
        BY <3>2
      <4>2. CASE q = r
        BY <1>1, <4>1, <4>2
      <4>3. CASE q # r
        BY <1>6, <2>1, <4>1, <4>3 DEF Pushing
      <4> QED BY <4>2, <4>3
    <3> QED BY <2>5, <3>1, <3>2, Zenon DEF TraceInv
  <2>6. counter > MaxTrace => error # NoFailure
    BY DEF TraceInv
  <2> DEFINE Ready(q, g) == /\ g.event \in EventType
                            /\ g.event.role = q
                            /\ g.event.seq < counter
                            /\ ~g.event.ok => g.next = "setfail"
  <2>7. \A q \in Pushing : Ready(q, frame[q])
    BY DEF TraceInv
  <2>8. \A q \in Pushing' : Ready(q, frame'[q])
    <3> HIDE DEF Ready
    <3> QED BY <2>3, <2>7
  <2>9. counter' = counter /\ error' = error
    BY <1>1
  <2> HIDE DEF IndInv
  <2> QED BY <2>4, <2>5, <2>6, <2>8, <2>9 DEF TraceInv
<1> QED BY <1>9, <1>10, <1>11, <1>12

(* mark_done keeps IndInv: a step done without an error went well. *)
LEMMA MarkDoneStep ==
  ASSUME IndInv, TypeOK', NEW r \in ActiveRoles, MarkDone(r)
  PROVE  IndInv'
<1> USE DEF IndInv
<1> DEFINE c == Cur(r)
<1>1. /\ pc[r] \in {"done_next", "done_exit"}
      /\ completed' = completed \cup {c}
      /\ UNCHANGED <<deps, frame, error, counter, trace, joined, result, outcome>>
  BY DEF MarkDone
<1>2. /\ pc[r] = "done_next" => pc'[r] = "begin" /\ idx'[r] = idx[r] + 1
      /\ pc[r] = "done_exit" => pc'[r] = "exit" /\ idx'[r] = idx[r]
      /\ \A q \in ActiveRoles : q # r => pc'[q] = pc[q] /\ idx'[q] = idx[q]
  BY DEF MarkDone, Goto, TypeOK
<1>3. idx[r] \in DOMAIN StepsOf[r] /\ c = StepsOf[r][idx[r]] /\ c \in Steps
  BY <1>1, CurrentStep, Zenon DEF TypeOK, Cur
<1>4. /\ pc[r] = "done_next" => outcome[c] \in {"ok", "skipped"}
      /\ pc[r] = "done_exit" => outcome[c] = "failed" /\ error # NoFailure
  <2>1. outcome[c] \in Allowed(Loc(r)) /\ Loc(r) = pc[r]
    BY <1>1, <1>3 DEF ProgressInv, Loc
  <2> QED BY <2>1, AllowedCases DEF FailureInv
<1>5. Alone(r)
  BY <1>1, <1>2, Zenon DEF Alone
<1>6. ASSUME NEW q \in ActiveRoles, q # r
      PROVE  Loc(q)' = Loc(q) /\ Cur(q)' = Cur(q)
  BY <1>1, <1>2, <1>6 DEF Loc, Cur
<1>7. Loc(r)' = pc'[r] /\ pc'[r] \in {"begin", "exit"}
  BY <1>1, <1>2 DEF Loc
<1>8. ProgressInv'
  <2>1. ASSUME NEW q \in ActiveRoles, NEW i \in DOMAIN StepsOf[q]
        PROVE  /\ i < idx'[q] => StepsOf[q][i] \in completed' /\ outcome'[StepsOf[q][i]] \in {"ok", "skipped"}
               /\ i = idx'[q] => /\ outcome'[StepsOf[q][i]] \in Allowed(Loc(q)')
                                 /\ StepsOf[q][i] \in completed' => pc'[q] = "exit"
               /\ i > idx'[q] => outcome'[StepsOf[q][i]] = "none" /\ StepsOf[q][i] \notin completed'
    <3>0. idx[q] \in Nat /\ i \in Nat
      BY ActiveRolesAreRoles, ProgramAssumption, SMTT(30) DEF TypeOK
    <3>p. LET t == StepsOf[q][i]
          IN /\ i < idx[q] => t \in completed /\ outcome[t] \in {"ok", "skipped"}
             /\ i = idx[q] => outcome[t] \in Allowed(Loc(q)) /\ (t \in completed => pc[q] = "exit")
             /\ i > idx[q] => outcome[t] = "none" /\ t \notin completed
      BY Zenon DEF ProgressInv
    <3>1. CASE q # r
      <4> HIDE DEF IndInv
      <4>1. StepsOf[q][i] # c
        BY <1>3, <3>1, OnePlace
      <4> QED BY <1>1, <1>2, <1>6, <3>1, <3>p, <4>1, Zenon
    <3>2. CASE q = r /\ i # idx[r]
      <4>1. StepsOf[q][i] # c
        BY <1>3, <3>2, OnePlace
      <4>2. StepsOf[q][i] \in completed' <=> StepsOf[q][i] \in completed
        BY <1>1, <4>1
      <4>3. i < idx'[q] => i < idx[q]
        BY <1>1, <1>2, <3>0, <3>2
      <4>4. i >= idx'[q] => i > idx[q]
        BY <1>1, <1>2, <3>0, <3>2
      <4>5. i = idx'[q] => Allowed(Loc(q)') = {"none"}
        BY <1>1, <1>2, <1>7, <3>0, <3>2, AllowedCases
      <4>6. outcome' = outcome /\ idx'[q] \in Nat
        BY <1>1 DEF TypeOK
      <4> HIDE DEF IndInv
      <4>7. CASE i < idx'[q]
        <5>1. ~(i = idx'[q]) /\ ~(i > idx'[q])
          BY <3>0, <4>6, <4>7
        <5> QED BY <3>p, <4>2, <4>3, <4>6, <4>7, <5>1, Zenon
      <4>8. CASE i >= idx'[q]
        <5>1. i > idx[q] /\ ~(i < idx'[q])
          BY <3>0, <4>4, <4>6, <4>8
        <5> QED BY <3>p, <4>2, <4>5, <4>6, <5>1
      <4>9. i < idx'[q] \/ i >= idx'[q]
        BY <3>0, <4>6
      <4> QED BY <4>7, <4>8, <4>9, Zenon
    <3>3. CASE q = r /\ i = idx[r]
      <4> HIDE DEF IndInv
      <4>1. StepsOf[q][i] = c /\ c \in completed' /\ outcome' = outcome
        BY <1>1, <1>3, <3>3
      <4>2. CASE pc[r] = "done_next"
        <5>1. i < idx'[q] /\ ~(i = idx'[q]) /\ ~(i > idx'[q])
          BY <1>2, <3>0, <3>3, <4>2, SMTT(30)
        <5> QED BY <1>4, <4>1, <4>2, <5>1, Zenon
      <4>3. CASE pc[r] = "done_exit"
        <5>1. i = idx'[q] /\ ~(i < idx'[q]) /\ ~(i > idx'[q])
          BY <1>2, <3>0, <3>3, <4>3
        <5>2. pc'[q] = "exit" /\ outcome[c] \in Allowed(Loc(q)')
          BY <1>2, <1>4, <1>7, <3>3, <4>3, AllowedCases
        <5> QED BY <4>1, <5>1, <5>2, Zenon
      <4> QED BY <1>1, <4>2, <4>3
    <3> QED BY <3>1, <3>2, <3>3, Zenon
  <2>2. ASSUME NEW t \in Steps, Step[t].role \notin ActiveRoles
        PROVE  t \in completed' /\ outcome'[t] = "external"
    BY <1>1, <2>2, Zenon DEF ProgressInv
  <2> HIDE DEF IndInv
  <2> QED BY <2>1, <2>2, Zenon DEF ProgressInv
<1>9. FailureInv'
  <2>1. ASSUME error' = NoFailure, NEW t \in completed'
        PROVE  outcome'[t] \in Good
    BY <1>1, <1>4, <2>1, Zenon DEF FailureInv, Good
  <2>2. ASSUME NEW q \in ActiveRoles
        PROVE  /\ Loc(q)' \in {"done_exit"} => error' # NoFailure
               /\ Loc(q)' = "exit" /\ error' = NoFailure => idx'[q] > Len(StepsOf[q])
               /\ Loc(q)' = "check" => deps'[Cur(q)'] \subseteq completed'
               /\ Loc(q)' = "setfail" => frame'[q].kind \in Kinds
               /\ Loc(q)' = "retransmit" => frame'[q].last_tx # NoTx
    <3>1. CASE q # r
      BY <1>1, <1>2, <1>6, <3>1 DEF FailureInv
    <3>2. CASE q = r
      BY <1>1, <1>2, <1>4, <1>7, <3>2, Zenon
    <3> QED BY <3>1, <3>2
  <2> HIDE DEF IndInv
  <2> QED BY <2>1, <2>2, Zenon DEF FailureInv
<1>10. JoinInv' /\ TraceInv'
  BY <1>1, <1>5, <1>7, ThreadJoin, QuietTrace, Zenon
<1>11. DependentsOfFailedNeverRun'
  BY <1>1 DEF DependentsOfFailedNeverRun
<1> QED BY <1>8, <1>9, <1>10, <1>11
=============================================================================
