---------------------------- MODULE EngineProofs ----------------------------
(* The theorems about Engine, for every protocol, dependency graph and limit. *)
EXTENDS EngineSteps, TLAPS

(* A fresh engine satisfies IndInv. *)
LEMMA InitInv == Init => IndInv
<1> SUFFICES ASSUME Init PROVE IndInv
  OBVIOUS
<1>1. FreshFrame \in FrameType /\ FreshFrame.next = "begin"
  BY DEF FreshFrame, FrameType, NoTx, NoEvent, States, Labels
<1>2. TypeOK
  <2>1. \A r \in ActiveRoles : StepsOf[r] \in Seq(Steps)
    BY ActiveRolesAreRoles, ProgramAssumption
  <2>2. frame \in [ActiveRoles -> FrameType]
    BY <1>1 DEF Init
  <2>3. pc \in [ActiveRoles -> Labels] /\ idx \in [ActiveRoles -> Nat \ {0}]
    BY DEF Init, Labels
  <2>4. \A r \in ActiveRoles : idx[r] <= Len(StepsOf[r]) + 1 /\ pc[r] = "begin"
    BY <2>1 DEF Init
  <2>5. outcome \in [Steps -> Good \cup {"none", "running", "failed"}]
    BY DEF Init, Good
  <2>6. now \in 0 .. MaxRuntime + 1 /\ joined \in 0 .. Len(JoinOrder)
    BY LimitAssumption, ProgramAssumption DEF Init
  <2> QED BY <2>2, <2>3, <2>4, <2>5, <2>6 DEF Init, TypeOK
<1>3. ASSUME NEW r \in ActiveRoles
      PROVE  Loc(r) = "begin" /\ pc[r] = "begin"
  BY DEF Init, Loc
<1>4. ProgressInv
  <2>1. ASSUME NEW r \in ActiveRoles, NEW i \in DOMAIN StepsOf[r]
        PROVE  /\ i >= idx[r]
               /\ outcome[StepsOf[r][i]] = "none" /\ StepsOf[r][i] \notin completed
    <3>1. i \in 1 .. Len(StepsOf[r]) /\ StepsOf[r][i] \in Steps /\ Step[StepsOf[r][i]].role = r
      BY ActiveRolesAreRoles, ProgramAssumption
    <3> QED BY <3>1 DEF Init
  <2>2. \A s \in Steps : Step[s].role \notin ActiveRoles => s \in completed /\ outcome[s] = "external"
    BY DEF Init
  <2>3. \A r \in ActiveRoles : \A i \in DOMAIN StepsOf[r] : i \in Nat /\ idx[r] \in Nat
    BY ActiveRolesAreRoles, ProgramAssumption, <1>2 DEF TypeOK
  <2> QED BY <1>3, <2>1, <2>2, <2>3, AllowedCases, SMTT(30) DEF ProgressInv
<1>5. FailureInv
  BY <1>3 DEF Init, FailureInv, Good
<1>6. JoinInv
  BY DEF Init, JoinInv
<1>7. TraceInv
  BY <1>3, LimitAssumption DEF Init, TraceInv, Pushing
<1>8. DependentsOfFailedNeverRun
  BY DEF Init, DependentsOfFailedNeverRun
<1> QED BY <1>2, <1>4, <1>5, <1>6, <1>7, <1>8 DEF IndInv

(* ProgressInv does not look at what main and the clock change. *)
LEMMA SameProgress ==
  ASSUME ProgressInv, UNCHANGED <<pc, idx, frame, completed, outcome>>
  PROVE  ProgressInv'
<1>1. \A r : Loc(r)' = Loc(r)
  BY DEF Loc
<1> QED BY <1>1 DEF ProgressInv

(* Joining a thread keeps IndInv: a panic becomes the run's failure. *)
LEMMA JoinStep ==
  ASSUME IndInv, TypeOK', Join
  PROVE  IndInv'
<1> USE DEF IndInv
<1>1. /\ joined < Len(JoinOrder) /\ joined' = joined + 1
      /\ pc[JoinOrder[joined + 1]] \in {"exit", "panicked"}
      /\ pc[JoinOrder[joined + 1]] = "panicked" => error' # NoFailure
      /\ error # NoFailure => error' # NoFailure
      /\ UNCHANGED <<deps, pc, idx, frame, completed, counter, trace, result, outcome>>
  BY FailureStays DEF Join, Kinds
<1>2. joined \in Nat /\ Len(JoinOrder) \in Nat
  BY ProgramAssumption DEF TypeOK
<1>3. result = "none"
  BY <1>1, <1>2, SMTT(30) DEF JoinInv, TypeOK
<1>4. JoinInv'
  <2>1. \A i \in 1 .. joined :
           /\ pc[JoinOrder[i]] \in {"exit", "panicked"}
           /\ pc[JoinOrder[i]] = "panicked" => error # NoFailure
    BY Zenon DEF JoinInv
  <2> HIDE DEF IndInv
  <2>2. ASSUME NEW i \in 1 .. joined'
        PROVE  /\ pc'[JoinOrder[i]] \in {"exit", "panicked"}
               /\ pc'[JoinOrder[i]] = "panicked" => error' # NoFailure
    <3>1. i \in 1 .. joined \/ i = joined + 1
      BY <1>1, <1>2
    <3>2. pc' = pc
      BY <1>1
    <3>3. CASE i \in 1 .. joined
      <4>1. /\ pc[JoinOrder[i]] \in {"exit", "panicked"}
            /\ pc[JoinOrder[i]] = "panicked" => error # NoFailure
        BY <2>1, <3>3
      <4> QED BY <1>1, <3>2, <4>1, Zenon
    <3>4. CASE i = joined + 1
      BY <1>1, <3>2, <3>4
    <3> QED BY <3>1, <3>3, <3>4, Zenon
  <2>3. result' = "none"
    BY <1>1, <1>3
  <2> QED BY <2>2, <2>3, Zenon DEF JoinInv
<1>5. \A r : Loc(r)' = Loc(r) /\ Cur(r)' = Cur(r)
  BY <1>1 DEF Loc, Cur
<1>6. ProgressInv' /\ DependentsOfFailedNeverRun'
  <2>1. ProgressInv'
    BY <1>1, SameProgress
  <2>2. DependentsOfFailedNeverRun'
    BY <1>1, Zenon DEF DependentsOfFailedNeverRun
  <2> QED BY <2>1, <2>2
<1>7. FailureInv'
  BY <1>1, <1>5, Zenon DEF FailureInv
<1>8. TraceInv'
  <2>1. Pushing' = Pushing
    BY <1>1 DEF Pushing
  <2> QED BY <1>1, <1>5, <2>1 DEF TraceInv
<1> QED BY <1>4, <1>6, <1>7, <1>8

(* Returning keeps IndInv. *)
LEMMA ReturnStep ==
  ASSUME IndInv, TypeOK', Return
  PROVE  IndInv'
<1> USE DEF IndInv
<1>1. /\ joined = Len(JoinOrder) /\ (result' = "ok" => error' = NoFailure)
      /\ error # NoFailure => error' # NoFailure
      /\ UNCHANGED <<deps, pc, idx, frame, completed, counter, trace, joined, outcome>>
  BY FailureStays, LimitAssumption DEF Return
<1>2. \A r : Loc(r)' = Loc(r) /\ Cur(r)' = Cur(r)
  BY <1>1 DEF Loc, Cur
<1>3. JoinInv'
  BY <1>1 DEF JoinInv
<1>4. ProgressInv' /\ DependentsOfFailedNeverRun'
  BY <1>1, SameProgress DEF DependentsOfFailedNeverRun
<1>5. FailureInv'
  BY <1>1, <1>2 DEF FailureInv
<1>6. TraceInv'
  <2>1. Pushing' = Pushing
    BY <1>1 DEF Pushing
  <2> QED BY <1>1, <1>2, <2>1 DEF TraceInv
<1> QED BY <1>3, <1>4, <1>5, <1>6

(* IndInv is inductive. *)
LEMMA StepInv == IndInv /\ [Next]_vars => IndInv'
<1> SUFFICES ASSUME IndInv, [Next]_vars PROVE IndInv'
  OBVIOUS
<1>t. TypeOK'
  BY TypeStep
<1>1. CASE \E r \in ActiveRoles : RoleStep(r)
  <2>1. PICK r \in ActiveRoles : RoleStep(r)
    BY <1>1
  <2> QED BY <1>t, <2>1, WaitSteps, GateStep, ExecuteEmitStep, ExecuteFailStep, RetransmitStep,
             EndSteps, PushStep, MarkDoneStep DEF RoleStep
<1>2. CASE Join
  BY <1>t, <1>2, JoinStep
<1>3. CASE Return
  BY <1>t, <1>3, ReturnStep
<1>4. CASE Tick \/ UNCHANGED vars
  <2>1. UNCHANGED <<deps, pc, idx, frame, completed, error, counter, trace, joined, result, outcome>>
    BY <1>4 DEF Tick, vars
  <2>2. \A r : Loc(r)' = Loc(r) /\ Cur(r)' = Cur(r)
    BY <2>1, Zenon DEF Loc, Cur
  <2>3. Pushing' = Pushing
    BY <2>1 DEF Pushing
  <2>4. ProgressInv' /\ FailureInv'
    <3>1. ProgressInv'
      BY <2>1, SameProgress DEF IndInv
    <3>2. FailureInv'
      BY <2>1, <2>2, Zenon DEF IndInv, FailureInv
    <3> QED BY <3>1, <3>2
  <2>5. JoinInv' /\ DependentsOfFailedNeverRun'
    BY <2>1 DEF IndInv, JoinInv, DependentsOfFailedNeverRun
  <2>6. TraceInv'
    BY <2>1, <2>2, <2>3 DEF IndInv, TraceInv
  <2> QED BY <1>t, <2>4, <2>5, <2>6 DEF IndInv
<1> QED BY <1>1, <1>2, <1>3, <1>4 DEF Next, Returned

(* The inductive invariant holds throughout every run of the engine. *)
THEOREM EngineInvariant == Spec => []IndInv
  BY InitInv, StepInv, PTL DEF Spec

(* Sim and the role threads keep their types, whatever the protocol. *)
THEOREM TypeCorrect == Spec => []TypeOK
<1>1. IndInv => TypeOK
  BY DEF IndInv
<1> QED BY <1>1, EngineInvariant, PTL

(* No step starts unless all it depends on succeeded or was skipped: for    *)
(* every protocol, dependency graph, interleaving and limit, set_failure    *)
(* before mark_done and failed() after wait_deps are enough.                *)
THEOREM DependentsSafe == Spec => []DependentsOfFailedNeverRun
<1>1. IndInv => DependentsOfFailedNeverRun
  BY DEF IndInv
<1> QED BY <1>1, EngineInvariant, PTL

(* At the end of a run without a failure every thread has exited past its   *)
(* last step, so every step is done and good and every stamped event is on  *)
(* the trace.                                                               *)
LEMMA OkMeansDone == IndInv => OkMeansEveryStepDone
<1> SUFFICES ASSUME IndInv, result = "ok" PROVE OkMeansEveryStepDone!2
  BY DEF OkMeansEveryStepDone
<1> USE DEF IndInv
<1>1. error = NoFailure /\ joined = Len(JoinOrder)
  BY DEF JoinInv
<1>2. ASSUME NEW r \in ActiveRoles
      PROVE  pc[r] = "exit" /\ Loc(r) = "exit" /\ idx[r] > Len(StepsOf[r])
  <2>1. PICK i \in DOMAIN JoinOrder : JoinOrder[i] = r
    BY DEF ActiveRoles
  <2>2. i \in 1 .. joined
    BY <1>1, <2>1, ProgramAssumption
  <2>3. pc[r] = "exit" /\ Loc(r) = "exit"
    BY <1>1, <2>1, <2>2 DEF JoinInv, Loc
  <2> QED BY <1>1, <2>3 DEF FailureInv
<1>3. ASSUME NEW s \in Steps
      PROVE  s \in completed /\ outcome[s] \in Good
  <2>1. CASE Step[s].role \notin ActiveRoles
    BY <2>1 DEF ProgressInv, Good
  <2>2. CASE Step[s].role \in ActiveRoles
    <3> DEFINE r == Step[s].role
    <3>1. PICK i \in DOMAIN StepsOf[r] : StepsOf[r][i] = s
      BY ProgramAssumption
    <3>2. i \in 1 .. Len(StepsOf[r]) /\ idx[r] \in Nat /\ Len(StepsOf[r]) \in Nat
      BY <2>2, <3>1, ActiveRolesAreRoles, ProgramAssumption DEF TypeOK
    <3>3. i < idx[r]
      BY <1>2, <2>2, <3>2
    <3>4. i < idx[r] => StepsOf[r][i] \in completed /\ outcome[StepsOf[r][i]] \in {"ok", "skipped"}
      BY <2>2, Zenon DEF ProgressInv
    <3> HIDE DEF IndInv
    <3> QED BY <3>1, <3>3, <3>4 DEF Good
  <2> QED BY <2>1, <2>2, Zenon
<1>4. Pushing = {}
  BY <1>2 DEF Pushing
<1>5. counter \in Nat /\ MaxTrace \in Nat /\ counter <= MaxTrace
  <2>1. counter \in Nat
    BY DEF TypeOK
  <2>2. ~(counter > MaxTrace)
    BY <1>1, Zenon DEF TraceInv
  <2> HIDE DEF IndInv
  <2> QED BY <2>1, <2>2, LimitAssumption
<1>6. \A e \in trace : e.seq \in 0 .. counter - 1
  <2>1. \A e \in trace : e.seq \in Nat
    BY DEF TypeOK, EventType
  <2>2. \A e \in trace : e.seq < counter
    BY Zenon DEF TraceInv
  <2> HIDE DEF IndInv
  <2> QED BY <1>5, <2>1, <2>2
<1>7. \A n \in 0 .. counter - 1 : \E e \in trace : e.seq = n
  <2>1. \A n \in 0 .. counter - 1 : n < MaxTrace =>
          (\E e \in trace : e.seq = n) \/ (\E r \in Pushing : frame[r].event.seq = n)
    BY Zenon DEF TraceInv
  <2> HIDE DEF IndInv
  <2>2. \A n \in 0 .. counter - 1 : n < MaxTrace
    BY <1>5
  <2> QED BY <1>4, <2>1, <2>2, Zenon
<1>8. {e.seq : e \in trace} = 0 .. counter - 1
  BY <1>6, <1>7
<1>9. \A e \in trace : e.ok
  <2>1. \A e \in trace : e.role \in ActiveRoles
    BY DEF TypeOK, EventType
  <2> QED BY <1>1, <1>2, <2>1 DEF TraceInv
<1> QED BY <1>3, <1>8, <1>9

(* run_with_transport returns Ok only when every step succeeded or was      *)
(* skipped, and then the trace holds every event ever stamped.              *)
THEOREM OkIsComplete == Spec => []OkMeansEveryStepDone
  BY OkMeansDone, EngineInvariant, PTL
=============================================================================
