------------------------------- MODULE Engine -------------------------------
(***************************************************************************)
(* The execution engine: one thread per active role runs the role's steps  *)
(* in plan order, blocks on depends_on, applies loop / retry / retransmit  *)
(* policies, stamps trace events from a shared counter and reports the     *)
(* first failure; the main thread joins the role threads in order, drains  *)
(* the transport and returns.                                              *)
(*                                                                         *)
(* The shared state is struct Sim (completed, error, counter, trace, the   *)
(* clock).  Every atomic operation, lock acquisition or blocking point of  *)
(* the code is one action.  What a step sends, receives or computes is     *)
(* abstracted to the events it records and the failures it may return.     *)
(***************************************************************************)
EXTENDS Integers, Sequences, FiniteSets

CONSTANTS
  Roles,       \* the protocol's roles
  JoinOrder,   \* the active roles, in the order main spawns and joins them
  Step,        \* Step[s]: the attributes of step s (see StepType)
  StepsOf,     \* StepsOf[r]: the steps of role r in plan order
  DepGraphs,   \* the depends_on relations to check: functions from steps to sets of steps
  Clock,       \* "virtual" or "real"
  MaxRuntime,  \* limits.max_runtime, in model milliseconds
  MaxTrace,    \* limits.max_trace
  FinishErrors \* failure kinds transport.finish() may report

Steps == DOMAIN Step

Kinds == {"timeout", "transport", "assertion", "validation",
          "resource_limit", "panic", "runtime"}

States == {"initial", "open", "closed"}

(* The attributes of a step that steer its execution. *)
StepType ==
  [role       : Roles,
   act        : {"send", "send_raw", "recv", "local"},
   emits      : Nat \ {0},       \* events one successful execution records
   when       : SUBSET {"true", "false", "error"},  \* what `when` may resolve to
   loop       : Nat,
   retry      : Nat,
   on_timeout : BOOLEAN,
   retry_on   : SUBSET Kinds,
   retransmit : Nat,
   from_state : States \cup {"*"},   \* "*" also stands for an absent from_state
   to_state   : States \cup {"-"},   \* "-": no to_state
   delay      : Nat,             \* virtual ms a success adds (delivery delay, wait)
   timeout    : Nat,             \* virtual ms a timed-out receive adds
   backoff    : Nat,             \* virtual ms slept before a retry
   faults     : SUBSET Kinds,    \* failures execute_step may return
   panics     : BOOLEAN]         \* its execution may panic

ActiveRoles == {JoinOrder[i] : i \in DOMAIN JoinOrder}

ASSUME ProgramAssumption ==
  /\ Step \in [Steps -> StepType]
  /\ StepsOf \in [Roles -> Seq(Steps)]
  /\ \A r \in Roles : \A i, j \in DOMAIN StepsOf[r] :
        /\ Step[StepsOf[r][i]].role = r
        /\ StepsOf[r][i] = StepsOf[r][j] => i = j
  /\ \A s \in Steps : \E i \in DOMAIN StepsOf[Step[s].role] : StepsOf[Step[s].role][i] = s
  /\ JoinOrder \in Seq(Roles)
  /\ \A i, j \in DOMAIN JoinOrder : JoinOrder[i] = JoinOrder[j] => i = j

ASSUME GraphAssumption == \A g \in DepGraphs : g \in [Steps -> SUBSET Steps]

ASSUME LimitAssumption ==
  /\ Clock \in {"virtual", "real"}
  /\ MaxRuntime \in Nat
  /\ MaxTrace \in Nat
  /\ FinishErrors \subseteq Kinds

VARIABLES
  deps,       \* depends_on of every step; fixed when the plan is built
  pc,         \* where each role thread is in run_role
  idx,        \* index of the thread's current step
  frame,      \* the thread's locals (see FrameType)
  completed,  \* Sim.completed: steps marked done
  error,      \* Sim.error: the first failure, or NoFailure
  counter,    \* Sim.counter: next trace sequence number
  trace,      \* Sim.trace, as the set it is sorted from
  now,        \* elapsed_ms, saturating just above MaxRuntime
  joined,     \* how many role threads main has joined
  result,     \* what run_with_transport returned: "none" yet, "ok" or "err"
  outcome     \* history: how each step's own execution went

vars == <<deps, pc, idx, frame, completed, error, counter, trace, now,
          joined, result, outcome>>

NoFailure == [role |-> "-", kind |-> "-"]
NoEvent == [seq |-> -1, role |-> "-", step |-> "-", ok |-> FALSE]
NoTx == [step |-> "-", count |-> 0]

Cur(r) == StepsOf[r][idx[r]]

(* The locals of a role thread when it starts its first step. *)
FreshFrame ==
  [iter |-> 1, retransmits |-> 0, retries |-> 0, emitted |-> 0,
   last_tx |-> NoTx,       \* last_transmission: the step resent on a timeout
   state |-> "initial",    \* protocol_state
   kind |-> "-",           \* the failure being reported
   event |-> NoEvent,      \* stamped, not yet pushed on the trace
   next |-> "begin"]       \* where the thread goes once the event is recorded

(* The counters declared inside the loop over step.loop_count. *)
Attempt(f) == [f EXCEPT !.retransmits = 0, !.retries = 0, !.emitted = 0]

(* set_failure: the first failure wins. *)
SetFailure(who, k) ==
  error' = IF error = NoFailure THEN [role |-> who, kind |-> k] ELSE error

(* Sim.advance: only the virtual clock is advanced by the roles themselves. *)
Advance(ms) ==
  now' = IF Clock = "virtual"
           THEN IF now + ms > MaxRuntime THEN MaxRuntime + 1 ELSE now + ms
           ELSE now

OverTime == now > MaxRuntime

Goto(r, label) == pc' = [pc EXCEPT ![r] = label]

(* A faulty record_with_network: the limit is off by one. *)
StampOneMore(r, f, step, ok, next) ==
  /\ counter' = counter + 1
  /\ \/ /\ counter > MaxTrace
        /\ SetFailure(r, "resource_limit")
        /\ frame' = [frame EXCEPT ![r] = f]
        /\ Goto(r, next)
     \/ /\ counter <= MaxTrace
        /\ frame' = [frame EXCEPT ![r] =
             [f EXCEPT !.event = [seq |-> counter, role |-> r, step |-> step, ok |-> ok],
                       !.next = next]]
        /\ Goto(r, "push")
        /\ UNCHANGED error

(* record_with_network up to the push: take a sequence number; past        *)
(* max_trace the event is discarded and the run fails.  f is the thread's  *)
(* new frame and next the statement after record().                        *)
Stamp(r, f, step, ok, next) ==
  /\ counter' = counter + 1
  /\ \/ /\ counter >= MaxTrace
        /\ SetFailure(r, "resource_limit")
        /\ frame' = [frame EXCEPT ![r] = f]
        /\ Goto(r, next)
     \/ /\ counter < MaxTrace
        /\ frame' = [frame EXCEPT ![r] =
             [f EXCEPT !.event = [seq |-> counter, role |-> r, step |-> step, ok |-> ok],
                       !.next = next]]
        /\ Goto(r, "push")
        /\ UNCHANGED error

Init ==
  /\ deps \in DepGraphs
  /\ pc = [r \in ActiveRoles |-> "begin"]
  /\ idx = [r \in ActiveRoles |-> 1]
  /\ frame = [r \in ActiveRoles |-> FreshFrame]
  /\ completed = {s \in Steps : Step[s].role \notin ActiveRoles}
  /\ error = NoFailure
  /\ counter = 0
  /\ trace = {}
  /\ now = 0
  /\ joined = 0
  /\ result = "none"
  /\ outcome = [s \in Steps |-> IF Step[s].role \in ActiveRoles THEN "none" ELSE "external"]

-----------------------------------------------------------------------------
(* run_role, statement by statement *)

(* for step in steps { if enforce_runtime(role) { return } *)
Begin(r) ==
  /\ pc[r] = "begin"
  /\ \/ /\ idx[r] > Len(StepsOf[r])
        /\ Goto(r, "exit")
        /\ UNCHANGED error
     \/ /\ idx[r] <= Len(StepsOf[r])
        /\ OverTime
        /\ SetFailure(r, "resource_limit")
        /\ Goto(r, "exit")
     \/ /\ idx[r] <= Len(StepsOf[r])
        /\ ~OverTime
        /\ Goto(r, "wait")
        /\ UNCHANGED error
  /\ UNCHANGED <<deps, idx, frame, completed, counter, trace, now, joined, result, outcome>>

(* wait_deps, under the lock of completed: are all dependencies done? *)
WaitDeps(r) ==
  /\ pc[r] = "wait"
  /\ Goto(r, IF deps[Cur(r)] \subseteq completed THEN "check" ELSE "poll")
  /\ UNCHANGED <<deps, idx, frame, completed, error, counter, trace, now, joined, result, outcome>>

(* Faulty wait_deps: no look at the other roles' failures ... *)
PollDepsNoFailed(r) ==
  /\ pc[r] = "poll"
  /\ Goto(r, IF OverTime THEN "exit" ELSE "wait")
  /\ IF OverTime THEN SetFailure("scheduler", "resource_limit") ELSE UNCHANGED error
  /\ UNCHANGED <<deps, idx, frame, completed, counter, trace, now, joined, result, outcome>>

(* ... or no deadline. *)
PollDepsNoDeadline(r) ==
  /\ pc[r] = "poll"
  /\ Goto(r, IF error # NoFailure THEN "exit" ELSE "wait")
  /\ UNCHANGED <<deps, idx, frame, completed, error, counter, trace, now, joined, result, outcome>>

(* wait_deps, not ready: give up on a failure or past the deadline, else wait again. *)
PollDeps(r) ==
  /\ pc[r] = "poll"
  /\ \/ /\ error # NoFailure
        /\ Goto(r, "exit")
        /\ UNCHANGED error
     \/ /\ error = NoFailure
        /\ OverTime
        /\ SetFailure("scheduler", "resource_limit")
        /\ Goto(r, "exit")
     \/ /\ error = NoFailure
        /\ ~OverTime
        /\ Goto(r, "wait")
        /\ UNCHANGED error
  /\ UNCHANGED <<deps, idx, frame, completed, counter, trace, now, joined, result, outcome>>

(* A faulty run_role: the step runs whatever the other roles did meanwhile. *)
CheckFailedDropped(r) ==
  /\ pc[r] = "check"
  /\ Goto(r, "gate")
  /\ outcome' = [outcome EXCEPT ![Cur(r)] = "running"]
  /\ UNCHANGED <<deps, idx, frame, completed, error, counter, trace, now, joined, result>>

(* if sim.failed() { return } *)
CheckFailed(r) ==
  /\ pc[r] = "check"
  /\ Goto(r, IF error # NoFailure THEN "exit" ELSE "gate")
  /\ outcome' = IF error # NoFailure THEN outcome
                ELSE [outcome EXCEPT ![Cur(r)] = "running"]
  /\ UNCHANGED <<deps, idx, frame, completed, error, counter, trace, now, joined, result>>

(* from_state admits the role's protocol state. *)
Admitted(r) == Step[Cur(r)].from_state \in {"*", frame[r].state}

(* A faulty run_role: a skipped step is marked done and not recorded. *)
GateSkipsSilently(r) ==
  LET s == Cur(r)
  IN /\ pc[r] = "gate"
     /\ \/ /\ "false" \in Step[s].when
           /\ Goto(r, "done_next")
           /\ outcome' = [outcome EXCEPT ![s] = "skipped"]
           /\ UNCHANGED frame
        \/ /\ "true" \in Step[s].when /\ Admitted(r)
           /\ Goto(r, "execute")
           /\ frame' = [frame EXCEPT ![r] = Attempt([frame[r] EXCEPT !.iter = 1])]
           /\ UNCHANGED outcome
     /\ UNCHANGED <<deps, idx, completed, error, counter, trace, now, joined, result>>

(* step_enabled, loop = 0 and from_state, evaluated on the thread's own state. *)
Gate(r) ==
  LET s == Cur(r)
      f == frame[r]
  IN /\ pc[r] = "gate"
     /\ \E w \in Step[s].when :
          \/ /\ w = "error"
             /\ outcome' = [outcome EXCEPT ![s] = "failed"]
             /\ Stamp(r, [f EXCEPT !.kind = "runtime"], s, FALSE, "setfail")
          \/ /\ w = "false" \/ (w = "true" /\ Step[s].loop = 0)
             /\ outcome' = [outcome EXCEPT ![s] = "skipped"]
             /\ Stamp(r, f, s, TRUE, "done_next")
          \/ /\ w = "true" /\ Step[s].loop > 0 /\ ~Admitted(r)
             /\ outcome' = [outcome EXCEPT ![s] = "failed"]
             /\ Stamp(r, [f EXCEPT !.kind = "validation"], s, FALSE, "setfail")
          \/ /\ w = "true" /\ Step[s].loop > 0 /\ Admitted(r)
             /\ Goto(r, "execute")
             /\ frame' = [frame EXCEPT ![r] = Attempt([f EXCEPT !.iter = 1])]
             /\ UNCHANGED <<error, counter, outcome>>
     /\ UNCHANGED <<deps, idx, completed, trace, now, joined, result>>

(* last_transmission after an outbound step has sent its n-th message: the *)
(* last message alone, or every fragment once send_raw has sent them all.  *)
Snapshot(s, n) ==
  [step |-> s, count |-> IF Step[s].act = "send_raw" /\ n = Step[s].emits THEN n ELSE 1]

(* execute_step gets as far as recording its next event; the last one ends it. *)
ExecuteEmit(r) ==
  LET s == Cur(r)
      f == frame[r]
      n == f.emitted + 1
      g == [f EXCEPT !.emitted = n,
                     !.last_tx = IF Step[s].act \in {"send", "send_raw"} THEN Snapshot(s, n) ELSE @]
  IN /\ pc[r] = "execute"
     /\ Stamp(r, g, s, TRUE, IF n = Step[s].emits THEN "after" ELSE "execute")
     /\ Advance(Step[s].delay)
     /\ UNCHANGED <<deps, idx, completed, trace, joined, result, outcome>>

(* Which failures the step's retry policy covers. *)
Selected(s, k) ==
  IF Step[s].retry_on = {}
    THEN ~Step[s].on_timeout \/ k = "timeout"
    ELSE k \in Step[s].retry_on

(* A timed-out recv that may still resend the role's last transmission. *)
MayRetransmit(s, f, k) ==
  /\ f.retransmits < Step[s].retransmit
  /\ Step[s].act = "recv"
  /\ k = "timeout"
  /\ f.last_tx # NoTx

(* Virtual time a failed attempt takes before its failure is handled. *)
Waited(s, k) == IF k = "timeout" THEN Step[s].timeout ELSE 0

(* execute_step returns Err: retransmit, retry, or fail the run. *)
ExecuteFail(r) ==
  LET s == Cur(r)
      f == frame[r]
  IN /\ pc[r] = "execute"
     /\ \E k \in Step[s].faults :
          \/ /\ MayRetransmit(s, f, k)
             /\ Stamp(r, [f EXCEPT !.emitted = 0], s, TRUE, "retransmit")
             /\ Advance(Waited(s, k))
             /\ UNCHANGED outcome
          \/ /\ ~MayRetransmit(s, f, k)
             /\ f.retries < Step[s].retry /\ Selected(s, k)
             /\ Stamp(r, [f EXCEPT !.retries = @ + 1, !.emitted = 0], s, TRUE, "execute")
             /\ Advance(Waited(s, k) + Step[s].backoff)
             /\ UNCHANGED outcome
          \/ /\ ~MayRetransmit(s, f, k)
             /\ ~(f.retries < Step[s].retry /\ Selected(s, k))
             /\ Stamp(r, [f EXCEPT !.kind = k], s, FALSE, "setfail")
             /\ Advance(Waited(s, k))
             /\ outcome' = [outcome EXCEPT ![s] = "failed"]
     /\ UNCHANGED <<deps, idx, completed, trace, joined, result>>

(* The thread panics inside execute_step: it unwinds without marking anything. *)
ExecutePanic(r) ==
  /\ pc[r] = "execute"
  /\ Step[Cur(r)].panics
  /\ Goto(r, "panicked")
  /\ outcome' = [outcome EXCEPT ![Cur(r)] = "failed"]
  /\ UNCHANGED <<deps, idx, frame, completed, error, counter, trace, now, joined, result>>

(* retransmit_snapshot: the messages of the last transmission go out again,  *)
(* recorded under the step that first sent them; a transport error is fatal. *)
Retransmit(r) ==
  LET f == frame[r]
      first == f.last_tx.step
      n == f.emitted + 1
  IN /\ pc[r] = "retransmit"
     /\ \/ /\ IF n = f.last_tx.count
                THEN Stamp(r, [f EXCEPT !.emitted = 0, !.retransmits = @ + 1], first, TRUE, "execute")
                ELSE Stamp(r, [f EXCEPT !.emitted = n], first, TRUE, "retransmit")
           /\ Advance(Step[first].delay)
           /\ UNCHANGED outcome
        \/ /\ \E k \in Step[first].faults \cap {"transport", "resource_limit"} :
                Stamp(r, [f EXCEPT !.kind = k], first, FALSE, "setfail")
           /\ outcome' = [outcome EXCEPT ![Cur(r)] = "failed"]
           /\ UNCHANGED now
     /\ UNCHANGED <<deps, idx, completed, trace, joined, result>>

(* A faulty record_with_network: only successes are kept. *)
PushSuccesses(r) ==
  /\ pc[r] = "push"
  /\ trace' = IF frame[r].event.ok THEN trace \cup {frame[r].event} ELSE trace
  /\ Goto(r, frame[r].next)
  /\ frame' = [frame EXCEPT ![r].event = NoEvent]
  /\ UNCHANGED <<deps, idx, completed, error, counter, now, joined, result, outcome>>

(* The second half of record_with_network: push the stamped event. *)
Push(r) ==
  /\ pc[r] = "push"
  /\ trace' = trace \cup {frame[r].event}
  /\ Goto(r, frame[r].next)
  /\ frame' = [frame EXCEPT ![r].event = NoEvent]
  /\ UNCHANGED <<deps, idx, completed, error, counter, now, joined, result, outcome>>

(* After a successful execution: enforce_runtime, then loop again or finish the step. *)
After(r) ==
  LET s == Cur(r)
      f == frame[r]
  IN /\ pc[r] = "after"
     /\ \/ /\ OverTime
           /\ SetFailure(r, "resource_limit")
           /\ Goto(r, "done_exit")
           /\ outcome' = [outcome EXCEPT ![s] = "failed"]
           /\ UNCHANGED frame
        \/ /\ ~OverTime
           /\ f.iter < Step[s].loop
           /\ Goto(r, "execute")
           /\ frame' = [frame EXCEPT ![r] = Attempt([f EXCEPT !.iter = @ + 1])]
           /\ UNCHANGED <<error, outcome>>
        \/ /\ ~OverTime
           /\ f.iter >= Step[s].loop
           /\ Goto(r, "done_next")
           /\ frame' = [frame EXCEPT ![r].state =
                          IF Step[s].to_state = "-" THEN @ ELSE Step[s].to_state]
           /\ outcome' = [outcome EXCEPT ![s] = "ok"]
           /\ UNCHANGED error
     /\ UNCHANGED <<deps, idx, completed, counter, trace, now, joined, result>>

(* set_failure, always before mark_done of the failed step. *)
SetFail(r) ==
  /\ pc[r] = "setfail"
  /\ SetFailure(r, frame[r].kind)
  /\ Goto(r, "done_exit")
  /\ UNCHANGED <<deps, idx, frame, completed, counter, trace, now, joined, result, outcome>>

(* mark_done, then the next step or (failed) return. *)
MarkDone(r) ==
  /\ \/ /\ pc[r] = "done_next"
        /\ Goto(r, "begin")
        /\ idx' = [idx EXCEPT ![r] = @ + 1]
     \/ /\ pc[r] = "done_exit"
        /\ Goto(r, "exit")
        /\ UNCHANGED idx
  /\ completed' = completed \cup {Cur(r)}
  /\ UNCHANGED <<deps, frame, error, counter, trace, now, joined, result, outcome>>

RoleStep(r) ==
  \/ Begin(r) \/ WaitDeps(r) \/ PollDeps(r) \/ CheckFailed(r) \/ Gate(r)
  \/ ExecuteEmit(r) \/ ExecuteFail(r) \/ ExecutePanic(r) \/ Retransmit(r)
  \/ Push(r) \/ After(r) \/ SetFail(r) \/ MarkDone(r)

-----------------------------------------------------------------------------
(* The main thread and time *)

(* A faulty join: the panic payload is ignored. *)
JoinIgnoresPanic ==
  /\ joined < Len(JoinOrder)
  /\ pc[JoinOrder[joined + 1]] \in {"exit", "panicked"}
  /\ joined' = joined + 1
  /\ UNCHANGED <<deps, pc, idx, frame, completed, error, counter, trace, now, result, outcome>>

(* h.join() of the next role thread; a panic becomes the run's failure. *)
Join ==
  /\ joined < Len(JoinOrder)
  /\ LET r == JoinOrder[joined + 1]
     IN \/ /\ pc[r] = "exit"
           /\ UNCHANGED error
        \/ /\ pc[r] = "panicked"
           /\ SetFailure(r, "panic")
  /\ joined' = joined + 1
  /\ UNCHANGED <<deps, pc, idx, frame, completed, counter, trace, now, result, outcome>>

(* transport.finish(), then Ok((trace, states)) or Err of the recorded failure. *)
Return ==
  /\ joined = Len(JoinOrder)
  /\ result = "none"
  /\ \/ UNCHANGED error
     \/ \E k \in FinishErrors : SetFailure("transport", k)
  /\ result' = IF error' = NoFailure THEN "ok" ELSE "err"
  /\ UNCHANGED <<deps, pc, idx, frame, completed, counter, trace, now, joined, outcome>>

(* Wall-clock time passes whatever the threads do. *)
Tick ==
  /\ Clock = "real"
  /\ ~OverTime
  /\ result = "none"
  /\ now' = now + 1
  /\ UNCHANGED <<deps, pc, idx, frame, completed, error, counter, trace, joined, result, outcome>>

(* run_with_transport has returned. *)
Returned == result # "none" /\ UNCHANGED vars

Next ==
  \/ \E r \in ActiveRoles : RoleStep(r)
  \/ Join
  \/ Return
  \/ Tick
  \/ Returned

Spec == Init /\ [][Next]_vars

(* The operating system runs every runnable thread, and wall time advances. *)
Fairness ==
  /\ \A r \in ActiveRoles : WF_vars(RoleStep(r))
  /\ WF_vars(Join)
  /\ WF_vars(Return)
  /\ WF_vars(Tick)

FairSpec == Spec /\ Fairness

-----------------------------------------------------------------------------
(* Properties *)

Labels == {"begin", "wait", "poll", "check", "gate", "execute", "retransmit", "push",
           "after", "setfail", "done_next", "done_exit", "exit", "panicked"}

Good == {"ok", "skipped", "external"}

EventType == [seq : Nat, role : ActiveRoles, step : Steps, ok : BOOLEAN]

FrameType ==
  [iter : Nat, retransmits : Nat, retries : Nat, emitted : Nat,
   last_tx : [step : Steps, count : Nat] \cup {NoTx},
   state : States, kind : Kinds \cup {"-"},
   event : EventType \cup {NoEvent}, next : Labels \ {"push"}]

(* The type invariant of Sim and of the role threads. *)
TypeOK ==
  /\ deps \in DepGraphs
  /\ pc \in [ActiveRoles -> Labels]
  /\ idx \in [ActiveRoles -> Nat \ {0}]
  /\ frame \in [ActiveRoles -> FrameType]
  /\ \A r \in ActiveRoles :
        /\ idx[r] <= Len(StepsOf[r]) + 1
        /\ pc[r] \notin {"begin", "exit"} => idx[r] <= Len(StepsOf[r])
  /\ completed \subseteq Steps
  /\ error = NoFailure \/ error.kind \in Kinds
  /\ counter \in Nat
  /\ trace \subseteq EventType
  /\ now \in 0 .. MaxRuntime + 1
  /\ joined \in 0 .. Len(JoinOrder)
  /\ result \in {"none", "ok", "err"}
  /\ outcome \in [Steps -> Good \cup {"none", "running", "failed"}]

(* A step starts only after every step it depends on succeeded or was       *)
(* skipped.  A failed step is marked done too, so that waiters wake up:     *)
(* what keeps dependents from running on it is that set_failure precedes    *)
(* mark_done and that run_role checks failed() after wait_deps.             *)
DependentsOfFailedNeverRun ==
  \A s \in Steps :
    outcome[s] \notin {"none", "external"} => \A d \in deps[s] : outcome[d] \in Good

(* run_with_transport returns Ok only if every step of every active role    *)
(* succeeded or was skipped and the returned trace is complete: all events  *)
(* ever stamped are in it, and none reports a failure.                      *)
OkMeansEveryStepDone ==
  result = "ok" =>
    /\ \A s \in Steps : s \in completed /\ outcome[s] \in Good
    /\ {e.seq : e \in trace} = 0 .. counter - 1
    /\ \A e \in trace : e.ok

(* Sequence numbers respect dependencies: before any event of a step, each  *)
(* step it depends on (run by an active role) has an event already.  The    *)
(* number is taken before the event is pushed, by threads that race.        *)
DependencyRecordedFirst ==
  \A e \in trace : \A d \in deps[e.step] :
    outcome[d] # "external" => \E c \in trace : c.step = d /\ c.seq < e.seq

(* The returned trace has no gap and no duplicate: its sequence numbers are *)
(* 0, 1, ... up to the number of events recorded or to max_trace, unless a  *)
(* thread panicked.                                                         *)
TraceGapFree ==
  result # "none" /\ (\A r \in ActiveRoles : pc[r] # "panicked") =>
    LET n == IF counter < MaxTrace THEN counter ELSE MaxTrace
    IN {e.seq : e \in trace} = 0 .. n - 1 /\ Cardinality(trace) = n

(* The failure run_with_transport returns, when a role reported it and it   *)
(* is not a limit, is visible in the returned trace as a failed event of    *)
(* that role, whichever thread failed first.                                *)
FailureIsTraced ==
  result = "err" /\ error.role \in ActiveRoles /\ error.kind \notin {"panic", "resource_limit"}
    => \E e \in trace : e.role = error.role /\ ~e.ok

(* Every run ends: no role thread waits forever for a dependency, so main   *)
(* joins them all and returns.                                              *)
Termination == <>(result # "none")

(* wait_deps: "Block until all `deps` are complete.  Returns false if       *)
(* another role errored while we were waiting": a waiting thread never      *)
(* waits for ever.                                                          *)
WaitersReleased ==
  \A r \in ActiveRoles :
    (pc[r] \in {"wait", "poll"}) ~> (pc[r] \notin {"wait", "poll"})

-----------------------------------------------------------------------------
(* The inductive invariant behind DependentsOfFailedNeverRun and            *)
(* OkMeansEveryStepDone (EngineProofs)                                      *)

(* Where a thread is, or will be once its stamped event is pushed. *)
Loc(r) == IF pc[r] = "push" THEN frame[r].next ELSE pc[r]

(* What is known of the current step's outcome at each place. *)
Allowed(label) ==
  CASE label \in {"begin", "wait", "poll", "check"} -> {"none"}
    [] label \in {"gate", "execute", "retransmit", "after"} -> {"running"}
    [] label \in {"setfail", "done_exit", "panicked"} -> {"failed"}
    [] label = "done_next" -> {"ok", "skipped"}
    [] OTHER -> {"none", "failed"}

(* A thread's finished steps are done and good, the later ones untouched. *)
ProgressInv ==
  /\ \A r \in ActiveRoles : \A i \in DOMAIN StepsOf[r] :
       LET s == StepsOf[r][i]
       IN /\ i < idx[r] => s \in completed /\ outcome[s] \in {"ok", "skipped"}
          /\ i = idx[r] => outcome[s] \in Allowed(Loc(r)) /\ (s \in completed => pc[r] = "exit")
          /\ i > idx[r] => outcome[s] = "none" /\ s \notin completed
  /\ \A s \in Steps : Step[s].role \notin ActiveRoles => s \in completed /\ outcome[s] = "external"

(* Nothing failed is in completed before the failure is in error. *)
FailureInv ==
  /\ error = NoFailure => \A s \in completed : outcome[s] \in Good
  /\ \A r \in ActiveRoles :
       /\ Loc(r) \in {"done_exit"} => error # NoFailure
       /\ Loc(r) = "exit" /\ error = NoFailure => idx[r] > Len(StepsOf[r])
       /\ Loc(r) = "check" => deps[Cur(r)] \subseteq completed
       /\ Loc(r) = "setfail" => frame[r].kind \in Kinds
       /\ Loc(r) = "retransmit" => frame[r].last_tx # NoTx

(* Joined threads have ended; a joined panic is in error. *)
JoinInv ==
  /\ \A i \in 1 .. joined :
       /\ pc[JoinOrder[i]] \in {"exit", "panicked"}
       /\ pc[JoinOrder[i]] = "panicked" => error # NoFailure
  /\ result # "none" => joined = Len(JoinOrder)
  /\ result = "ok" => error = NoFailure

Pushing == {r \in ActiveRoles : pc[r] = "push"}

(* Every number below the counter is on the trace or about to be pushed;    *)
(* an event that reports a failure is followed by set_failure.              *)
TraceInv ==
  /\ \A r \in Pushing :
       /\ frame[r].event \in EventType
       /\ frame[r].event.role = r
       /\ frame[r].event.seq < counter
       /\ ~frame[r].event.ok => frame[r].next = "setfail"
  /\ \A e \in trace :
       /\ e.seq < counter
       /\ ~e.ok => error # NoFailure \/ Loc(e.role) = "setfail"
  /\ \A n \in 0 .. counter - 1 : n < MaxTrace =>
       (\E e \in trace : e.seq = n) \/ (\E r \in Pushing : frame[r].event.seq = n)
  /\ counter > MaxTrace => error # NoFailure

(* All of it together: what every step of the engine preserves. *)
IndInv ==
  TypeOK /\ ProgressInv /\ FailureInv /\ JoinInv /\ TraceInv /\ DependentsOfFailedNeverRun

=============================================================================
