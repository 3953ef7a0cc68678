---------------------------- MODULE JobLifecycle ----------------------------
(***************************************************************************)
(* What the job API promises its users: the life of every job, without     *)
(* workers, transactions or restarts.  A cancellation request is sticky:   *)
(* a job that was asked to stop ends "cancelled", never "completed" or     *)
(* "failed", unless the user retries it.                                   *)
(***************************************************************************)
CONSTANT Jobs

VARIABLES
  state,  \* state[j]: "absent", a job status, or "deleted"
  asked   \* asked[j]: the user asked to cancel the current attempt

lifeVars == <<state, asked>>

Ended == {"completed", "failed", "cancelled"}

Start == state = [j \in Jobs |-> "absent"] /\ asked = [j \in Jobs |-> FALSE]

Move(j, to, flag) ==
  /\ state' = [state EXCEPT ![j] = to]
  /\ asked' = [asked EXCEPT ![j] = flag]

Submit(j) == state[j] = "absent" /\ Move(j, "queued", FALSE)

Run(j) == state[j] = "queued" /\ ~asked[j] /\ Move(j, "running", FALSE)

End(j) ==
  /\ state[j] = "running"
  /\ \/ ~asked[j] /\ \E s \in {"completed", "failed"} : Move(j, s, FALSE)
     \/ asked[j] /\ Move(j, "cancelled", TRUE)

Stop(j) ==
  \/ state[j] = "queued" /\ Move(j, "cancelled", TRUE)
  \/ state[j] = "running" /\ Move(j, "running", TRUE)

Again(j) == state[j] \in Ended /\ Move(j, "queued", FALSE)

(* A restart puts interrupted jobs back in the queue, all at once. *)
Requeue ==
  /\ \E J \in SUBSET {j \in Jobs : state[j] = "running" /\ ~asked[j]} :
       state' = [j \in Jobs |-> IF j \in J THEN "queued" ELSE state[j]]
  /\ UNCHANGED asked

(* Retention deletes any set of stored jobs. *)
Expire ==
  \E J \in SUBSET {j \in Jobs : state[j] # "absent"} :
    /\ state' = [j \in Jobs |-> IF j \in J THEN "deleted" ELSE state[j]]
    /\ asked' = [j \in Jobs |-> IF j \in J THEN FALSE ELSE asked[j]]

Life ==
  \/ \E j \in Jobs : Submit(j) \/ Run(j) \/ End(j) \/ Stop(j) \/ Again(j)
  \/ Requeue
  \/ Expire

LifeSpec == Start /\ [][Life]_lifeVars
=============================================================================
