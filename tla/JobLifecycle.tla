----------------------------- MODULE JobLifecycle -----------------------------
(***************************************************************************)
(* What the queue promises about each job, whatever workflow it belongs to *)
(* and whatever happens to the workers (docs/ARCHITECTURE.md section 3b):  *)
(* it is handed to a worker at most MaxTries times, it ends at most once,  *)
(* and once it has ended it is never handed out again.  One step of the    *)
(* system may move several jobs.                                           *)
(***************************************************************************)
EXTENDS Integers

CONSTANTS Jobs, MaxTries

VARIABLES
    stage,      \* job -> where it is in its life
    tries       \* job -> how often it was handed to a worker

lifecycleVars == <<stage, tries>>

Init ==
    /\ stage = [j \in Jobs |-> "absent"]
    /\ tries = [j \in Jobs |-> 0]

\* A job appears in the queue, or already in the hands of a worker (HandOut).
Submit(j) ==
    /\ stage[j] = "absent" /\ stage'[j] = "pending"
    /\ tries'[j] = tries[j]

\* A worker gets the job; if another one was lost with it, in the same step.
HandOut(j) ==
    /\ stage[j] \in {"absent", "pending", "assigned"} /\ stage'[j] = "assigned"
    /\ tries[j] < MaxTries
    /\ tries'[j] = tries[j] + 1

\* A lost worker's job waits for another try while it has one left.
Retry(j) ==
    /\ stage[j] = "assigned" /\ stage'[j] = "pending"
    /\ tries[j] < MaxTries
    /\ tries'[j] = tries[j]

Complete(j) ==
    /\ stage[j] = "assigned" /\ stage'[j] = "completed"
    /\ tries'[j] = tries[j]

\* A job fails in a worker's hands, or is cancelled while it waits.
Fail(j) ==
    /\ stage[j] \in {"pending", "assigned"} /\ stage'[j] = "failed"
    /\ tries'[j] = tries[j]

Discard(j) ==
    /\ stage[j] # "absent" /\ stage'[j] = "deleted"
    /\ tries'[j] = tries[j]

Stay(j) == stage'[j] = stage[j] /\ tries'[j] = tries[j]

JobStep(j) ==
    Submit(j) \/ HandOut(j) \/ Retry(j) \/ Complete(j) \/ Fail(j) \/ Discard(j) \/ Stay(j)

Next ==
    /\ \A j \in Jobs : JobStep(j)
    /\ stage' = [j \in Jobs |-> stage'[j]]
    /\ tries' = [j \in Jobs |-> tries'[j]]

Spec == Init /\ [][Next]_lifecycleVars
===============================================================================
