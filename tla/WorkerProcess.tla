---------------------------- MODULE WorkerProcess -----------------------------
(***************************************************************************)
(* The worker processes (crates/worker/src/lib.rs, control_plane.rs,       *)
(* task_execution.rs) at work on the control plane's queue: the order in   *)
(* which a process registers, claims an inbox listener and sends its first *)
(* heartbeat; its heartbeat task; its loop of pull, execute and report;    *)
(* calls that fail or are answered too late; crashes, and restarts by the  *)
(* operating system under the same worker id.                              *)
(*                                                                         *)
(* The actions of JobQueue are what the server does with a call.  Here     *)
(* each is tied to the process that makes the call: a process off does not *)
(* heartbeat, one that executes a job does not pull.  A call that the      *)
(* process has given up (its client times out after 120 s) or that it left *)
(* behind in a crash stays in late, and the server may still act on it.    *)
(***************************************************************************)
EXTENDS JobQueue

CONSTANTS
    InboxAgent,     \* worker -> WORKER_INBOX_AGENT_ID, or NoAgent
    Reliable,       \* workers that do not crash, finish each job, are not deleted
    Lossy,          \* whether calls can fail on the network or time out
    MaxLate,        \* bound: calls given up that the server may yet act on,
                    \* and pulls it has begun with that nobody awaits
    NoJob           \* the process executes no job and awaits no pull

ASSUME InboxAgentAssumption == InboxAgent \in [Workers -> Agents \cup {NoAgent}]
ASSUME ReliableAssumption == Reliable \subseteq Workers
ASSUME LossyAssumption == Lossy \in BOOLEAN /\ MaxLate \in Nat
ASSUME NoJobAssumption == NoJob \notin Jobs /\ Pulls \cap (Jobs \cup {NoJob}) = {}

VARIABLES
    at,     \* worker -> where its process is
    doing,  \* worker -> the job in current_job, or the pull it awaits
    late    \* calls given up by the process that the server may yet act on

processVars == <<at, doing, late>>
allVars == <<vars, processVars>>

\* "await": the pull is sent, "answer": the completion is sent, and in both
\* the response is awaited.
Serving == {"pull", "await", "run", "answer"}
Starting == {"claim", "claimed", "heartbeat"}
Place == {"off"} \cup Starting \cup Serving

LateCall == [call: {"pull"}, by: Workers] \cup
            [call: {"complete"}, by: Workers, job: Jobs, outcome: Outcomes]

ProcessTypeOK ==
    /\ at \in [Workers -> Place]
    /\ doing \in [Workers -> Jobs \cup Pulls \cup {NoJob}]
    /\ late \subseteq LateCall
    /\ \A w \in Workers : /\ doing[w] \in Jobs <=> at[w] \in {"run", "answer"}
                          /\ doing[w] \in Pulls <=> at[w] = "await"

ProcessInit ==
    /\ Init
    /\ at = [w \in Workers |-> "off"]
    /\ doing = [w \in Workers |-> NoJob]
    /\ late = {}

MutantGoto(w, place) == at' = [at EXCEPT ![w] = place] /\ UNCHANGED doing
Goto(w, place) ==
    /\ at' = [at EXCEPT ![w] = place]
    /\ doing' = [doing EXCEPT ![w] = NoJob]

Execute(w, j) ==
    /\ at' = [at EXCEPT ![w] = "run"]
    /\ doing' = [doing EXCEPT ![w] = j]

\* A pull that no process awaits any more.
LeftBehind(p) == \A w \in Workers : doing[w] # p

MayLeave ==
    Cardinality(late) + Cardinality({p \in Pulls : pulls[p] # NoPull /\ LeftBehind(p)})
        < MaxLate

-----------------------------------------------------------------------------
(* Start-up.  Every error here ends the process.                           *)

\* 409: the id has a row already, which the server leaves as it is.
AlreadyRegistered(w) == w \in registered /\ UNCHANGED registryVars

\* register_idempotent takes 201 and 409 alike.
MutantAfterRegister(w) == IF w \in registered THEN "off" ELSE "heartbeat"
AfterRegister(w) == IF InboxAgent[w] = NoAgent THEN "heartbeat" ELSE "claim"

StartUp(w) ==
    /\ at[w] = "off"
    /\ Register(w) \/ AlreadyRegistered(w)
    /\ Goto(w, AfterRegister(w))
    /\ UNCHANGED <<queueVars, late>>

\* The server registers the worker, but the process does not learn of it.
RegisterUnanswered(w) ==
    /\ Lossy
    /\ at[w] = "off"
    /\ Register(w)
    /\ UNCHANGED <<queueVars, processVars>>

ClaimTaken(w) ==
    /\ at[w] = "claim"
    /\ ClaimCheck(w, InboxAgent[w])
    /\ Goto(w, "claimed")
    /\ UNCHANGED <<queueVars, late>>

\* 404 for an unknown worker or agent; 409 if the worker is stale or another
\* one holds the listener.
ClaimRefused(w) ==
    /\ at[w] = "claim"
    /\ \/ w \notin fresh
       \/ InboxAgent[w] \notin agents
       \/ ~MayClaim(w, InboxAgent[w])
    /\ Goto(w, "off")
    /\ UNCHANGED <<vars, late>>

\* A claim goes on when its process has ended meanwhile.
ClaimDone(w) ==
    /\ ClaimCommit(w)
    /\ IF at[w] = "claimed" THEN Goto(w, "heartbeat") ELSE UNCHANGED <<at, doing>>
    /\ UNCHANGED <<queueVars, late>>

ClaimFails(w) ==
    /\ ClaimAbort(w)
    /\ IF at[w] = "claimed" THEN Goto(w, "off") ELSE UNCHANGED <<at, doing>>
    /\ UNCHANGED <<queueVars, late>>

FirstHeartbeat(w) ==
    /\ at[w] = "heartbeat"
    /\ Heartbeat(w)
    /\ Goto(w, "pull")
    /\ UNCHANGED <<queueVars, late>>

\* 404: the worker was deleted since it registered.
HeartbeatRefused(w) ==
    /\ at[w] = "heartbeat"
    /\ w \notin registered
    /\ Goto(w, "off")
    /\ UNCHANGED <<vars, late>>

GiveUp(w) ==
    /\ Lossy
    /\ at[w] \in Starting
    /\ Goto(w, "off")
    /\ UNCHANGED <<vars, late>>

-----------------------------------------------------------------------------
(* The heartbeat task: errors, 404 for a deleted worker included, are      *)
(* logged and nothing else.                                                *)

HeartbeatTask(w) ==
    /\ at[w] \in Serving
    /\ Heartbeat(w)
    /\ UNCHANGED <<queueVars, processVars>>

\* The stale threshold is several heartbeat intervals long.
MissHeartbeats(w) ==
    /\ at[w] \in Serving => Lossy
    /\ GoStale(w)
    /\ UNCHANGED <<queueVars, processVars>>

-----------------------------------------------------------------------------
(* The pull loop.                                                          *)

\* The server has begun with the pull, up to the sweep.
PullSent(w) ==
    /\ at[w] = "pull"
    /\ \E p \in Pulls : /\ PullSweep(p, w)
                         /\ doing' = [doing EXCEPT ![w] = p]
    /\ at' = [at EXCEPT ![w] = "await"]
    /\ UNCHANGED late

\* 200: the worker's job, assigned now or before.
Handed(w) ==
    {j \in HeldBy(jobs', w) :
        Admitted(doing[w]) /\ \A k \in HeldBy(jobs', w) : j <= k}

PullAnswered(w) ==
    /\ at[w] = "await"
    /\ PullCommit(doing[w])
    /\ IF Handed(w) = {} THEN Goto(w, "pull") ELSE \E j \in Handed(w) : Execute(w, j)
    /\ UNCHANGED late

\* The pull has committed, and then the response is lost or an error: the
\* token refresh comes after the commit.
PullUnanswered(w) ==
    /\ at[w] = "await"
    /\ PullCommit(doing[w])
    /\ Goto(w, "pull")
    /\ UNCHANGED late

PullFails(w) ==
    /\ at[w] = "await"
    /\ PullAbort(doing[w])
    /\ Goto(w, "pull")
    /\ UNCHANGED late

\* The process waits no longer; the server goes on with the pull.
PullGivenUp(w) ==
    /\ Lossy
    /\ at[w] = "await"
    /\ MayLeave
    /\ Goto(w, "pull")
    /\ UNCHANGED <<vars, late>>

Abandon(call) ==
    /\ Lossy
    /\ MayLeave
    /\ late' = late \cup {call}

PullAbandoned(w) ==
    /\ at[w] = "pull"
    /\ Abandon([call |-> "pull", by |-> w])
    /\ UNCHANGED <<vars, at, doing>>

LatePull(w) ==
    /\ [call |-> "pull", by |-> w] \in late
    /\ \E p \in Pulls : PullSweep(p, w)
    /\ late' = late \ {[call |-> "pull", by |-> w]}
    /\ UNCHANGED <<at, doing>>

\* The execution of the job ends, and complete_task is called with its
\* outcome; a failure of any step of it is reported in the same way.
Report(w, r, outcome) ==
    /\ at[w] = "run"
    /\ CompleteCheck(r, doing[w], w, outcome)
    /\ at' = [at EXCEPT ![w] = "answer"]
    /\ UNCHANGED <<doing, late>>

\* 404: the job is no longer assigned to this worker.
ReportRefused(w) ==
    /\ at[w] = "run"
    /\ doing[w] \notin HeldBy(jobs, w)
    /\ Goto(w, "pull")
    /\ UNCHANGED <<vars, late>>

ReportAbandoned(w, outcome) ==
    /\ at[w] = "run"
    /\ outcome = "sentinel" => WorkflowOf(doing[w]) = "loop_until_sentinel"
    /\ Abandon([call |-> "complete", by |-> w, job |-> doing[w], outcome |-> outcome])
    /\ Goto(w, "pull")
    /\ UNCHANGED vars

\* The call never reaches the server; it is not repeated.
ReportLost(w) ==
    /\ Lossy
    /\ at[w] = "run"
    /\ Goto(w, "pull")
    /\ UNCHANGED <<vars, late>>

LateReport(r, c) ==
    /\ c \in late
    /\ c.call = "complete"
    /\ CompleteCheck(r, c.job, c.by, c.outcome)
    /\ late' = late \ {c}
    /\ UNCHANGED <<at, doing>>

\* Whatever the response says, or if it never comes, the loop goes on.
ReportAnswered(w) ==
    /\ at[w] = "answer"
    /\ \A r \in Requests :
          requests[r] # NoRequest /\ requests[r].job = doing[w] => Lossy
    /\ Goto(w, "pull")
    /\ UNCHANGED <<vars, late>>

\* The process crashes or is stopped; nothing of it survives.
Crash(w) ==
    /\ w \notin Reliable
    /\ at[w] # "off"
    /\ at[w] = "await" => MayLeave
    /\ Goto(w, "off")
    /\ UNCHANGED <<vars, late>>

-----------------------------------------------------------------------------
PullMade(w) == PullAnswered(w) \/ PullUnanswered(w)

RunEnds(w) ==
    \/ \E r \in Requests, outcome \in Outcomes : Report(w, r, outcome)
    \/ ReportRefused(w)
    \/ ReportLost(w)
    \/ \E outcome \in Outcomes : ReportAbandoned(w, outcome)

ProcessStep(w) ==
    \/ StartUp(w)
    \/ RegisterUnanswered(w)
    \/ ClaimTaken(w)
    \/ ClaimRefused(w)
    \/ ClaimDone(w)
    \/ ClaimFails(w)
    \/ FirstHeartbeat(w)
    \/ HeartbeatRefused(w)
    \/ GiveUp(w)
    \/ HeartbeatTask(w)
    \/ MissHeartbeats(w)
    \/ PullSent(w)
    \/ PullMade(w)
    \/ PullFails(w)
    \/ PullGivenUp(w)
    \/ PullAbandoned(w)
    \/ LatePull(w)
    \/ RunEnds(w)
    \/ ReportAnswered(w)
    \/ Crash(w)

Removal(w) ==
    /\ w \notin Reliable
    /\ RemoveStart(w) \/ RemoveCommit(w) \/ RemoveAbort(w)
    /\ UNCHANGED processVars

\* What the server, its clients and time do on their own.
ServerStep ==
    /\ \/ \E p \in Pulls : LeftBehind(p) /\ PullStep(p)
       \/ \E r \in Requests : RequestStep(r)
       \/ ClientNext
       \/ \E j \in Jobs : LeaseRunsOut(j)
    /\ UNCHANGED processVars

ProcessNext ==
    \/ \E w \in Workers : ProcessStep(w) \/ Removal(w)
    \/ \E r \in Requests, c \in late : LateReport(r, c)
    \/ ServerStep

ProcessSpec == ProcessInit /\ [][ProcessNext]_allVars

-----------------------------------------------------------------------------
(* Fairness.  The heartbeat task and the pull loop of a reliable worker's  *)
(* process repeat their calls for as long as it lives, so that some get    *)
(* through and pulls are committed whatever the network and the database   *)
(* lose, pulls soon enough after a heartbeat among them.  Whenever the     *)
(* process has ended it is started again (restart: unless-stopped), and it *)
(* ends the execution of every job.  Transactions end, if only by an       *)
(* error.  Nothing is assumed about the response to a pull, about clients, *)
(* or about other workers.                                                 *)

KeepsStarting(w) ==
    /\ WF_allVars(StartUp(w))
    /\ SF_allVars(ClaimTaken(w))
    /\ WF_allVars(ClaimRefused(w))
    /\ WF_allVars(ClaimDone(w) \/ ClaimFails(w))
    /\ SF_allVars(FirstHeartbeat(w))
    /\ WF_allVars(HeartbeatRefused(w))

KeepsServing(w) ==
    /\ WF_allVars(HeartbeatTask(w))
    /\ SF_allVars(PullSent(w))
    /\ SF_allVars(w \in fresh /\ PullSent(w))
    /\ SF_allVars(PullMade(w))
    /\ SF_allVars(PullMade(w) /\ Admitted(doing[w]))
    /\ WF_allVars(ReportAnswered(w))

PullEnds(p) ==
    \/ \E w \in Workers : doing[w] = p /\ (PullMade(w) \/ PullFails(w))
    \/ LeftBehind(p) /\ PullStep(p) /\ UNCHANGED processVars

TransactionsEnd ==
    /\ \A p \in Pulls : WF_allVars(PullEnds(p))
    /\ \A r \in Requests : WF_allVars(RequestStep(r) /\ UNCHANGED processVars)
    /\ \A w \in Workers :
          WF_allVars((RemoveCommit(w) \/ RemoveAbort(w)) /\ UNCHANGED processVars)

Fairness ==
    /\ \A w \in Reliable : KeepsStarting(w) /\ KeepsServing(w) /\ SF_allVars(RunEnds(w))
    /\ \A j \in Jobs : WF_allVars(LeaseRunsOut(j) /\ UNCHANGED processVars)
    /\ TransactionsEnd

LiveSpec == ProcessSpec /\ Fairness

-----------------------------------------------------------------------------
Runners(j) == {w \in Workers : doing[w] = j}

\* However often a job is lost and handed out again, no more processes work
\* on it at once than it was handed out for: one, and one for each reclaim.
RunnersBounded ==
    \A j \in Jobs : Cardinality(Runners(j)) <= jobs[j].reclaims + 1

\* With leases on and a reliable worker that has no inbox, every job ends:
\* it does not stay queued behind jobs that keep failing, nor assigned to a
\* worker that hangs, was deleted, or never got the response to its pull.
JobsEnd ==
    \A j \in Jobs :
        jobs[j].status \in Active ~> jobs[j].status \in Terminal \cup {"deleted"}

\* A worker without an inbox agent whose process is started again whenever it
\* ends gets to work, its id being known already or not, stale or not.
WorkerComesBack ==
    \A w \in Reliable : at[w] = "off" /\ InboxAgent[w] = NoAgent ~> at[w] = "pull"

-----------------------------------------------------------------------------
(* What the documents say and the code does not do.                        *)

\* docs/ARCHITECTURE.md:193 - "The restarted worker re-registers and picks up
\* reclaimed jobs": so does one that holds its agent's listener.  But it has
\* to claim the listener before its first heartbeat, and gone stale it is
\* refused that claim at every restart.
InboxWorkerComesBack ==
    \A w \in Reliable :
        at[w] = "off" /\ (\E a \in Agents : InboxAgent[w] = a /\ listener[a] = w)
            ~> at[w] = "pull"
===============================================================================
