------------------------------- MODULE JobQueue -------------------------------
(***************************************************************************)
(* The control plane's job queue: how sessions become jobs, how workers    *)
(* pull and complete them, and what happens to the jobs of workers that    *)
(* are lost or deleted (crates/server/src/worker_tasks.rs, sessions.rs,    *)
(* inbox.rs, workers.rs).                                                  *)
(*                                                                         *)
(* Every handler is a PostgreSQL transaction at READ COMMITTED.  It is one *)
(* action, at its commit, unless something it read without a lock decides  *)
(* what it does later.  Three handlers do that and take several actions:   *)
(* pull_task (its sweep judges workers by last_seen_at, then the rest),    *)
(* complete_task (its check of the job, and for loop_n its count of the    *)
(* active jobs) and delete_worker (the update of the worker's jobs, then   *)
(* the delete of the worker).  rowLock holds the row locks they keep in    *)
(* between; an UPDATE that meets a locked row waits, a plain SELECT reads  *)
(* the committed row.                                                      *)
(*                                                                         *)
(* An operator named Mutant.. is a wrong variant of the one after it.  It  *)
(* is used nowhere: put in its place, it makes a property fail.            *)
(***************************************************************************)
EXTENDS WorkerRegistry

CONSTANTS
    Sessions,       \* session ids, in the order of created_at
    Jobs,           \* job ids, in the order of (created_at, queue_ordinal, id)
    Tasks,          \* inbox task ids, in the order of (enqueued_at, id)
    Requests,       \* slots for complete_task requests the server is running
    Pulls,          \* slots for pull_task requests the server is running
    NoTx,           \* the row lock of a row that nobody has locked
    Workflow,       \* session -> its workflow
    SessionAgent,   \* session -> params.agent_id (inbox sessions)
    LoopN,          \* params.n of the loop_n sessions
    MaxReclaims,    \* max_job_reclaims
    MaxIterations,  \* max(1, loop_until_sentinel_max_iterations)
    LeaseEnabled    \* job_lease_seconds > 0

Workflows == {"chat", "loop_n", "loop_until_sentinel", "inbox"}
Loops == {"loop_n", "loop_until_sentinel"}

ASSUME OrderAssumption ==
    /\ Sessions \subseteq Nat /\ Jobs \subseteq Nat /\ Tasks \subseteq Nat
    /\ Sessions # {} /\ Jobs # {} /\ Agents # {}
ASSUME WorkflowAssumption == Workflow \in [Sessions -> Workflows]
ASSUME AgentAssumption == SessionAgent \in [Sessions -> Agents]
ASSUME LimitAssumption ==
    /\ LoopN \in Nat \ {0}
    /\ MaxReclaims \in Nat
    /\ MaxIterations \in Nat \ {0}
    /\ LeaseEnabled \in BOOLEAN
ASSUME TxAssumption ==
    /\ Requests \cap Workers = {} /\ Requests \cap Pulls = {} /\ Workers \cap Pulls = {}
    /\ NoTx \notin Requests \cup Workers \cup Pulls

VARIABLES
    sessions,   \* session -> status
    jobs,       \* job -> row of table jobs
    expired,    \* jobs whose assigned_at is older than job_lease_seconds
    inbox,      \* inbox task -> row of table inbox_tasks
    requests,   \* request slot -> the complete_task it runs
    pulls,      \* pull slot -> the pull_task it runs, past its sweep
    removing,   \* workers with a DELETE /workers/:id in progress
    rowLock,    \* job -> open transaction that holds the lock of its row
    attempts    \* history: how often each job was handed to a worker

queueVars == <<sessions, jobs, expired, inbox, requests, pulls, removing, rowLock,
               attempts>>
vars == <<registryVars, queueVars>>

SessionStatus == {"absent", "pending", "running", "completed", "failed", "deleted"}
Active == {"pending", "assigned"}
Terminal == {"completed", "failed"}
JobStatus == Active \cup Terminal \cup {"absent", "deleted"}
Outcomes == {"success", "sentinel", "failed"}

\* A row not yet inserted has its defaults: no worker, reclaim_count 0.
JobRow == [status: JobStatus, session: Sessions, worker: Workers \cup {NoWorker},
           reclaims: Nat]
InboxRow == [status: {"absent", "pending", "promoted"}, agent: Agents, job: Jobs]
NoRequest == [phase |-> "idle"]
Request == [phase: {"checked", "sawOthers", "sawNone"}, job: Jobs, outcome: Outcomes]

\* over: the jobs it found past their lease; stale: of the workers it looked
\* at, those it found with a last_seen_at before its cutoff.
NoPull == [by |-> NoWorker]
Pull == [by: Workers, over: SUBSET Jobs, stale: SUBSET Workers]

TypeOK ==
    /\ RegistryTypeOK
    /\ sessions \in [Sessions -> SessionStatus]
    /\ jobs \in [Jobs -> JobRow]
    /\ expired \subseteq Jobs
    /\ inbox \in [Tasks -> InboxRow]
    /\ requests \in [Requests -> Request \cup {NoRequest}]
    /\ pulls \in [Pulls -> Pull \cup {NoPull}]
    /\ removing \subseteq Workers
    /\ rowLock \in [Jobs -> Requests \cup Workers \cup Pulls \cup {NoTx}]
    /\ attempts \in [Jobs -> Nat]

\* The columns of rows that are not inserted yet hold any value.
NoJobRow == [status |-> "absent", session |-> CHOOSE s \in Sessions : TRUE,
             worker |-> NoWorker, reclaims |-> 0]
NoInboxRow == [status |-> "absent", agent |-> CHOOSE a \in Agents : TRUE,
               job |-> CHOOSE j \in Jobs : TRUE]

Init ==
    /\ RegistryInit
    /\ sessions = [s \in Sessions |-> "absent"]
    /\ jobs = [j \in Jobs |-> NoJobRow]
    /\ expired = {}
    /\ inbox = [t \in Tasks |-> NoInboxRow]
    /\ requests = [r \in Requests |-> NoRequest]
    /\ pulls = [p \in Pulls |-> NoPull]
    /\ removing = {}
    /\ rowLock = [j \in Jobs |-> NoTx]
    /\ attempts = [j \in Jobs |-> 0]

-----------------------------------------------------------------------------
(* Rows and the updates the handlers share.                                *)

Unused == {j \in Jobs : jobs[j].status = "absent"}
JobsOf(s) == {j \in Jobs : jobs[j].session = s /\ jobs[j].status \notin {"absent", "deleted"}}
ActiveJobs(s) == {j \in JobsOf(s) : jobs[j].status \in Active}
MutantHeldBy(table, w) ==
    {j \in Jobs : table[j].status = "assigned" /\ table[j].worker # NoWorker}
HeldBy(table, w) == {j \in Jobs : table[j].status = "assigned" /\ table[j].worker = w}

NewRow(s) == [status |-> "pending", session |-> s, worker |-> NoWorker, reclaims |-> 0]
Assign(row, w) == [row EXCEPT !.status = "assigned", !.worker = w]
Finish(row, status) == [row EXCEPT !.status = status, !.worker = NoWorker]

MutantRequeue(row) == [row EXCEPT !.status = "pending", !.worker = NoWorker, !.reclaims = @ - 1]
Requeue(row) == [row EXCEPT !.status = "pending", !.worker = NoWorker, !.reclaims = @ + 1]

\* A job whose worker is lost goes back to the queue until it has been
\* reclaimed MaxReclaims times; then it fails ([MAX_WORKER_LOSS_RETRIES]).
MutantReclaim(row) == Requeue(row)
Reclaim(row) == IF row.reclaims < MaxReclaims THEN Requeue(row) ELSE Finish(row, "failed")

\* assigned_at is cleared or set anew by every update of a row that matters
\* to the lease; a row that keeps its lease may expire again.
RestartLeases == expired' = {j \in expired : jobs'[j] = jobs[j]}

\* The ids that n INSERTs in a row get.
NextIds(new, n) ==
    /\ new \subseteq Unused
    /\ IsFiniteSet(new)
    /\ Cardinality(new) = n
    /\ \A j \in new, k \in Unused \ new : j < k

-----------------------------------------------------------------------------
(* Sessions.                                                               *)

PlannedJobs(s) ==
    CASE Workflow[s] = "inbox" -> 0
      [] Workflow[s] = "loop_n" -> LoopN
      [] OTHER -> 1

\* POST /sessions, past its validation: the session, its first jobs and, for
\* an inbox session, the agent's row, in one transaction.
CreateSession(s) ==
    /\ sessions[s] = "absent"
    /\ \A s2 \in Sessions : sessions[s2] = "absent" => s <= s2
    /\ \E new \in SUBSET Unused :
          /\ NextIds(new, PlannedJobs(s))
          /\ jobs' = [j \in Jobs |-> IF j \in new THEN NewRow(s) ELSE jobs[j]]
    /\ sessions' = [sessions EXCEPT ![s] = IF Workflow[s] = "inbox" THEN "running"
                                           ELSE "pending"]
    /\ IF Workflow[s] = "inbox" THEN KnowAgent(SessionAgent[s]) ELSE UNCHANGED agents
    /\ UNCHANGED <<registered, fresh, listener, claiming, current, listenerLock,
                   expired, inbox, requests, pulls, removing, rowLock, attempts>>

\* A chat takes a message while it is running and has no job under way.  The
\* handler checks this with the session's row locked.
MutantAcceptsInput(s) == Workflow[s] = "chat" /\ sessions[s] = "running"
AcceptsInput(s) ==
    /\ Workflow[s] = "chat"
    /\ sessions[s] = "running"
    /\ ActiveJobs(s) = {}

\* POST /sessions/:id/input: a follow-up message in a chat.
PostInput(s) ==
    /\ AcceptsInput(s)
    /\ \E new \in SUBSET Unused :
          /\ NextIds(new, 1)
          /\ jobs' = [j \in Jobs |-> IF j \in new THEN NewRow(s) ELSE jobs[j]]
    /\ UNCHANGED <<registryVars, sessions, expired, inbox, requests, pulls, removing,
                   rowLock, attempts>>

\* DELETE /sessions/:id: the jobs go with the session (ON DELETE CASCADE),
\* once none of their rows is locked.  Inbox tasks have no such reference.
DeleteSession(s) ==
    /\ sessions[s] \notin {"absent", "deleted"}
    /\ \A j \in JobsOf(s) : rowLock[j] = NoTx
    /\ sessions' = [sessions EXCEPT ![s] = "deleted"]
    /\ jobs' = [j \in Jobs |-> IF j \in JobsOf(s) THEN Finish(jobs[j], "deleted")
                               ELSE jobs[j]]
    /\ RestartLeases
    /\ UNCHANGED <<registryVars, inbox, requests, pulls, removing, rowLock, attempts>>

RunningInbox(a) ==
    {s \in Sessions : /\ Workflow[s] = "inbox"
                      /\ SessionAgent[s] = a
                      /\ sessions[s] = "running"}

MutantPendingTasks(a) == {t \in Tasks : inbox[t].status # "absent" /\ inbox[t].agent = a}
PendingTasks(a) == {t \in Tasks : inbox[t].status = "pending" /\ inbox[t].agent = a}

\* POST /agents/:id/inbox.
PostInbox(a, t) ==
    /\ a \in agents
    /\ RunningInbox(a) # {}
    /\ inbox[t].status = "absent"
    /\ \A t2 \in Tasks : inbox[t2].status = "absent" => t <= t2
    /\ inbox' = [inbox EXCEPT ![t] = [@ EXCEPT !.status = "pending", !.agent = a]]
    /\ UNCHANGED <<registryVars, sessions, jobs, expired, requests, pulls, removing,
                   rowLock, attempts>>

-----------------------------------------------------------------------------
(* POST /workers/tasks/pull.                                               *)

MutantLeaseOver ==
    {j \in expired : LeaseEnabled /\ jobs[j].status = "assigned" /\ jobs[j].worker \in Stale}
LeaseOver == {j \in expired : LeaseEnabled /\ jobs[j].status = "assigned"}
MutantLost == {j \in Jobs : jobs[j].status = "assigned" /\ jobs[j].worker # NoWorker}
Lost == {j \in Jobs : jobs[j].status = "assigned" /\ jobs[j].worker \in Stale}

\* Every pull first sweeps the whole table: assigned jobs past their lease
\* fail, then those of workers it finds stale are reclaimed.  The updates
\* lock the rows, not the workers: heartbeats go on until the commit.
PullSweep(p, w) ==
    /\ pulls[p] = NoPull
    /\ \A j \in LeaseOver \cup Lost : rowLock[j] = NoTx
    /\ pulls' = [pulls EXCEPT ![p] =
           [by |-> w, over |-> LeaseOver,
            stale |-> {v \in Stale : v = w \/ HeldBy(jobs, v) # {}}]]
    /\ rowLock' = [j \in Jobs |-> IF j \in LeaseOver \cup Lost THEN p ELSE rowLock[j]]
    /\ UNCHANGED <<registryVars, sessions, jobs, expired, inbox, requests, removing,
                   attempts>>

\* The table as the rest of the pull sees it.
Swept(p) == [j \in Jobs |-> IF rowLock[j] # p THEN jobs[j]
                            ELSE IF j \in pulls[p].over THEN Finish(jobs[j], "failed")
                            ELSE Reclaim(jobs[j])]

Queued(p) == {j \in Jobs : Swept(p)[j].status = "pending"}

\* inbox_listeners has no unique worker_id: the agent a pull looks at is any
\* one of those the worker listens to.  There is something to promote when
\* it has a running inbox session and a pending task.
Listening(w) == {a \in Agents : listener[a] = w}
CanPromote(a) == RunningInbox(a) # {} /\ PendingTasks(a) # {}
NoPromotion(w) == Listening(w) = {} \/ \E a \in Listening(w) : ~CanPromote(a)

MutantStartSession(s) == UNCHANGED sessions
StartSession(s) ==
    sessions' = IF sessions[s] = "pending" THEN [sessions EXCEPT ![s] = "running"]
                ELSE sessions

\* Otherwise the worker is unknown (404), or still stale by the cutoff (409).
Admitted(p) ==
    /\ pulls[p].by \in registered
    /\ pulls[p].by \in fresh \/ pulls[p].by \notin pulls[p].stale

\* A pull that assigns nothing new: the worker is not admitted, it already
\* holds a job and is given that job again, or there is no work (204).  The
\* sweep is committed all the same.
PullSweepOnly(p) ==
    /\ \/ ~Admitted(p)
       \/ HeldBy(Swept(p), pulls[p].by) # {}
       \/ Queued(p) = {} /\ NoPromotion(pulls[p].by)
    /\ jobs' = Swept(p)
    /\ UNCHANGED <<sessions, inbox, attempts>>

MayAssign(p) == Admitted(p) /\ HeldBy(Swept(p), pulls[p].by) = {}

\* The oldest pending task of an agent the worker listens to becomes a job
\* of the agent's latest running inbox session, assigned from the start.
PullPromote(p) ==
    /\ MayAssign(p)
    /\ \E a \in Listening(pulls[p].by) :
          /\ CanPromote(a)
          /\ \E s \in RunningInbox(a), t \in PendingTasks(a), j \in Jobs :
                /\ \A s2 \in RunningInbox(a) : s2 <= s
                /\ \A t2 \in PendingTasks(a) : t <= t2
                /\ NextIds({j}, 1)
                /\ jobs' = [Swept(p) EXCEPT ![j] = Assign(NewRow(s), pulls[p].by)]
                /\ inbox' = [inbox EXCEPT ![t] = [@ EXCEPT !.status = "promoted",
                                                           !.job = j]]
                /\ attempts' = [attempts EXCEPT ![j] = @ + 1]
                /\ StartSession(s)

\* Otherwise the oldest pending job of any session is assigned.
PullClaim(p) ==
    /\ MayAssign(p)
    /\ NoPromotion(pulls[p].by)
    /\ \E j \in Queued(p) :
          /\ \A k \in Queued(p) : j <= k
          /\ jobs' = [Swept(p) EXCEPT ![j] = Assign(@, pulls[p].by)]
          /\ attempts' = [attempts EXCEPT ![j] = @ + 1]
          /\ StartSession(jobs[j].session)
    /\ UNCHANGED inbox

EndPull(p) ==
    /\ pulls' = [pulls EXCEPT ![p] = NoPull]
    /\ rowLock' = [j \in Jobs |-> IF rowLock[j] = p THEN NoTx ELSE rowLock[j]]

\* The worker's row, its job and the queue are read, and all is committed.
PullCommit(p) ==
    /\ pulls[p] # NoPull
    /\ PullSweepOnly(p) \/ PullPromote(p) \/ PullClaim(p)
    /\ EndPull(p)
    /\ RestartLeases
    /\ UNCHANGED <<registryVars, requests, removing>>

\* A database error, a deadlock or a server crash rolls the pull back.
PullAbort(p) ==
    /\ pulls[p] # NoPull
    /\ EndPull(p)
    /\ UNCHANGED <<registryVars, sessions, jobs, expired, inbox, requests, removing,
                   attempts>>

\* Time: a job stays assigned for longer than job_lease_seconds.
LeaseRunsOut(j) ==
    /\ LeaseEnabled
    /\ jobs[j].status = "assigned"
    /\ expired' = expired \cup {j}
    /\ UNCHANGED <<registryVars, sessions, jobs, inbox, requests, pulls, removing,
                   rowLock, attempts>>

-----------------------------------------------------------------------------
(* POST /workers/tasks/:id/complete.                                       *)

\* The job is assigned, and to the worker the request names if it names one
\* (NoWorker: it does not).  No lock is taken.
CompleteCheck(r, j, by, outcome) ==
    /\ requests[r] = NoRequest
    /\ jobs[j].status = "assigned"
    /\ by # NoWorker => jobs[j].worker = by
    /\ outcome = "sentinel" => Workflow[jobs[j].session] = "loop_until_sentinel"
    /\ requests' = [requests EXCEPT ![r] =
           [phase |-> "checked", job |-> j, outcome |-> outcome]]
    /\ UNCHANGED <<registryVars, sessions, jobs, expired, inbox, pulls, removing,
                   rowLock, attempts>>

WorkflowOf(j) == Workflow[jobs[j].session]

\* UPDATE jobs .. WHERE id = $1 AND status = 'assigned' finds its row.
MutantUpdatable(r, j) == rowLock[j] \in {NoTx, r}
Updatable(r, j) == jobs[j].status = "assigned" /\ rowLock[j] \in {NoTx, r}

\* SELECT COUNT(*) .. status IN ('pending', 'assigned'), j itself being done.
MutantOthersActive(j) ==
    {k \in JobsOf(jobs[j].session) \ {j} : jobs[k].status = "pending"}
OthersActive(j) == ActiveJobs(jobs[j].session) \ {j}

\* loop_n, success: the row is updated, and thereby locked, and then the
\* session's other active jobs are counted as committed at that moment.
CompleteCount(r) ==
    LET j == requests[r].job
    IN /\ requests[r] # NoRequest
       /\ requests[r].phase = "checked"
       /\ requests[r].outcome # "failed"
       /\ WorkflowOf(j) = "loop_n"
       /\ Updatable(r, j)
       /\ requests' = [requests EXCEPT ![r] = [@ EXCEPT !.phase =
              IF OthersActive(j) = {} THEN "sawNone" ELSE "sawOthers"]]
       /\ rowLock' = [rowLock EXCEPT ![j] = r]
       /\ UNCHANGED <<registryVars, sessions, jobs, expired, inbox, pulls, removing,
                      attempts>>

EndRequest(r) ==
    /\ requests' = [requests EXCEPT ![r] = NoRequest]
    /\ rowLock' = [j \in Jobs |-> IF rowLock[j] = r THEN NoTx ELSE rowLock[j]]

\* .. and the commit, which sets the session's status from that count.
CompleteLoopN(r) ==
    LET j == requests[r].job
    IN /\ requests[r] # NoRequest
       /\ requests[r].phase \in {"sawNone", "sawOthers"}
       /\ jobs' = [jobs EXCEPT ![j] = Finish(@, "completed")]
       /\ sessions' = [sessions EXCEPT ![jobs[j].session] =
              IF requests[r].phase = "sawNone" THEN "completed" ELSE "running"]
       /\ EndRequest(r)
       /\ RestartLeases
       /\ UNCHANGED <<registryVars, inbox, pulls, removing, attempts>>

\* A failed job fails its session, and cancels the pending jobs of a loop.
CompleteFailed(r) ==
    LET j == requests[r].job
        cancelled == IF WorkflowOf(j) \in Loops
                     THEN {k \in JobsOf(jobs[j].session) : jobs[k].status = "pending"}
                     ELSE {}
    IN /\ requests[r] # NoRequest
       /\ requests[r].phase = "checked"
       /\ requests[r].outcome = "failed"
       /\ Updatable(r, j)
       /\ jobs' = [k \in Jobs |-> IF k \in cancelled \cup {j} THEN Finish(jobs[k], "failed")
                                  ELSE jobs[k]]
       /\ sessions' = [sessions EXCEPT ![jobs[j].session] = "failed"]
       /\ EndRequest(r)
       /\ RestartLeases
       /\ UNCHANGED <<registryVars, inbox, pulls, removing, attempts>>

\* A chat or inbox session goes on running after each job.
CompleteTurn(r) ==
    LET j == requests[r].job
    IN /\ requests[r] # NoRequest
       /\ requests[r].phase = "checked"
       /\ requests[r].outcome # "failed"
       /\ WorkflowOf(j) \in {"chat", "inbox"}
       /\ Updatable(r, j)
       /\ jobs' = [jobs EXCEPT ![j] = Finish(@, "completed")]
       /\ sessions' = [sessions EXCEPT ![jobs[j].session] = "running"]
       /\ EndRequest(r)
       /\ RestartLeases
       /\ UNCHANGED <<registryVars, inbox, pulls, removing, attempts>>

\* How many jobs of the session have completed, job j included.
DoneWith(j) ==
    Cardinality({k \in JobsOf(jobs[j].session) : k = j \/ jobs[k].status = "completed"})

MutantIteratesAfter(r, j) ==
    requests[r].outcome # "sentinel" /\ DoneWith(j) <= MaxIterations
IteratesAfter(r, j) ==
    requests[r].outcome # "sentinel" /\ DoneWith(j) < MaxIterations

\* loop_until_sentinel: the next iteration is enqueued with the completion of
\* this one, until the sentinel is seen or the iteration cap is reached.
CompleteIteration(r) ==
    LET j == requests[r].job
        s == jobs[j].session
        goOn == IteratesAfter(r, j)
        done == [jobs EXCEPT ![j] = Finish(@, "completed")]
    IN /\ requests[r] # NoRequest
       /\ requests[r].phase = "checked"
       /\ requests[r].outcome # "failed"
       /\ WorkflowOf(j) = "loop_until_sentinel"
       /\ Updatable(r, j)
       /\ IF goOn
          THEN \E next \in Jobs : /\ NextIds({next}, 1)
                                  /\ jobs' = [done EXCEPT ![next] = NewRow(s)]
          ELSE jobs' = done
       /\ sessions' = [sessions EXCEPT ![s] = IF goOn THEN "running" ELSE "completed"]
       /\ EndRequest(r)
       /\ RestartLeases
       /\ UNCHANGED <<registryVars, inbox, pulls, removing, attempts>>

\* The request ends without effect: the UPDATE found no row (404), the
\* database aborted the transaction (an error, a deadlock), the server died.
CompleteAbort(r) ==
    /\ requests[r] # NoRequest
    /\ EndRequest(r)
    /\ UNCHANGED <<registryVars, sessions, jobs, expired, inbox, pulls, removing, attempts>>

-----------------------------------------------------------------------------
(* DELETE /workers/:id.                                                    *)

\* The worker's assigned jobs are updated, and their rows thereby locked.
RemoveStart(w) ==
    /\ w \in registered \ removing
    /\ \A j \in HeldBy(jobs, w) : rowLock[j] = NoTx
    /\ removing' = removing \cup {w}
    /\ rowLock' = [j \in Jobs |-> IF j \in HeldBy(jobs, w) THEN w ELSE rowLock[j]]
    /\ UNCHANGED <<registryVars, sessions, jobs, expired, inbox, requests, pulls, attempts>>

EndRemoval(w) ==
    /\ removing' = removing \ {w}
    /\ rowLock' = [j \in Jobs |-> IF rowLock[j] = w THEN NoTx ELSE rowLock[j]]

\* Then the worker's row is deleted and all of it is committed.  A job the
\* worker was assigned in between only loses its worker_id, through the
\* foreign key's ON DELETE SET NULL.
RemoveCommit(w) ==
    /\ w \in removing
    /\ \A j \in HeldBy(jobs, w) : rowLock[j] \in {NoTx, w}
    /\ Unregister(w)
    /\ jobs' = [j \in Jobs |-> IF rowLock[j] = w THEN Reclaim(jobs[j])
                               ELSE IF j \in HeldBy(jobs, w)
                                    THEN [jobs[j] EXCEPT !.worker = NoWorker]
                               ELSE jobs[j]]
    /\ EndRemoval(w)
    /\ RestartLeases
    /\ UNCHANGED <<sessions, inbox, requests, pulls, attempts>>

RemoveAbort(w) ==
    /\ w \in removing
    /\ EndRemoval(w)
    /\ UNCHANGED <<registryVars, sessions, jobs, expired, inbox, requests, pulls, attempts>>

-----------------------------------------------------------------------------
WorkerNext(w) ==
    \/ RegistryStep(w) /\ UNCHANGED queueVars
    \/ RemoveStart(w)
    \/ RemoveCommit(w)
    \/ RemoveAbort(w)

\* A pull that is past its sweep goes on.
PullStep(p) == PullCommit(p) \/ PullAbort(p)

PullNext(p) == (\E w \in Workers : PullSweep(p, w)) \/ PullStep(p)

\* A request that is past its check goes on.
RequestStep(r) ==
    \/ CompleteCount(r)
    \/ CompleteLoopN(r)
    \/ CompleteFailed(r)
    \/ CompleteTurn(r)
    \/ CompleteIteration(r)
    \/ CompleteAbort(r)

RequestNext(r) ==
    \/ \E j \in Jobs, by \in Workers \cup {NoWorker}, outcome \in Outcomes :
          CompleteCheck(r, j, by, outcome)
    \/ RequestStep(r)

ClientNext ==
    \/ \E s \in Sessions : CreateSession(s) \/ PostInput(s) \/ DeleteSession(s)
    \/ \E a \in Agents, t \in Tasks : PostInbox(a, t)

Next ==
    \/ \E w \in Workers : WorkerNext(w)
    \/ \E p \in Pulls : PullNext(p)
    \/ \E r \in Requests : RequestNext(r)
    \/ ClientNext
    \/ \E j \in Jobs : LeaseRunsOut(j)

Spec == Init /\ [][Next]_vars

-----------------------------------------------------------------------------
(* Safety.                                                                 *)

\* A job ends once: whatever reclaims, duplicate or late completions and
\* lease expiries race for it, its completed or failed status stays until
\* the session is deleted.
OutcomeIsFinal ==
    [][\A j \in Jobs : jobs[j].status \in Terminal =>
          jobs'[j].status \in {jobs[j].status, "deleted"}]_vars

\* Bounded retries (docs/ARCHITECTURE.md section 3b): a job is handed out at
\* most once more than it was reclaimed, and reclaimed at most MaxReclaims
\* times, by stale sweeps and worker deletions together.
RetriesBounded ==
    \A j \in Jobs : /\ jobs[j].reclaims <= MaxReclaims
                    /\ attempts[j] <= jobs[j].reclaims + 1

\* A chat turn or a sentinel iteration never overlaps the next one.
OneJobAtATime ==
    \A s \in Sessions : Workflow[s] \in {"chat", "loop_until_sentinel"} =>
        \A j, k \in ActiveJobs(s) : j = k

\* A session is completed only when none of its jobs can still run: the count
\* in complete_task, taken before the commit, is never wrong in this direction.
CompletedMeansDone ==
    \A s \in Sessions : sessions[s] = "completed" => ActiveJobs(s) = {}

\* .. and then stays completed until it is deleted.
CompletedIsFinal ==
    [][\A s \in Sessions : sessions[s] = "completed" =>
          sessions'[s] \in {"completed", "deleted"}]_vars

\* loop_until_sentinel_max_iterations caps the jobs a sentinel loop creates,
\* and so the jobs it completes.
IterationsBounded ==
    \A s \in Sessions : Workflow[s] = "loop_until_sentinel" =>
        Cardinality(JobsOf(s)) <= MaxIterations

\* The job of a worker that is heard from and stays registered ends, or is
\* deleted; it is given to somebody else or put back in the queue in one case
\* only: by a pull whose sweep found that worker stale, and locked the row,
\* before the worker was heard from again.
FreshWorkerKeepsJob ==
    [][\A j \in Jobs :
          /\ jobs[j].status = "assigned"
          /\ jobs[j].worker \in fresh \cap registered'
          /\ jobs'[j].worker # jobs[j].worker
          => \/ jobs'[j].status \in Terminal \cup {"deleted"}
             \/ \E p \in Pulls : /\ rowLock[j] = p
                                 /\ pulls[p] # NoPull
                                 /\ jobs[j].worker \in pulls[p].stale]_vars

\* A session is pending only while none of its jobs was ever handed out, so
\* that clients see "running" from the first assignment on.
PendingMeansUntouched ==
    \A s \in Sessions : sessions[s] = "pending" =>
        \A j \in JobsOf(s) : attempts[j] = 0

\* Inbox tasks and the jobs of inbox sessions correspond one to one: a task is
\* promoted once, to a job in a session of the agent it was posted to, and no
\* such job exists without its task.
PromotedOnce ==
    LET promoted == {t \in Tasks : inbox[t].status = "promoted"}
        inboxJobs == {j \in Jobs : /\ jobs[j].status # "absent"
                                   /\ Workflow[jobs[j].session] = "inbox"}
    IN /\ \A t \in promoted : /\ inbox[t].job \in inboxJobs
                              /\ SessionAgent[jobs[inbox[t].job].session] = inbox[t].agent
       /\ \A j \in inboxJobs : \E t \in promoted : inbox[t].job = j
       /\ \A t1, t2 \in promoted : inbox[t1].job = inbox[t2].job => t1 = t2

-----------------------------------------------------------------------------
(* What the documents say and the code does not do.                        *)

\* docs/ARCHITECTURE.md:164 - on DELETE /workers/:id the jobs assigned to the
\* worker return to pending: no job stays assigned to a worker that is gone.
AssignedToSomeone ==
    \A j \in Jobs : jobs[j].status = "assigned" => jobs[j].worker \in registered

\* loop_n_session_creates_n_ordered_jobs_and_completes_after_last asserts
\* `end.status == "completed"` (tests/sessions_integration.rs:863) once the last
\* of the N jobs of a loop_n session has completed.
ExhaustedLoopIsCompleted ==
    \A s \in Sessions :
        /\ Workflow[s] = "loop_n"
        /\ Cardinality({j \in JobsOf(s) : jobs[j].status = "completed"}) = LoopN
        => sessions[s] = "completed"

-----------------------------------------------------------------------------
\* The queue implements the life of a job that JobLifecycle describes.
Lifecycle == INSTANCE JobLifecycle WITH
                 stage <- [j \in Jobs |-> jobs[j].status],
                 tries <- attempts,
                 MaxTries <- MaxReclaims + 1

ImplementsLifecycle == Lifecycle!Spec

\* .. and its chats and sentinel loops take turns as TurnTaking describes.
TurnSessions == {s \in Sessions : Workflow[s] \in {"chat", "loop_until_sentinel"}}
JobsIn(s, statuses) == {j \in Jobs : jobs[j].status \in statuses /\ jobs[j].session = s}

OneAtATime == INSTANCE TurnTaking WITH
                  Sessions <- TurnSessions,
                  Loops <- {s \in Sessions : Workflow[s] = "loop_until_sentinel"},
                  MaxRounds <- MaxIterations,
                  phase <- [s \in TurnSessions |-> sessions[s]],
                  turn <- [s \in TurnSessions |-> JobsIn(s, Active)],
                  done <- [s \in TurnSessions |-> JobsIn(s, {"completed"})],
                  lost <- [s \in TurnSessions |-> JobsIn(s, {"failed"})]

ImplementsTurnTaking == OneAtATime!Spec
===============================================================================
