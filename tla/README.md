# A TLA+ model of the control plane and its workers

This directory models the coordination logic of the repository: a control plane
(an HTTP server over PostgreSQL) that turns *sessions* into *jobs*, a pool of
workers that poll for jobs and run an agent CLI on a clone of a git repository,
and clients (a CLI and a web console) that create sessions and follow their logs.
The models are written from the source; a document is quoted only where the code
does something else (see *Where the code and the documents disagree*).

Run the checks from this directory:

    tlc -workers 2 -config JobQueueLoopN.cfg MCJobQueue.tla     # a model-checking run
    tlapm SessionProofs.tla                                     # the proofs

`PROJECT.json` lists every run, the lines each definition models (`map`), a wrong
variant of the code for every property that the property must reject (`mutants`),
the hazards the properties are aimed at, and the theorems.

## 1. Inventory

| Component | Code | State it keeps | Operations |
|---|---|---|---|
| Job queue | `server/src/worker_tasks.rs`, `sessions.rs`, `inbox.rs`, `workers.rs` (delete) | tables `sessions`, `jobs`, `inbox_tasks` | create/delete session, chat input, post inbox task, pull, complete, delete worker |
| Worker registry, inbox listeners | `server/src/workers.rs` | tables `workers`, `agents`, `inbox_listeners` | register, heartbeat, listener claim, delete, list |
| Logs | `server/src/logs.rs` | table `logs` (`session_id`, `line_seq` unique) | ingest, page, last N, delete, retention purge |
| Live streams | `server/src/sse.rs`, `sse_hub.rs` | two broadcast channels, in memory | subscribe, publish |
| Chat history | `sessions.rs` (history query), `worker_tasks.rs` (cap on pull), `worker/src/task_execution.rs` (prompt) | `jobs.task_input`, `jobs.assistant_reply` | store, trim, show |
| Credentials | `server/src/oauth.rs`, `identities.rs` | table `identities`: agent and git tokens, refresh token, expiry | OAuth callback, PATCH, refresh before use, status |
| API keys | `server/src/keys.rs`, `auth.rs` | table `api_keys` | bootstrap, create, revoke, check |
| Listings | `sessions.rs`, `workers.rs`, `inbox.rs`, `keys.rs` | none (keyset cursors) | page by page |
| Worker process | `worker/src/lib.rs`, `control_plane.rs` | none that survives a restart; its id comes from the environment | register, claim listener, heartbeat task, pull/execute/complete loop |
| Task execution | `worker/src/task_execution.rs` | a work directory per job | clone, branch, agent, commit, push, logs, complete |
| Agent runner | `worker/src/agent_cli/` | a child process | spawn, drain its output, wait (no timeout), cut the output |
| Git operations | `worker/src/git_ops.rs`, `git_metadata.rs` | the clone | clone, branch, commit, push |
| CLI, web console | `cli/src`, `web/src` | what is on the screen | API calls; follow a log: history, then stream |
| Server assembly | `server/src/lib.rs`, `main.rs`, `config.rs`, `key_material.rs`, `git_repos.rs` | settings | routing, start-up, repository listing |
| API types | `api-types/src` | none | serialisation |

How they interact:

* A worker only ever calls the server. It registers, claims the listener of an
  inbox agent if configured to, and then runs two concurrent loops: one sends
  heartbeats, one pulls a job, executes it, posts its log and reports completion.
* The server never calls a worker. It learns that one is gone from a stale
  `last_seen_at` (noticed during *any* worker's pull, which sweeps the whole `jobs`
  table) or from `DELETE /workers/:id`.
* All coordination between handlers goes through PostgreSQL, at its default
  isolation level READ COMMITTED. There is no lock, queue or cache in the server's
  memory except the broadcast channels of the live streams.
* Workers meet in a second place the server does not see: the repositories they push
  to, and, on one host, the work directory, which is named after the job.
* Clients see the database (paged history) and the broadcast channels (stream), and
  have to put the two together themselves.

What is hard about it:

* *Interleavings of transactions.* A handler that reads, decides and then writes is
  only as atomic as its row locks make it. `complete_task` reads the job and counts
  its siblings without locking; `delete_worker` updates jobs in one statement and
  deletes the worker in another; the listener claim locks a row only if there is one;
  a log batch is numbered from an unlocked `MAX`; a token refresh and a PATCH write
  back what they read before an await; bootstrap counts the keys and then inserts one.
* *Workers that are lost and come back.* A job can be reclaimed while its first
  worker is still running it, so completions arrive late, twice, or for a job that
  somebody else holds by now, and two runs of a job may share one work directory.
* *Time.* Heartbeat staleness and the job lease race the completions they are meant
  to replace; tokens expire; cursors keep milliseconds of microsecond timestamps.
* *Delivery.* Requests and responses are lost; broadcast subscribers lag; a push can be
  refused without an error.

What makes each part correct:

* Job queue: a job ends at most once; it is retried a bounded number of times; a worker
  that is heard from loses its job only to a sweep that had already found it stale; turns
  of a chat and iterations of a loop do not overlap; a session that says it is completed has nothing left to run and does not
  come back; an inbox task becomes exactly one job.
* Registry: a listener row never names a deleted worker; a takeover replaces only the
  holder that was judged stale.
* Logs: no two rows of a session have one number; only committed lines are shown.
* Streams: what a client was promised it sees, and a console that reconnects misses
  no line for ever.
* Chat history: a turn is handed the conversation as it stands, no reply before its
  message, and the console warns exactly when it was cut.
* Credentials: an expired token is not handed out, an identity shown as refreshable can be
  refreshed, and a refresh token that works is not lost, but for the overlaps the
  properties name.
* API keys: bootstrap adds a key only where there was none when it counted.
* Listings: a reader that follows the cursors gets to the end, and sees what was there
  all the while, once.
* Worker process: a worker that can be reached by the server eventually works; each
  job it is given is executed and reported.
* Task execution: a success means that the work is on the branch it names, a failure
  that nothing of it is in the repository, and a push removes nobody's commits, but for
  the cases the properties name.

The hazards, each at the line where it bites and with the properties that cover it,
are in `PROJECT.json` under `hazards`; those no property covers say why.

## 2. Modules

| Module | What it is |
|---|---|
| `WorkerRegistry` | `workers`, `agents` and `inbox_listeners`, and the handlers that change them. A specification of its own (`RegistrySpec`) and the actions `JobQueue` builds on. |
| `JobQueue` | Sessions, jobs, inbox tasks, and every handler that changes them, composed with the registry (it EXTENDS it: the handlers share tables). |
| `JobLifecycle` | What the queue promises about one job; `JobQueue` implements it (`ImplementsLifecycle`). |
| `TurnTaking` | What it promises about a session that takes turns, a chat or a sentinel loop; `JobQueue` implements it (`ImplementsTurnTaking`): its status, its active job, and its completed and failed jobs are the session's phase, turn, answered and lost turns. |
| `WorkerProcess` | The worker processes at work on the queue (it EXTENDS `JobQueue` and ties each of its worker actions to the process that makes the call): start-up, heartbeat task, pull loop, lost and late calls, crashes and restarts. |
| `ChatHistory` | What the queue's jobs store of a conversation and what an agent is shown of it: every step is a step of `JobQueue` that also writes these columns. |
| `LogStore` | The log rows of one session: ingest of concurrent batches, deletion, retention, restart of the server. A specification of its own (`StoreSpec`). |
| `LogStream` | A client that follows that log (it EXTENDS `LogStore`): console, `logs tail`, `logs tail --last N`, `attach --logs`, over the paged listing and the broadcast channel. |
| `Credentials` | One identity's git token: callback, PATCH, refresh before use, auth status. |
| `TaskExecution` | Runs of tasks from the work directory to the report, over git: clones, branches, the agent, commits, pushes to a shared repository. |
| `Listings`, `ApiKeys` | A reader of the four keyset listings over a table that changes; API keys, whose rows are those of one of the listings (`ApiKeys` EXTENDS `Listings`). |
| `MC...` | Instances for TLC. |
| `...Proofs` | The theorems: `JobQueueProofs` (the registry, and single jobs of `JobQueue`), `SessionProofs` (its sessions, loops and inbox tasks), `ChatProofs` (`ChatHistory`), `WorkerProcessProofs`, `LogProofs`, `CredentialsProofs`, `ExecutionProofs`, `ListingProofs` (`Listings` and `ApiKeys`). |

### How handlers become actions

A transaction at READ COMMITTED becomes **one action, at its commit**, unless it acts
on something it read without locking it. These handlers do:

* `pull_task`. Its cutoff is taken first, and its three sweep statements judge jobs and
  workers, without locking the workers, before the rest and the commit: `PullSweep` locks
  the rows that are past their lease or whose worker is stale and remembers which jobs and
  workers those are; heartbeats, registrations, claims, completions and deletions go on;
  `PullCommit` then writes the sweep (`Swept`) as it was judged, looks the worker up, and
  gives it its job, a promoted task, a queued job or none. `PullAbort` rolls back. A worker
  that is heard from in between has lost its job all the same, which is what
  `FreshWorkerKeepsJob` says, and the pull of a worker deleted in between ends with a 404.

* `complete_task`. The check of the job (`CompleteCheck`) is a plain SELECT, so any
  handler may run before the UPDATE that follows it. For a `loop_n` session the count
  of the other active jobs is a plain SELECT too, after the UPDATE and before the
  commit: `CompleteCount` takes the row lock (`rowLock`) and remembers whether it saw
  any, `CompleteLoopN` commits. The other workflows decide everything after the UPDATE
  from rows that cannot change under the row lock, or (`CompleteIteration`) from jobs
  of a session in which only this job is active (`OneJobAtATime`), so check and commit
  are two actions: `CompleteFailed`, `CompleteTurn`, `CompleteIteration`. A request
  can fail at any point (`CompleteAbort`: no row to update, an error, a deadlock that
  PostgreSQL breaks, a crash of the server), and its locks go with it.
* `delete_worker`. The UPDATEs of the worker's jobs lock those rows (`RemoveStart`);
  the DELETE and the commit come later (`RemoveCommit`), and a job assigned to the
  worker in between is not among the locked ones.
* The listener claim. `ClaimCheck` reads the present holder FOR UPDATE, which locks
  the row if there is one (`listenerLock`), and `ClaimCommit` upserts.
* `post_worker_task_logs`. `IngestRead` takes `MAX(line_seq)`, `IngestInsert` draws the
  ids and meets the unique index, in committed rows (`Clash`: the batch fails) and in
  open transactions (`Waits`), `IngestCommit` commits, and `IngestEmit` hands one entry
  after the other to the channel.
* The token refresh and the PATCH of an identity: read, provider call, write
  (`UseReads`, `Refresh`, `StoreRefreshed`, `Answer`; `PatchReads`, `PatchWrites`), and
  the OAuth callback (`CallbackExchanges`, `CallbackStores`).
* Bootstrap and the other requests about API keys: the count or the check of the
  caller's key, then the statement (`BootstrapCounts`, `Admit`; `BootstrapInserts`,
  `CreateKey`, `RevokeKey`). An INSERT is two steps everywhere in `Listings`, because a
  row has the time of its transaction's start and is seen from its commit on.

An UPDATE that meets a row locked by another transaction waits: the guards
`rowLock[j] = NoTx` and `rowLock[j] \in {NoTx, r}`. A plain SELECT sees the committed
row.

### State and code

| Model | Code |
|---|---|
| `registered`, `fresh` | rows of `workers`; those with `last_seen_at` at or after the cutoff. Time is the action `GoStale`, possible at any moment. |
| `listener`, `agents` | `inbox_listeners`, `agents` |
| `claiming`, `current`, `listenerLock` | a listener claim between its SELECT and its upsert |
| `sessions` | `sessions.status`, plus `absent` and `deleted` |
| `jobs[j]` | `status`, `session_id`, `worker_id`, `reclaim_count` |
| `expired` (queue) | jobs with `assigned_at` older than `job_lease_seconds` (time: `LeaseRunsOut`) |
| `inbox[t]` | `inbox_tasks`: status, agent, job |
| `requests[r]` | a `complete_task` that has passed its check: the job, the worker it names (or none), the outcome |
| `pulls[p]` | a `pull_task` past its sweep: the worker it is for, the jobs it found past their lease (`over`), the workers it found stale (`stale`) |
| `removing`, `rowLock` | deletions in progress; which open transaction has locked a job's row |
| `attempts` | history: how often a job was handed out (no column; used only in properties and in the refinement) |
| `at[w]`, `doing[w]` | where `run` and `pull_loop` of the process with id `w` are: `off` (ended, or not started), `claim`, `claimed`, `heartbeat` (start-up), `pull`, `await` (a pull is sent), `run`, `answer`; its `current_job`, or the pull it awaits |
| `late` | pulls and completions the process has given up (time-out of its HTTP client) and the server may still act on |
| `inputs[j]`, `replied` | `jobs.task_input`: the two lists of a follow-up; jobs with an `assistant_reply` that is not blank |
| `stored`, `ingest[b]`, `nextId` | rows of `logs`; a request of a worker: its stage, the numbers it read (`base`) and drew (`first`), the entries it has emitted (`sent`); the sequence of `logs.id` |
| `keeping`, `cutoff` | `retain_forever` of the session and its jobs; the purge's cutoff |
| `kind`, `filter`, `phase`, `cursor`, `loaded`, `shown` | the client: which one, its `job_id` filter, where it is, the last page's last key, the pages so far, the screen |
| `queue` | the receiver of the broadcast channel, at most `ChannelCap` entries behind |
| `due` | history: the lines the client has been promised (those stored when a load of the history began, those committed while its stream was open, less those its channel dropped) |
| `row` | `git_token`, `refresh_token`, `token_expires_at`, `git_provider` of the identity |
| `handlers[h]` | what a use, a PATCH or a callback has read and received |
| `issued`, `live`, `due`, `expired` (credentials) | the providers: how many tokens they issued, the refresh tokens they accept; tokens within five minutes of their expiry, and past it |
| `remote`, `dirs`, `run[r]`, `report[r]` | the branches of the repository; the work directories (clone, HEAD, uncommitted changes); the locals of `execute_task`; what the server was told |
| `made`, `odd` | history: the agent's changes; what befell a run that its worker does not notice (`shared`, `strayed`, `unread`, `refused`, `answer lost`) |
| `rows`, `now`, `walk` | the listed table with the times of its transactions; the database's clock; a reader: cursor, rows seen, the milliseconds in which its pages ended |
| `envKeys`, `callers`, `since`, `first` | keys in the environment; requests past their check; history: the keys that came since it, those of bootstrap |

### Abstractions

* Ids of sessions, jobs and inbox tasks are naturals in the order in which the code
  sorts them (`created_at`, `queue_ordinal`, `id`), so `ORDER BY .. LIMIT 1` is a minimum
  or a maximum. Rows are inserted in that order. (`Listings`, where the times of rows
  matter, has them.)
* In `JobQueue` texts, parameters, outputs, git references and tokens are left out. Of
  `params` the model keeps `n`, the agent id, and the limits from the settings. A
  completion is `success`, `sentinel` or `failed`; `sentinel` stands for a reply that
  contains the sentinel.
* A completion may come from any API caller and may leave out `worker_id`
  (`by = NoWorker`), as the handler permits.
* The three statements of a pull's sweep judge at one moment. What follows them (the
  worker's row, its present job, the promotion, the claim, the session's status) is one step
  at the commit. Of two pulls that run at once, the one that commits second therefore sees
  what the first promoted or claimed, where the code skips the row that is locked
  (`SKIP LOCKED`) and takes the next one or none; no property depends on which. Two pulls
  *with the same worker id* that both find no job held are not covered, nor are two
  promotions for one agent at once.
* A worker found stale by a sweep is admitted again by a heartbeat; that it goes stale a
  second time during the same pull counts against it, although the cutoff is older. A pull
  that fails in the token refresh has already committed (`PullUnanswered`).
* At most one deletion of a given worker runs at a time.
* In `WorkerProcess` there is one process per worker id, and only worker processes call
  `complete_task`. A process that is started again has the same id, which comes from
  `WORKER_ID` or the host name. The execution of a job is the time between `PullAnswered`
  and `Report`: its steps are those of `TaskExecution`. A heartbeat in flight when its
  process ends counts as arrived by then. The version check of `register` is left out.
  `Lossy` says whether calls can fail on the network; `Reliable` is the set of workers
  that do not crash, end every execution and are not deleted.
* `ChatHistory` names the message and the reply of a turn by its job. Whether a reply is
  blank is left open.
* A log line is `<<batch, k>>`; its columns follow from its batch. Levels and texts are
  left out. A job of the session is `assigned` or not; what makes it so is `JobQueue`'s
  business. One session is enough: no statement but the purge, and the channel, which
  other sessions' entries crowd (`CrowdedOut`), reaches across sessions.
* A page of a log is read in one step, a stream delivers in order. A request that fails
  without having done anything is `LoadFails`, `OpenFails` or `StreamDrops`.
* In `Credentials` an access token and the refresh token issued with it are one value.
  `git_base_url` follows `git_provider`; the agent token is a PATCH that keeps both git
  columns. A request that found its token good for five minutes is answered within them.
* In `TaskExecution` a commit is the set of the changes in its history, so a fast-forward
  is set inclusion. An agent edits, commits or creates a branch, in any number of steps,
  and ends well or badly; with the second agent run, for the branch name, it is the same
  process. Others push to the default branch only.
* In the listings one step of the reader is one statement. A row leaves in one step.

### Bounds

The queue's modules have none beyond the sizes of their sets: `Jobs` bounds how many
jobs are ever created (an action that needs a new id is disabled without one), `Requests`
how many completions are in progress at once, `Pulls` how many pulls. `MaxLate` of
`WorkerProcess` bounds how many calls are given up and still unanswered at once, the pulls
that nobody awaits any more (`LeftBehind`) among them, `MaxCutoff` of `LogStore` how far
the retention cutoff moves, `MaxTokens` of `Credentials` how many tokens the providers
issue, `MaxChanges` of `TaskExecution` how many changes an agent makes, `MaxTime` of
`Listings` the database's clock. The proofs hold for every value of them.

## 3. Runs

| Run | Instance | What it shows |
|---|---|---|
| `loop_n` | 2 workers, one `loop_n` session with N = 2, 2 completions and a pull at once, `max_job_reclaims` 1, leases on | outcomes are final; retries are bounded; a worker that is heard from loses its job only to a sweep that had found it stale; a completed session is idle and stays completed; the queue implements `JobLifecycle` |
| `turns` | 1 worker, a chat and a sentinel loop (2 iterations allowed), 4 job ids, 2 completions and a pull at once, a reclaim fails the job, leases off, `CHAT_HISTORY_MAX_TURNS` 1 | two sessions that share the queue take turns as `TurnTaking` says: one at a time, and none once they are completed or failed; iterations do not exceed the cap, `pending` means that nothing was handed out; each turn is handed the conversation as it stands, cut as the console says |
| `inbox` | 2 workers, an inbox session, a chat and a sentinel loop, 2 jobs, 2 tasks, one pull and one completion at once | tasks and jobs correspond one to one; a takeover replaces the holder it judged; no listener row of a deleted worker |
| `workers` | 2 unreliable workers that both listen for one agent, an inbox session, one task, two pulls at once, one given-up call | no more processes execute a job at once than it was handed out for |
| `workers_live` | a reliable worker and one that crashes, hangs and is deleted; none with an inbox; a chat with one job; two pulls at once, lost calls, leases on | every job ends (`JobsEnd`), and the reliable worker gets to work after each end of its process (`WorkerComesBack`) |
| `logs` | a batch of two lines with one timestamp and one of another job from a clock that is behind; pages of one row; a channel of one entry; all four clients, with and without a filter | rows are numbered once, only committed lines are shown, what was promised is shown, a console catches up (`CatchesUp`) |
| `execution` | 2 runs, of one job or of two, on one host, 2 changes each, https and file remotes, both modes, branch and tag | a success carries the work, a failure leaves nothing, a push only adds |
| `credentials` | 2 requests at once; two providers whose tokens expire, one of which rotates its refresh tokens; 5 kinds of PATCH; 3 issued tokens | what is served, how what the user is told comes to be wrong, how a label or a refresh token is lost |
| `api_keys` | 3 rows, 4 instants in 2 milliseconds, pages of 1 and 2, the four listings, 2 requests about keys | what a reader can miss and see twice, that it gets to the end; bootstrap only adds a first key |
| `orphaned_job`, `skewed_count`, `stale_restart` | | one disagreement each, below |

Why these bounds are enough for the cases that matter: two workers are needed to move
a job from one to another; two completion requests for a duplicate, a late or a crossing
completion; one pull past its sweep is enough for every other handler to run between what it
judged and its commit, and where processes are modelled there is one for each worker; one
reclaim distinguishes "put back" from "failed at the cap"; two jobs make a
sibling and the last two of a loop; four job ids let a chat of three turns run beside the
loop, so that a cap of one cuts the messages and the replies by different lengths. Two
batches collide in their numbers, and since their sizes differ their ranges can meet in
part; a page of one row ends after every row, so that every commit,
deletion and purge falls between two pages; a channel of one entry lags at the second.
Two requests are all that one identity's overlaps need, and a third token makes a row that
has been replaced twice. In two milliseconds of two instants, three rows fill one of them
beyond a page.

What a run does not reach: in `turns` a job is lost by the reclaim cap only, not by its
lease as well, which does the same to the row (`loop_n` and `workers_live` have leases, and
the theorems hold with them); `CompletedMeansDone` and `CompletedIsFinal` are checked in
`loop_n` only, since no other workflow completes a session while siblings are active;
`inbox` has one inbox session, so which one the latest is is not put to the test, and puts no promoted job back
into the queue (`workers` does); `turns` has no inbox session, whose jobs
`ChatHistory` also covers. `JobsEnd` runs with one job. The registry has no run of its
own: `JobQueue` contains its actions, `inbox` checks its properties there, and
`QueueUsesTheRegistry` proves that nothing else moves its variables.

The runs of `JobQueue` and `ChatHistory` are over small sets of interchangeable workers
and requests, those of `TaskExecution` of runs and jobs, `Credentials` of handlers,
`ApiKeys` of callers, and declare them symmetric: no definition or property tells one from
another, and none of these runs has a liveness property. The runs of the worker processes
and of the logs declare nothing symmetric.

Deadlock is checked where the system never stops: in the queue a pull is always
possible once its locks are released, and a transaction in progress can always commit or
abort; a process can always be started, a PATCH always be sent. `logs`, `execution` and
`api_keys` turn the check off, because their instances do stop: every batch sent and every
client ended, every run over, every row used and the reader done.

### Fairness

The server takes no step unprompted, except that a transaction once begun ends, if only
by an error (`TransactionsEnd`). All else depends on the workers. `LiveSpec` of
`WorkerProcess` assumes:

* The heartbeat task and the pull loop of a live process of a *reliable* worker repeat
  their calls whatever the answers are (`KeepsServing`), and they get through again and
  again: pulls are not given up or rolled back for ever (`PullMade`). The heartbeat task gets
  weak fairness; `PullSent` gets strong fairness, because a locked row disables it for a
  while. That a pull comes, and is committed, often enough while the worker is fresh is the
  meaning of the intervals: heartbeats every 30 s, pulls at most 30 s apart (the back-off's
  limit), stale after 120 s.
* A process of a *reliable* worker that has ended is started again, which is what
  `restart: unless-stopped` in the compose files does (`KeepsStarting`); the calls of its
  start-up get through at some attempt; it ends the execution of each job.
* Leases run out when they are enabled: time passes.

Nothing is assumed about the response to a pull (`PullUnanswered` may always happen
instead of `PullAnswered`), about clients, or about whether other workers restart, pull or end
what they execute. The liveness run leaves `MaxLate` at 0: a late call matters to its own
worker's job, another worker to a job that has to move.

`LiveSpec` of `LogStream` assumes only that the console's own steps happen: the next page
is asked for, and the back-off's timer rings. Whether a stream opens, delivers or drops,
and whether batches are sent, is left to chance; `CatchesUp` says what it needs of them in
its premise.

## 4. Where the code and the documents disagree

Three are runs that TLC ends with a counterexample.

* `AssignedToSomeone` (`orphaned_job`). `docs/ARCHITECTURE.md:164` says that deleting a
  worker returns its jobs to the queue. A pull that commits between the two statements
  of the deletion assigns a job that the foreign key then leaves `assigned` with no
  worker; the stale sweep matches a `worker_id` and never finds it. Only the lease, when
  it is enabled, ends such a job.
* `ExhaustedLoopIsCompleted` (`skewed_count`). The two last completions of a `loop_n`
  session each see the other job as active; both set `running`, and nothing sets
  `completed` any more. The session's test asserts `completed` after the last of its jobs
  (`tests/sessions_integration.rs:863`), which it completes one after the other.
* `InboxWorkerComesBack` (`stale_restart`). `docs/ARCHITECTURE.md:193` says that a restarted
  worker re-registers and picks up reclaimed jobs. `register` answers 409 for a known id and
  leaves `last_seen_at` alone; `run` then claims the listener before its first heartbeat, and
  the claim of a stale worker is refused (`workers.rs:643`), even of one that holds the
  listener. An inbox worker that has been away for longer than the threshold exits at every
  start. `WorkerComesBack` is therefore about workers without an inbox.

Others were met while modelling and have no run of their own. About the queue and the
workers:

* A completion checks `worker_id` in a SELECT that the UPDATE does not repeat, so a worker
  whose job was reclaimed in between ends it under the next worker
  (`docs/API_OVERVIEW.md`: the id validates "the task is assigned to this worker").
* A failed job sets a `loop_n` session to `failed`, and a sibling that completes later
  overwrites this (`docs/PRODUCT.md`: "exactly N times").
* A job failed by its lease or at the reclaim cap leaves its session as it was, so a
  sentinel loop can stay `running` without a job.
* A running process whose worker is deleted logs the 404s and never registers again
  (`docs/HOSTING.md`: "the worker's existing 404 -> re-register logic").
* A pull hands a worker the job that is already assigned to its id and counts nothing
  (`docs/ARCHITECTURE.md:127`: counting reclaims bounds retries): a process that a job
  crashes, and that is restarted before it is stale, gets the same job again, without end
  unless `job_lease_seconds` is set (default 0: off).
* Two first claims of one agent's listener both succeed; the upsert of the second
  displaces the first although it is not stale (`docs/API_OVERVIEW.md:460`).
* The messages of failed turns are missing from later histories
  (`docs/API_OVERVIEW.md:571`), replies to inbox tasks are never stored
  (`task_execution.rs:480-492`; `docs/API_OVERVIEW.md:573`), and a blank reply lets the
  pairing of messages and replies slip by one. `RepliesFollowMessages` therefore asks for
  a reply to each completed turn.
* `GET /health/idle` answers idle when its query fails, and does not look at pending
  inbox tasks.

About execution:

* On a detached HEAD `current_branch_name` returns `HEAD` for https clones, where its
  comment (`git_ops.rs:489`) says None, and the push of `refs/heads/HEAD` fails.
  Over https a branch other than the default one does not resolve.
* A job in mode `pr` that runs again and gets the same slug fails to push although its
  earlier run pushed: the new history is no fast-forward of the old.
* `branch` and `commit_ref` are set when the push succeeded (`docs/API_OVERVIEW.md:618`).
  A job whose agent committed its work itself leaves a clean tree; the worker skips the push
  and reports the commit of its clone. A status that cannot be read, whatever the error
  (`unwrap_or(true)`, `task_execution.rs:498`), counts as a clean tree too, also over
  uncommitted changes (`StatusUnread`). And a push that the server refuses is reported as
  one that succeeded: no callback asks for the status of the update (`git_ops.rs:107`).
  `SuccessCarriesTheWork` names these cases.
* `truncate_chars` (`agent_cli/runner.rs`) cuts the output at a byte offset, which panics
  inside a character and ends the process in the middle of its job; for `WorkerProcess`
  that is a crash like another.

About logs and listings:

* A handler that is dropped while it waits for the commit's answer leaves rows stored and
  never emitted (`logs.rs:724-734`). The console loads the history *before* it reopens its
  stream (`docs/CLIENT_EXPERIENCE.md:70`), so lines committed in between wait for the next
  refill. `logs tail` can print a line twice. `logMerge.ts` compares ids as strings.
* Listings that are newest first skip the other rows of the millisecond in which a page
  ended; the inbox listing, oldest first, repeats them, and never moves on from a
  millisecond that holds a page or more.

About credentials:

* A refresh that overlaps a callback or a PATCH stores its tokens under the new
  `git_provider`. A PATCH of the agent token alone writes back the refresh token it read,
  which may be spent by then (`docs/API_OVERVIEW.md:266`).
* An expired token with a refresh token beside it is shown as `expired_refreshable`, which
  "will be auto-refreshed on the next task pull" (`docs/API_OVERVIEW.md:223`,
  `identities.rs:173`). Whether the refresh token still works is not known to the server: if
  it was spent by a refresh whose answer was lost, or brought back by a PATCH, the provider
  refuses it. `PromiseBrokenByOverlap` says how a row comes to this.
* `POST /api-keys/bootstrap` answers 403 when any key exists (`docs/API_OVERVIEW.md:292`,
  `keys.rs:29`). Two requests that overlap both count none and both create one;
  `BootstrapOnlyFirst` says that only such an overlap does.

## 5. Proofs

The theorems hold for all sets of workers, agents, sessions, jobs, tasks, requests,
batches, runs and handlers (infinite ones too, where the module's assumptions do not ask
for finite ones), all assignments of workflows and all limits, under the named assumptions
on the constants: null values are not ids, ids are naturals where they are compared, there
is at least one session, job id and agent, transaction slots of the three kinds are distinct,
sizes, limits and the cutoff of retention are naturals, providers that rotate their refresh tokens issue some.

| Theorem | Says |
|---|---|
| `RegistryTypeCorrect`, `TypeCorrect` | every variable keeps its type |
| `DeletedWorkersListenToNothing` | `RegistrySpec => []ListenersRegistered` |
| `ClaimsReplaceWhatTheyJudged` | `RegistrySpec => ReplacesWhatItJudged` |
| `QueueUsesTheRegistry` | `Spec => RegistrySpec` |
| `OutcomesAreFinal` | `Spec => OutcomeIsFinal` |
| `RetriesAreBounded` | `Spec => []RetriesBounded` |
| `ImplementsJobLifecycle` | `Spec => ImplementsLifecycle` |
| `SessionsTakeTurns` | `Spec => ImplementsTurnTaking` |
| `TurnsDoNotOverlap` | `Spec => []OneJobAtATime`, which no run checks: `ImplementsTurnTaking` says more |
| `CompletedSessionsAreDone`, `CompletedSessionsStay` | `Spec => []CompletedMeansDone`, `Spec => CompletedIsFinal` |
| `PendingSessionsAreUntouched` | `Spec => []PendingMeansUntouched` |
| `LoopsAreBounded` | `Spec => []IterationsBounded` |
| `TasksArePromotedOnce` | `Spec => []PromotedOnce` |
| `HeardWorkersKeepJobs` | `Spec => FreshWorkerKeepsJob` |
| `ChatUsesTheQueue`, `ConversationTypeCorrect`, `TurnsKnowTheConversation`, `WarningsAreTrue`, `RepliesComeAfterMessages` | of `ChatHistory`, `ChatSpec => Spec`, and `ChatSpec => []P` for `ChatTypeOK`, `KnowsTheConversation`, `WarnsWhenCut`, `RepliesFollowMessages` |
| `ChatsTakeTurns`, `ProcessesKeepThePromises` | the queue's own promises (`ImplementsTurnTaking`, `ImplementsLifecycle`, `OutcomeIsFinal` and bounds) for `ChatSpec` and `ProcessSpec` |
| `ProcessTypeCorrect`, `ProcessesUseTheQueue`, `RunnersAreBounded` | `ProcessSpec => []ProcessTypeOK`, `=> Spec`, `=> []RunnersBounded` |
| `RowsAreNumberedOnce`, `StreamUsesTheStore`, `StreamTypeCorrect`, `OnlyCommittedIsShown`, `PromisesAreKept` | `StoreSpec => []NumberedOnce`; of `LogStream`, `Spec => StoreSpec`, and `Spec => []P` for `TypeOK`, `OnlyCommittedShown`, `NothingDueIsLost` |
| `ExpiryFollowsToken`, `NoExpiredTokenServed`, `PromisesBrokenByOverlap`, `LabelsLostByOverlap`, `TokensLostByOverlap` | `TypeOK`, `ServedIsAlive`, `PromiseBrokenByOverlap`, `MislabelledByOverlap`, `LostOnlyByOverlap` of `Credentials` |
| `ListingsTypeCorrect`, `ReadersMissOnlyAtCuts`, `ReadersSeeTwiceOnlyAtCuts`, `ReadersGetOn`, `BootstrapAddsTheFirst` | `TypeOK`, `NothingMissed`, `NothingTwice`, `CursorMovesOn`, `BootstrapOnlyFirst` of `ApiKeys` |
| `ClonesHaveHistory`, `SuccessMeansPushed`, `FailureMeansNotPushed`, `PushesOnlyAdd` | `TypeOK`, `SuccessCarriesTheWork`, `FailedLeavesNothing`, `NothingOverwritten` of `TaskExecution` |

*Registry.* `ReplacesWhatItJudged` speaks of one step of a claim that read the row
earlier. The invariant that connects the two is `JudgedHolderLocked`: while a claim that
read a holder is in progress it owns the lock of that row, and the row still names that
holder. It is inductive with the type invariant; a commit or a deletion of another worker
cannot touch a locked row, and a second claim cannot pass its check.

*Jobs.* The properties of single jobs rest on two invariants and one lemma.
`LockInv` says that a locked row is assigned, that a row locked by a deletion belongs to
the deleted worker, that a row locked by a pull was found past its lease or with a worker
that the pull found stale (`LockedBySweep`), and that a `loop_n` completion past its count
owns its row's lock. Without it the commit of a pull, of a deletion or of a counted
completion could hit a row that has ended in the meantime. `RowStep` lists what one step of the system may make of one job:
`NextStep` proves, action by action (`ClientStep`, `SweepStep`, `PullsStep`, `CompleteStep`,
`RemoveStep`), that every step makes one of these moves on every job and preserves
`LockInv`. `OutcomesAreFinal` reads off that list. `RetriesBounded` is not inductive by
itself: a job may be handed out again only because a job in the queue has been handed
out at most as often as it was reclaimed, and one not inserted yet never; `RetryInv` adds
this. The refinement then matches each move of `RowStep` with a step of `JobLifecycle`,
where `RetryInv` supplies the guards on the number of tries.

*Sessions.* `SessionProofs` does the same one level up: `Kind` lists what one step may
make of the sessions (create, post, delete, promote, claim, finish a job, iterate, or
none), and every action is shown to be of one kind. `SessionInv` is the invariant: jobs
have a session that exists (`Homes`), chats and sentinel loops have one active job
(`Single`), a completed session has none (`Done`), the jobs of a pending one were never
handed out (`Untouched`), and (`Counted`) a `loop_n` completion that saw no other active
job is right about it until it commits. `Counted` is what `CompletedMeansDone` needs, and
it holds for two reasons: no `loop_n` job is ever added, and an ended job does not come
back; the row lock keeps the completing job itself in place. The invariant does not say
that a completion which *saw* another job is right, and the run `skewed_count` shows that
it need not be. `LoopInv` bounds the jobs of a sentinel loop: the code counts the
*completed* ones (`DoneWith`), so the bound on all of them needs that every other job of a
loop with an active one is completed (`OthersCompleted`); a loop with a failed job never
has an active one again. `InboxInv` is the correspondence of promoted tasks and jobs in
both directions, with the agent. `FreshWorkerKeepsJob` needs no invariant of its own
beyond `LockInv`: a step other than a pull's leaves the job of a registered worker with it or
ends it, a deletion's commit because the worker is then not registered, and a pull's commit
changes only rows that it locked, for one of the two reasons `LockedBySweep` remembers.

*Turns.* `SessionsTakeTurns` is the refinement of `TurnTaking`. `Single` makes the set of a
session's active jobs a turn; `TurnInv` adds that a session with an active job is pending
or running, and running if a worker has the job. Without it a failed or completed session
could, in the abstract specification, end a turn it does not have. `TurnsSurvive` covers
every handler that does not concern the session, and those that lose its job
(`PullTurns`, `RemoveTurns`): the session stays, starts or gives up its turn.
`ClientTurns` and `CompleteTurns` match the others action by action. That a loop has
rounds left is `DoneWith`, counted before the completion, on both sides.

*Conversations.* `ChatInv` says of a turn under way that what it stored is what a follow-up
would store now, or that it is the first. It is kept because no other job of its chat is
active while it is, nor was in the step that inserted it (`OnlyTurn`, from `Single` and the
kinds of steps), so none completes; and because rows are deleted with their session only.

*Lists of turns.* `InOrder` and the community modules' `FlattenSeq` are a CHOOSE and a
recursive function, of which nothing is known before something that satisfies them is
shown to exist. For `InOrder` (`SortedExists`) it is the map from an element to its rank: an
injection of a finite set of naturals into `1 .. n` of the same size, so that its inverse
sorts the set. For `FlattenSeq` (`JoinsExist`, `FlattenJoins`) there is a function that joins
the first `k` lists, by induction on `k`; the induction is made on the set of such `k`, since
the library's rule cannot be used (`AllNumbers`, from the well-foundedness of `<`).
`IdsInv` says that the rows there are, deleted ones included, are finitely many and came in
the order of their ids, which is what `created_at` stands for; with it `ConversationInv`
types every list. `FirstInv` says that a chat has at most one turn that is not a follow-up,
and that it comes before all others. So the messages (of follow-ups) are a suffix of the
replies (of all completed turns, if none lacks one), shorter by at most one (`PlacesOfBoth`).
`Aligned` states that of two lists, `CutsKeepAligned` that cutting both at the same cap
keeps it, and `TranscriptOrder` that the transcript of two aligned lists has each reply after
its message, along the iterations of the loop that writes it (`Written`, `NextWritten`).

*Processes.* `ProcessesUseTheQueue` shows, action by action, that whatever a process or
the network does is a step of `JobQueue` or a stutter, so every theorem about `Spec` holds
of the processes too (`ProcessesKeepThePromises` states the main ones). `RunnersBounded` is not inductive: a completion may be refused, a job
reclaimed and handed to a process that never learns of it. The invariant `ProcessInv`
counts the workers *involved* in a job instead, those that execute it and the one it is
assigned to: there are at most as many as the job was handed out, because `RowStep` changes
a job's worker only together with `attempts`. `RetriesBounded` then bounds these by one
more than the reclaims.

*Logs.* The types of `LogStream` need `SentInv`: a batch has sent fewer events than it has rows
until it is done, and none before it is committed, so that every event is of a row. `NumberedOnce` speaks of committed rows, and a commit adds rows that were checked
against the index earlier. `LogInv` adds what the index guarantees in between: the numbers
of an open transaction clash with no committed row and overlap no other open transaction.
That it holds at the insert is the check itself; that it stays is that a transaction whose
numbers meet it waits, or fails. `SeenInv` follows a line from its commit through pages and
channel to the screen; a batch that drew its ids and has ended was committed. `PromiseInv` follows the promised lines: they are
committed ones, which keep their ids and never come back once deleted; while the history is
loaded they are in the pages so far or after the cursor, and once the stream is open on the
screen, in the channel, or still to be emitted. What a page leaves out comes after all of it
(`PageIsOldest`), because the rows before an older row are a subset of those before a newer
one and the page counts them.

*Credentials.* `SoundRow` says that a row's expiry is that of its token whoever wrote it
last; `SoundHandler` says what a request holds at each of its steps. The conjunct that
carries `ServedIsAlive` is the last one: at the answer, a rightly labelled token that can
expire is good, because it was either found so or has just been refreshed. For
`LostOnlyByOverlap` it is the one about `refreshed`: the refresh token that was read no
longer works if the provider rotates, and nothing is lost by replacing it.
`PromiseBrokenByOverlap` rests on `StoringInv`: while a refresh or a sign-in has an answer
that it has yet to store, the refresh token it will leave in the row (the one it got, or the
one it read where the provider does not rotate) works, and what it got is in no row and in no
other request's hands, so that nobody spends it before. Storing it over the row that was read
therefore keeps the promise.

*Execution.* `ExecInv` keeps histories rooted in the first commit. `Alone` is what the
absence of `shared` means: nobody else works in the run's directory. `CarryInv` follows the
work of a run with nothing odd through every step: in the directory's uncommitted changes
while the agent runs, on the branch `name` after the commit, in what is sent, in the
repository. `FailInv` is the opposite claim, that the work of a run not yet over is in its
own directory only (`Kept`); it is over once pushed (`Out`), after which a report of
failure takes a lost answer.

*Listings.* `Halfway` says where the rows are while a listing is read: the cursor is the
millisecond of a page's last row (a cut); every row seen is on this side of it or in its
millisecond; a row that was there throughout and is not seen yet lies ahead or, newest
first, in the millisecond of a cut. A page moves the cursor to its last row, whose
existence the proof derives from the well-foundedness of strict inclusion on finite sets.
`ReadersGetOn` needs one more lemma: a page that is full, of a table where no millisecond
holds a page, ends in a later millisecond than it began. `KeyInv` says that the keys there
are when a bootstrap inserts, not having been there when it counted, came in between.

Only model-checked: liveness (`JobsEnd`, `WorkerComesBack`, `CatchesUp`), which the prover
does not deal with. Every other property of a passing run is a theorem.

## 6. Plan

Done: the registry, the queue and its lifecycle; the processes; execution; logs and their
readers; credentials; keys and listings; the conversation; the theorems above.

Left, in this order:

1. Two processes with one worker id, and two promotions for one agent: `PullCommit` split
   once more, between the look-up of the worker's job and the claim. The invariants of the
   queue have to be proved again for it.
2. The stream of session events, and the console's view of sessions: the order of events
   of concurrent commits. Its use is small as long as every event only triggers a reload.

## 7. Not modelled

Routing, parsing and validation of requests, rendering, the OAuth redirects, the
listing of repositories, the argument lists of the agent CLIs, redaction, the URLs and
titles of merge requests: they keep no state that the coordination depends on. The
scripts, compose files and migrations are deployment. `fetch_origin` and the worker's
URL helpers are not on the path of a task. The database, the runtime, libgit2 and the
providers are taken to behave as documented; where the models say what they do
(`FastForward`, `Takes`, `Accepts`), that is how the code in `src` uses them.
