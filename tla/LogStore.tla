------------------------------- MODULE LogStore -------------------------------
(***************************************************************************)
(* The log lines of one session: how a worker's batches enter table logs,  *)
(* how rows are deleted and purged (crates/server/src/logs.rs), and when   *)
(* they are handed to the broadcast channel (sse_hub.rs).                  *)
(*                                                                         *)
(* post_worker_task_logs takes no lock: it reads MAX(line_seq) in one      *)
(* statement and inserts with the numbers after it in later ones, so it is *)
(* several actions here, and the unique index on (session_id, line_seq) is *)
(* what keeps two batches apart.  A worker sends each batch once and       *)
(* ignores the answer.                                                     *)
(*                                                                         *)
(* A line is <<b, k>>, the k-th of batch b.  Its columns follow from its   *)
(* batch: job_id and occurred_at from the request, line_seq and id from    *)
(* the numbers the handler drew for the batch.                             *)
(*                                                                         *)
(* An operator named Mutant.. is a wrong variant of the one after it.  It  *)
(* is used nowhere: put in its place, it makes a property fail.            *)
(***************************************************************************)
EXTENDS Integers, FiniteSets

CONSTANTS
    LogJobs,        \* the session's jobs
    Ending,         \* those that end or are requeued while their log is written
    TheSession,     \* the session itself, among the things that can be kept
    Keepable,       \* those users PATCH (the others never have retain_forever)
    Batches,        \* the batches workers send to POST /workers/tasks/:id/logs
    JobOf,          \* batch -> its job
    Size,           \* batch -> number of lines
    Stamp,          \* batch -> the timestamp its worker gave the lines
    MaxCutoff       \* bound: the last timestamp the retention cutoff reaches

ASSUME BatchAssumption ==
    /\ JobOf \in [Batches -> LogJobs]
    /\ Size \in [Batches -> Nat \ {0}]
    /\ Stamp \in [Batches -> Nat]
ASSUME JobAssumption == Ending \subseteq LogJobs
ASSUME KeepAssumption == Keepable \subseteq LogJobs \cup {TheSession}
ASSUME CutoffAssumption == MaxCutoff \in Nat

VARIABLES
    assigned,       \* the jobs whose status is assigned
    stored,         \* the lines that are committed rows of table logs
    ingest,         \* batch -> progress and numbers of its request
    nextId,         \* the sequence behind logs.id
    keeping,        \* what has retain_forever set
    cutoff          \* rows stamped before it are past their retention

storeVars == <<assigned, stored, ingest, nextId, keeping, cutoff>>

LinesOf(b) == {b} \X (1 .. Size[b])
Lines == UNION {LinesOf(b) : b \in Batches}

\* Columns line_seq, id and job_id of a line.
SeqOf(l) == ingest[l[1]].base + l[2]
IdOf(l) == ingest[l[1]].first + l[2] - 1
LineJob(l) == JobOf[l[1]]

Stages == {"unsent", "numbered", "inserted", "committed", "done"}
Ingest == [at : Stages, base : Nat, first : Nat, sent : Nat]

StoreTypeOK ==
    /\ assigned \subseteq LogJobs
    /\ stored \subseteq Lines
    /\ ingest \in [Batches -> Ingest]
    /\ nextId \in Nat \ {0}
    /\ keeping \subseteq Keepable
    /\ cutoff \in 0 .. MaxCutoff

StoreInit ==
    /\ assigned = LogJobs
    /\ stored = {}
    /\ ingest = [b \in Batches |-> [at |-> "unsent", base |-> 0, first |-> 0, sent |-> 0]]
    /\ nextId = 1
    /\ keeping = {}
    /\ cutoff = 0

-----------------------------------------------------------------------------
(* POST /workers/tasks/:id/logs                                            *)

At(b, stage) == ingest[b].at = stage

\* The request ends with its transaction rolled back, or has nothing left to
\* do; the worker ignores the answer and does not send the batch again.
GivenUp(b) == [ingest EXCEPT ![b] = [at |-> "done", base |-> 0, first |-> 0, sent |-> 0]]

\* 404: the job is not assigned (any more).
IngestRefused(b) ==
    /\ At(b, "unsent")
    /\ JobOf[b] \notin assigned
    /\ ingest' = GivenUp(b)
    /\ UNCHANGED <<assigned, stored, nextId, keeping, cutoff>>

\* The job is assigned, to whomever; MAX(line_seq) of the committed rows.
IngestRead(b) ==
    /\ At(b, "unsent")
    /\ JobOf[b] \in assigned
    /\ \E m \in {0} \cup {SeqOf(l) : l \in stored} :
        /\ \A l \in stored : SeqOf(l) <= m
        /\ ingest' = [ingest EXCEPT ![b].at = "numbered", ![b].base = m]
    /\ UNCHANGED <<assigned, stored, nextId, keeping, cutoff>>

\* The numbers that batches a and b ask for have one in common.
Overlap(a, b) == \E i \in 1 .. Size[a], j \in 1 .. Size[b] :
                    ingest[a].base + i = ingest[b].base + j

\* The unique index finds one of b's numbers in a committed row ..
MutantClash(b) == FALSE
Clash(b) == \E l \in stored, k \in 1 .. Size[b] : SeqOf(l) = ingest[b].base + k

\* .. or in a row of a transaction that is still open: the INSERT waits.
Waits(b) == \E a \in Batches \ {b} : At(a, "inserted") /\ Overlap(a, b)

IngestInsert(b) ==
    /\ At(b, "numbered")
    /\ ~Clash(b)
    /\ ~Waits(b)
    /\ ingest' = [ingest EXCEPT ![b].at = "inserted", ![b].first = nextId]
    /\ nextId' = nextId + Size[b]
    /\ UNCHANGED <<assigned, stored, keeping, cutoff>>

\* 500: duplicate key, or any failure before the commit; the caller gone
\* counts as one, since its connection's end drops the handler.
IngestFails(b) ==
    /\ At(b, "numbered") \/ At(b, "inserted")
    /\ ingest' = GivenUp(b)
    /\ UNCHANGED <<assigned, stored, nextId, keeping, cutoff>>

\* The commit.  When the handler is dropped while it waits for the commit's
\* answer, the rows are stored and their entries are never emitted (cut).
IngestCommit(b, cut) ==
    /\ At(b, "inserted")
    /\ stored' = stored \cup LinesOf(b)
    /\ ingest' = [ingest EXCEPT ![b].at = IF cut THEN "done" ELSE "committed"]
    /\ UNCHANGED <<assigned, nextId, keeping, cutoff>>

\* emit_log, one entry after the other, after the commit.
MutantMayEmit(b) == At(b, "inserted") \/ At(b, "committed")
MayEmit(b) == At(b, "committed")

NextLine(b) == <<b, ingest[b].sent + 1>>

IngestEmit(b) ==
    /\ MayEmit(b)
    /\ ingest' = [ingest EXCEPT ![b].sent = @ + 1,
                                ![b].at = IF ingest[b].sent + 1 = Size[b] THEN "done" ELSE ingest[b].at]
    /\ UNCHANGED <<assigned, stored, nextId, keeping, cutoff>>

-----------------------------------------------------------------------------
(* The rest of the table's life.                                           *)

\* The job ends or is requeued; a requeued one is assigned again by a pull.
JobEnds(j) ==
    /\ j \in assigned
    /\ assigned' = assigned \ {j}
    /\ UNCHANGED <<stored, ingest, nextId, keeping, cutoff>>

JobAssigned(j) ==
    /\ j \notin assigned
    /\ assigned' = assigned \cup {j}
    /\ UNCHANGED <<stored, ingest, nextId, keeping, cutoff>>

\* DELETE /sessions/:id/logs, of the session or (?job_id) of one job.
DeleteLogs(jobs) ==
    /\ stored' = {l \in stored : LineJob(l) \notin jobs}
    /\ UNCHANGED <<assigned, ingest, nextId, keeping, cutoff>>

\* PATCH of retain_forever on the session or on a job.
Retain(x) ==
    /\ keeping' = IF x \in keeping THEN keeping \ {x} ELSE keeping \cup {x}
    /\ UNCHANGED <<assigned, stored, ingest, nextId, cutoff>>

TimePasses ==
    /\ cutoff < MaxCutoff
    /\ cutoff' = cutoff + 1
    /\ UNCHANGED <<assigned, stored, ingest, nextId, keeping>>

\* The scheduled purge: one DELETE over what is old and not kept.
Purgeable(l) ==
    /\ Stamp[l[1]] < cutoff
    /\ TheSession \notin keeping
    /\ LineJob(l) \notin keeping

Purge ==
    /\ stored' = {l \in stored : ~Purgeable(l)}
    /\ UNCHANGED <<assigned, ingest, nextId, keeping, cutoff>>

\* The server process ends and starts again: open transactions are rolled
\* back, entries not yet emitted never will be.
Halted(b) ==
    CASE At(b, "committed") -> [ingest[b] EXCEPT !.at = "done"]
      [] At(b, "numbered") \/ At(b, "inserted") -> GivenUp(b)[b]
      [] OTHER -> ingest[b]

ServerRestart ==
    /\ ingest' = [b \in Batches |-> Halted(b)]
    /\ UNCHANGED <<assigned, stored, nextId, keeping, cutoff>>

\* The steps nobody who reads the log notices at once.
Quiet ==
    \/ \E b \in Batches : \/ IngestRefused(b) \/ IngestRead(b)
                          \/ IngestInsert(b) \/ IngestFails(b)
    \/ \E j \in Ending : JobEnds(j) \/ JobAssigned(j)
    \/ \E j \in LogJobs : DeleteLogs({j})
    \/ DeleteLogs(LogJobs)
    \/ \E x \in Keepable : Retain(x)
    \/ TimePasses
    \/ Purge

StoreNext ==
    \/ Quiet
    \/ \E b \in Batches : IngestCommit(b, TRUE) \/ IngestCommit(b, FALSE) \/ IngestEmit(b)
    \/ ServerRestart

StoreSpec == StoreInit /\ [][StoreNext]_storeVars

-----------------------------------------------------------------------------
\* No two rows of the session have the same line_seq, however many handlers
\* number their batches from the same MAX(line_seq), and whatever is deleted
\* in between (post_worker_task_logs, UNIQUE (session_id, line_seq)).
NumberedOnce == \A l, m \in stored : SeqOf(l) = SeqOf(m) => l = m
===============================================================================
