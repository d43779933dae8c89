------------------------------ MODULE LogStream ------------------------------
(***************************************************************************)
(* A client that watches the log of a session while it is written: first   *)
(* the history, page by page, then the live stream, and again the history  *)
(* when the stream breaks.  Four clients read the same endpoints:          *)
(*   console  web/src/hooks/useSessionLogsStream.ts, which reconnects      *)
(*   tail     remote-harness logs tail                                     *)
(*   last     remote-harness logs tail --last N                            *)
(*   attach   remote-harness attach --logs, which reads no history         *)
(*                                                                         *)
(* The stream is a receiver of the server's broadcast channel (sse.rs,     *)
(* sse_hub.rs): it holds what was emitted since it subscribed, and when    *)
(* it lags by more than the channel's capacity the oldest entries are      *)
(* gone; stream_session_logs passes over that without a word.              *)
(***************************************************************************)
EXTENDS LogStore, Sequences

CONSTANTS
    AllJobs,        \* no job_id filter
    Kinds,          \* the clients of this instance
    Filters,        \* the job_id filters they use, AllJobs or a job
    PageSize,       \* limit of a history page
    LastN,          \* --last N
    ChannelCap      \* CHANNEL_CAP of the broadcast channel

ASSUME StreamAssumption ==
    /\ AllJobs \notin LogJobs
    /\ Filters \subseteq LogJobs \cup {AllJobs}
    /\ Kinds \subseteq {"console", "tail", "last", "attach"}
    /\ PageSize \in Nat \ {0} /\ LastN \in Nat \ {0} /\ ChannelCap \in Nat \ {0}

VARIABLES
    kind,       \* which client
    filter,     \* its job_id filter
    phase,      \* where it is
    cursor,     \* history: the key of the last row of the last page
    loaded,     \* history: the rows of the pages so far
    shown,      \* the lines on the screen
    queue,      \* entries the stream holds for it
    due         \* history: the lines it has been promised

viewVars == <<kind, filter, phase, cursor, loaded, shown, queue, due>>
vars == <<storeVars, viewVars>>

Phases == {"idle", "loading", "refilling", "ready", "streaming", "waiting", "stopped"}
BeforeAll == <<-1, -1>>

TypeOK ==
    /\ StoreTypeOK
    /\ kind \in Kinds
    /\ filter \in Filters
    /\ phase \in Phases
    /\ cursor \in Int \X Int
    /\ loaded \subseteq Lines
    /\ shown \subseteq Lines
    /\ queue \in Seq(Lines) /\ Len(queue) <= ChannelCap
    /\ due \subseteq Lines

Init ==
    /\ StoreInit
    /\ kind \in Kinds
    /\ filter \in Filters
    /\ phase = "idle"
    /\ cursor = BeforeAll
    /\ loaded = {} /\ shown = {} /\ due = {}
    /\ queue = <<>>

-----------------------------------------------------------------------------
(* GET /sessions/:id/logs                                                  *)

Wanted(l) == filter \in {AllJobs, LineJob(l)}

\* The listing's order: (occurred_at, id).
Key(l) == <<Stamp[l[1]], IdOf(l)>>
Less(x, y) == x[1] < y[1] \/ (x[1] = y[1] /\ x[2] < y[2])

\* The rows a page is cut from: those after the cursor.
MutantRest == {l \in stored : Wanted(l) /\ Key(l)[1] > cursor[1]}
Rest == {l \in stored : Wanted(l) /\ Less(cursor, Key(l))}

Oldest(rows, n) == {l \in rows : Cardinality({m \in rows : Less(Key(m), Key(l))}) < n}
Newest(rows, n) == {l \in rows : Cardinality({m \in rows : Less(Key(l), Key(m))}) < n}

-----------------------------------------------------------------------------
(* The client.                                                             *)

ViewStarts ==
    /\ phase = "idle"
    /\ phase' = IF kind = "attach" THEN "ready" ELSE "loading"
    /\ due' = IF kind \in {"console", "tail"} THEN stored ELSE {}
    /\ UNCHANGED <<kind, filter, cursor, loaded, shown, queue>>

\* A page with more behind it.
NextPage ==
    /\ phase \in {"loading", "refilling"}
    /\ kind # "last"
    /\ Cardinality(Rest) > PageSize
    /\ loaded' = loaded \cup Oldest(Rest, PageSize)
    /\ \E l \in Oldest(Rest, PageSize) :
        /\ \A m \in Oldest(Rest, PageSize) : ~Less(Key(l), Key(m))
        /\ cursor' = Key(l)
    /\ UNCHANGED <<kind, filter, phase, shown, queue, due>>

\* The last page: the console replaces the screen by a first load, merges a
\* refill into it (setLogs, mergeAndSortLogs).
HistoryEnds(page) ==
    /\ shown' = loaded \cup page \cup (IF phase = "refilling" THEN shown ELSE {})
    /\ phase' = "ready"
    /\ loaded' = {}
    /\ cursor' = BeforeAll
    /\ UNCHANGED <<kind, filter, queue, due>>

LastPage ==
    /\ phase \in {"loading", "refilling"}
    /\ kind # "last"
    /\ Cardinality(Rest) <= PageSize
    /\ HistoryEnds(Rest)

TailPage ==
    /\ phase = "loading"
    /\ kind = "last"
    /\ HistoryEnds(Newest({l \in stored : Wanted(l)}, LastN))

\* A request for a page fails.  The first load is given up with the view; a
\* failed refill is passed over and the stream opened without it.
LoadFails ==
    /\ phase \in {"loading", "refilling"}
    /\ phase' = IF phase = "loading" THEN "stopped" ELSE "ready"
    /\ loaded' = {} /\ due' = {}
    /\ cursor' = BeforeAll
    /\ UNCHANGED <<kind, filter, shown, queue>>

\* GET /sessions/:id/logs/stream: subscribe_logs.
StreamOpens ==
    /\ phase = "ready"
    /\ phase' = "streaming"
    /\ UNCHANGED <<kind, filter, cursor, loaded, shown, queue, due>>

\* Without a stream: the console backs off, the others end.
Disconnected ==
    /\ phase' = IF kind = "console" THEN "waiting" ELSE "stopped"
    /\ queue' = <<>>
    /\ due' = {}
    /\ UNCHANGED <<kind, filter, cursor, loaded, shown>>

OpenFails ==
    /\ phase = "ready"
    /\ Disconnected

StreamDrops ==
    /\ phase = "streaming"
    /\ Disconnected

\* After the backoff the console loads the history again, then reopens.
MutantAfterBackoff == "ready"
AfterBackoff == "refilling"

BackoffEnds ==
    /\ phase = "waiting"
    /\ phase' = AfterBackoff
    /\ due' = stored
    /\ UNCHANGED <<kind, filter, cursor, loaded, shown, queue>>

\* refreshKey: the user deleted logs, the console starts over.
Refresh ==
    /\ kind = "console"
    /\ phase \notin {"idle", "loading"}
    /\ phase' = "loading"
    /\ cursor' = BeforeAll
    /\ loaded' = {}
    /\ queue' = <<>>
    /\ due' = stored
    /\ UNCHANGED <<kind, filter, shown>>

\* One entry reaches the client; the filter is applied on the way.
Deliver ==
    /\ phase = "streaming"
    /\ queue # <<>>
    /\ shown' = shown \cup {l \in {Head(queue)} : Wanted(l)}
    /\ queue' = Tail(queue)
    /\ UNCHANGED <<kind, filter, phase, cursor, loaded, due>>

-----------------------------------------------------------------------------
(* The store's steps that the stream takes part in.                        *)

\* The promise of a stream: what is committed while it is open will come.
CommitSeen(b) ==
    /\ IngestCommit(b, FALSE)
    /\ due' = IF phase = "streaming" THEN due \cup LinesOf(b) ELSE due
    /\ UNCHANGED <<kind, filter, phase, cursor, loaded, shown, queue>>

\* send() overwrites the oldest entry a lagging receiver has not read; it is
\* lost to the stream.
MutantBroadcast(l) == queue' = Append(queue, l) /\ due' = due
Broadcast(l) ==
    IF Len(queue) < ChannelCap
    THEN queue' = Append(queue, l) /\ due' = due
    ELSE queue' = Append(Tail(queue), l) /\ due' = due \ {Head(queue)}

\* The channel is one for all sessions: the others' entries overwrite too.
CrowdedOut ==
    /\ phase = "streaming"
    /\ queue # <<>>
    /\ queue' = Tail(queue)
    /\ due' = due \ {Head(queue)}
    /\ UNCHANGED <<kind, filter, phase, cursor, loaded, shown>>

Emit(b) ==
    /\ IngestEmit(b)
    /\ IF phase = "streaming" THEN Broadcast(NextLine(b)) ELSE UNCHANGED <<queue, due>>
    /\ UNCHANGED <<kind, filter, phase, cursor, loaded, shown>>

Restart ==
    /\ ServerRestart
    /\ IF phase = "streaming" THEN Disconnected
       ELSE UNCHANGED viewVars

ViewNext ==
    \/ ViewStarts \/ NextPage \/ LastPage \/ TailPage \/ LoadFails
    \/ StreamOpens \/ OpenFails \/ StreamDrops \/ BackoffEnds \/ Refresh
    \/ Deliver \/ CrowdedOut

Next ==
    \/ Quiet /\ UNCHANGED viewVars
    \/ \E b \in Batches : \/ IngestCommit(b, TRUE) /\ UNCHANGED viewVars
                          \/ CommitSeen(b)
                          \/ Emit(b)
    \/ Restart
    \/ ViewNext /\ UNCHANGED storeVars

Spec == Init /\ [][Next]_vars

\* The client's own steps happen; nothing is asked of the workers, the users
\* or the network.
LiveSpec ==
    /\ Spec
    /\ WF_vars((NextPage \/ LastPage) /\ UNCHANGED storeVars)
    /\ WF_vars(BackoffEnds /\ UNCHANGED storeVars)

-----------------------------------------------------------------------------
\* Nothing is on the screen or on its way that was not committed: emit_log
\* follows the commit, and a batch that is rolled back is never shown.
WasCommitted(b) == (At(b, "committed") \/ At(b, "done")) /\ ingest[b].first > 0
OnlyCommittedShown ==
    \A l \in shown \cup {queue[i] : i \in 1 .. Len(queue)} : WasCommitted(l[1])

\* The lines of batches that are committed but not emitted yet.
ToCome == {l \in Lines : At(l[1], "committed") /\ l[2] > ingest[l[1]].sent}

\* What a client was promised it gets: every wanted line that was stored when
\* its load of the history began, or that was committed while its stream was
\* open, is on the screen or on its way, however pages, commits, deletions
\* and purges interleave.  (The lines committed in between are the ones it
\* can miss; so are those a lagging stream or a cut handler drops.)
NothingDueIsLost ==
    phase \in {"ready", "streaming"} =>
        \A l \in due \cap stored :
            Wanted(l) => \/ l \in shown
                         \/ phase = "streaming" /\ (\E i \in 1 .. Len(queue) : queue[i] = l)
                         \/ phase = "streaming" /\ l \in ToCome

\* A console that has to reconnect again and again misses no line for ever:
\* whatever its stream dropped, a next refill brings, once refills succeed.
CatchesUp ==
    ([]<>(phase = "waiting") /\ <>[][~LoadFails]_vars) =>
        \A l \in Lines : (l \in stored /\ Wanted(l)) ~> (l \in shown \/ l \notin stored)
===============================================================================
