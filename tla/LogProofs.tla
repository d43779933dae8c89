------------------------------ MODULE LogProofs ------------------------------
(***************************************************************************)
(* Proofs about LogStore and LogStream.                                    *)
(***************************************************************************)
EXTENDS LogStream, FiniteSetTheorems, TLAPS

-----------------------------------------------------------------------------
(* Rows are numbered once.                                                 *)

\* A batch whose rows are stored is past its commit; the numbers of an open
\* transaction are its own: no row and no other open transaction has them.
LogInv ==
    /\ NumberedOnce
    /\ \A l \in stored : At(l[1], "committed") \/ At(l[1], "done")
    /\ \A b \in Batches : At(b, "inserted") => ~Clash(b)
    /\ \A a, b \in Batches : At(a, "inserted") /\ At(b, "inserted") /\ Overlap(a, b) => a = b

\* The type of the variables the argument looks at.
LogType ==
    /\ stored \subseteq Lines
    /\ ingest \in [Batches -> Ingest]

LEMMA LineFacts ==
    ASSUME BatchAssumption
    PROVE  /\ \A l \in Lines : l[1] \in Batches /\ l[2] \in 1 .. Size[l[1]] /\ l = <<l[1], l[2]>>
           /\ \A b \in Batches : Size[b] \in Nat \ {0} /\ LinesOf(b) \subseteq Lines
           /\ \A b \in Batches : \A l \in LinesOf(b) : l[1] = b /\ l[2] \in 1 .. Size[b]
BY DEF BatchAssumption, Lines, LinesOf

LEMMA LogInvInit == StoreInit => LogInv /\ LogType
BY DEF StoreInit, LogInv, LogType, NumberedOnce, At, Ingest, Stages

\* Steps that store nothing new and leave the batches as they are.
LEMMA RowsOnlyGo ==
    ASSUME LogInv, LogType, stored' \subseteq stored, UNCHANGED ingest
    PROVE  LogInv' /\ LogType'
BY DEF LogInv, LogType, NumberedOnce, SeqOf, At, Clash, Overlap

\* Steps of batches that have no row and none open, or stay past the commit.
LEMMA BatchesMoveOn ==
    ASSUME LogInv, LogType, BatchAssumption, UNCHANGED stored, ingest' \in [Batches -> Ingest],
           \A b \in Batches : \/ ingest'[b] = ingest[b]
                              \/ /\ At(b, "committed") \/ At(b, "done")
                                 /\ At(b, "committed")' \/ At(b, "done")'
                                 /\ ingest'[b].base = ingest[b].base
                              \/ /\ ~At(b, "committed") /\ ~At(b, "done")
                                 /\ ~At(b, "inserted")'
    PROVE  LogInv' /\ LogType'
<1>1. LogType'
  BY DEF LogType
<1>2. \A l \in stored : /\ l[1] \in Batches
                        /\ ingest'[l[1]].base = ingest[l[1]].base
                        /\ At(l[1], "committed")' \/ At(l[1], "done")'
  BY LineFacts DEF LogInv, LogType, At
<1>3. NumberedOnce'
  BY <1>2 DEF LogInv, NumberedOnce, SeqOf
<1>4. \A b \in Batches : At(b, "inserted")' => ingest'[b] = ingest[b]
  BY DEF At
<1>5. \A b \in Batches : At(b, "inserted")' => ~Clash(b)'
  BY <1>2, <1>4 DEF LogInv, Clash, SeqOf, At
<1>6. \A a, b \in Batches :
        At(a, "inserted")' /\ At(b, "inserted")' /\ Overlap(a, b)' => a = b
  BY <1>4 DEF LogInv, Overlap, At
<1> QED
  BY <1>1, <1>2, <1>3, <1>5, <1>6 DEF LogInv

\* The INSERT: the unique index has let it pass.
LEMMA InsertKeeps ==
    ASSUME LogInv, LogType, BatchAssumption, nextId \in Nat \ {0},
           NEW b \in Batches, IngestInsert(b)
    PROVE  LogInv' /\ LogType'
<1>1. ingest' \in [Batches -> Ingest] /\ stored' = stored
  BY DEF LogType, IngestInsert, Ingest, Stages
<1>2. \A a \in Batches : /\ ingest'[a].base = ingest[a].base
                         /\ a # b => ingest'[a] = ingest[a]
  BY DEF IngestInsert, LogType, Ingest
<1>3. \A l \in stored : l[1] \in Batches /\ l[1] # b
  BY LineFacts DEF LogInv, LogType, IngestInsert, At
<1>4. NumberedOnce'
  BY <1>1, <1>2, <1>3 DEF LogInv, NumberedOnce, SeqOf
<1>5. \A l \in stored' : At(l[1], "committed")' \/ At(l[1], "done")'
  BY <1>1, <1>2, <1>3 DEF LogInv, At
<1>6. \A a \in Batches : At(a, "inserted")' => ~Clash(a)'
  BY <1>1, <1>2, <1>3 DEF LogInv, IngestInsert, Clash, SeqOf, At
<1>7. \A a \in Batches : a # b /\ At(a, "inserted")' => ~Overlap(a, b)' /\ ~Overlap(b, a)'
  <2>1. \A a \in Batches : a # b /\ At(a, "inserted") => ~Overlap(a, b)
    BY DEF IngestInsert, Waits
  <2> QED
    BY <1>2, <2>1 DEF Overlap, At
<1>8. \A a, c \in Batches :
        At(a, "inserted")' /\ At(c, "inserted")' /\ Overlap(a, c)' => a = c
  BY <1>2, <1>7 DEF LogInv, Overlap, At
<1> QED
  BY <1>1, <1>4, <1>5, <1>6, <1>8 DEF LogInv, LogType

\* The commit turns open numbers into rows.
LEMMA CommitKeeps ==
    ASSUME LogInv, LogType, BatchAssumption, NEW b \in Batches, NEW cut \in BOOLEAN,
           IngestCommit(b, cut)
    PROVE  LogInv' /\ LogType'
<1>1. stored' = stored \cup LinesOf(b) /\ stored' \subseteq Lines
  BY LineFacts DEF IngestCommit, LogType
<1>2. ingest' \in [Batches -> Ingest]
  BY DEF LogType, IngestCommit, Ingest, Stages
<1>3. /\ \A a \in Batches : /\ ingest'[a].base = ingest[a].base
                            /\ a # b => ingest'[a] = ingest[a]
      /\ At(b, "committed")' \/ At(b, "done")'
      /\ ~At(b, "inserted")'
  BY DEF IngestCommit, LogType, Ingest, At
<1>4. \A l \in stored' : l[1] \in Batches /\ SeqOf(l)' = SeqOf(l)
  BY <1>1, <1>3, LineFacts DEF SeqOf
<1>5. \A l, m \in LinesOf(b) : SeqOf(l) = SeqOf(m) => l = m
  <2> SUFFICES ASSUME NEW l \in LinesOf(b), NEW m \in LinesOf(b), SeqOf(l) = SeqOf(m)
               PROVE  l = m
    OBVIOUS
  <2>1. ingest[b].base \in Nat
    BY DEF LogType, Ingest
  <2>2. l[1] = b /\ m[1] = b /\ l[2] \in 1 .. Size[b] /\ m[2] \in 1 .. Size[b]
    BY LineFacts
  <2>3. l[2] = m[2]
    BY <2>1, <2>2, LineFacts DEF SeqOf
  <2> QED
    BY <2>2, <2>3, LineFacts
<1>6. \A l \in stored, m \in LinesOf(b) : SeqOf(l) # SeqOf(m)
  BY LineFacts DEF LogInv, IngestCommit, Clash, SeqOf
<1>7. NumberedOnce'
  <2>1. \A l, m \in stored \cup LinesOf(b) : SeqOf(l) = SeqOf(m) => l = m
    BY <1>5, <1>6 DEF LogInv, NumberedOnce
  <2> QED
    BY <1>1, <1>4, <2>1 DEF NumberedOnce
<1>8. \A l \in stored' : At(l[1], "committed")' \/ At(l[1], "done")'
  BY <1>1, <1>3, LineFacts DEF LogInv, LogType, At
<1>9. \A a \in Batches : At(a, "inserted")' => ~Clash(a)'
  <2> SUFFICES ASSUME NEW a \in Batches, At(a, "inserted")'
               PROVE  \A l \in stored', k \in 1 .. Size[a] : SeqOf(l)' # ingest'[a].base + k
    BY DEF Clash
  <2>1. a # b /\ At(a, "inserted")
    BY <1>3 DEF At
  <2>2. \A l \in stored, k \in 1 .. Size[a] : SeqOf(l) # ingest[a].base + k
    BY <2>1 DEF LogInv, Clash
  <2>3. ~Overlap(b, a)
    BY <2>1 DEF LogInv, IngestCommit
  <2>4. \A l \in LinesOf(b), k \in 1 .. Size[a] : SeqOf(l) # ingest[a].base + k
    BY <2>3, LineFacts DEF Overlap, SeqOf
  <2> QED
    BY <1>1, <1>3, <1>4, <2>2, <2>4
<1>10. \A a, c \in Batches :
        At(a, "inserted")' /\ At(c, "inserted")' /\ Overlap(a, c)' => a = c
  BY <1>3 DEF LogInv, Overlap, At
<1> QED
  BY <1>1, <1>2, <1>7, <1>8, <1>9, <1>10 DEF LogInv, LogType

LEMMA LogStep ==
    ASSUME BatchAssumption, LogInv, LogType, nextId \in Nat \ {0}, [StoreNext]_storeVars
    PROVE  LogInv' /\ LogType' /\ (nextId \in Nat \ {0})'
<1> USE DEF LogType
<1>1. CASE UNCHANGED storeVars
  BY <1>1, RowsOnlyGo DEF storeVars
<1>2. ASSUME NEW b \in Batches, IngestRefused(b) \/ IngestRead(b) \/ IngestFails(b)
      PROVE  LogInv' /\ LogType' /\ (nextId \in Nat \ {0})'
  <2>1. UNCHANGED <<stored, nextId>>
    BY <1>2 DEF IngestRefused, IngestRead, IngestFails
  <2>2. ~At(b, "committed") /\ ~At(b, "done")
    BY <1>2 DEF IngestRefused, IngestRead, IngestFails, At
  <2>3. ingest' \in [Batches -> Ingest] /\ ~At(b, "inserted")'
        /\ \A a \in Batches : a # b => ingest'[a] = ingest[a]
    <3>1. CASE IngestRefused(b) \/ IngestFails(b)
      BY <3>1 DEF IngestRefused, IngestFails, GivenUp, Ingest, Stages, At
    <3>2. CASE IngestRead(b)
      <4>1. PICK m \in {0} \cup {SeqOf(l) : l \in stored} :
                ingest' = [ingest EXCEPT ![b].at = "numbered", ![b].base = m]
        BY <3>2 DEF IngestRead
      <4>2. m \in Nat
        BY LineFacts DEF SeqOf, Ingest
      <4> QED
        BY <4>1, <4>2 DEF Ingest, Stages, At
    <3> QED
      BY <1>2, <3>1, <3>2
  <2> QED
    BY <2>1, <2>2, <2>3, BatchesMoveOn
<1>3. ASSUME NEW b \in Batches, IngestInsert(b)
      PROVE  LogInv' /\ LogType' /\ (nextId \in Nat \ {0})'
  <2>1. (nextId \in Nat \ {0})'
    BY <1>3, LineFacts DEF IngestInsert
  <2> QED
    BY <1>3, <2>1, InsertKeeps
<1>4. ASSUME NEW b \in Batches, IngestCommit(b, TRUE) \/ IngestCommit(b, FALSE)
      PROVE  LogInv' /\ LogType' /\ (nextId \in Nat \ {0})'
  BY <1>4, CommitKeeps DEF IngestCommit
<1>5. ASSUME NEW b \in Batches, IngestEmit(b)
      PROVE  LogInv' /\ LogType' /\ (nextId \in Nat \ {0})'
  <2>1. /\ UNCHANGED <<stored, nextId>>
        /\ ingest' \in [Batches -> Ingest]
        /\ At(b, "committed")
        /\ At(b, "committed")' \/ At(b, "done")'
        /\ ingest'[b].base = ingest[b].base
        /\ \A a \in Batches : a # b => ingest'[a] = ingest[a]
    <3>1. UNCHANGED <<stored, nextId>> /\ At(b, "committed") /\ ingest[b] \in Ingest
      BY <1>5 DEF IngestEmit, MayEmit
    <3>2. ingest'[b].at \in {"committed", "done"} /\ ingest'[b].base = ingest[b].base
      BY <1>5, <3>1 DEF IngestEmit, At
    <3>3. ingest' \in [Batches -> Ingest]
      <4>1. ingest[b].sent + 1 \in Nat
        BY <3>1 DEF Ingest
      <4> QED
        BY <1>5, <3>1, <4>1 DEF IngestEmit, Ingest, Stages, At
    <3>4. \A a \in Batches : a # b => ingest'[a] = ingest[a]
      BY <1>5 DEF IngestEmit
    <3> QED
      BY <3>1, <3>2, <3>3, <3>4 DEF At
  <2> QED
    BY <2>1, BatchesMoveOn
<1>6. CASE ServerRestart
  <2>1. /\ UNCHANGED <<stored, nextId>>
        /\ ingest' \in [Batches -> Ingest]
        /\ \A b \in Batches : ingest'[b] = Halted(b)
    BY <1>6 DEF ServerRestart, Halted, GivenUp, Ingest, Stages, At
  <2>2. \A b \in Batches : \/ ingest'[b] = ingest[b]
                           \/ /\ At(b, "committed") /\ At(b, "done")'
                              /\ ingest'[b].base = ingest[b].base
                           \/ /\ ~At(b, "committed") /\ ~At(b, "done")
                              /\ ~At(b, "inserted")'
    BY <2>1 DEF Halted, GivenUp, Ingest, Stages, At
  <2> QED
    BY <2>1, <2>2, BatchesMoveOn
<1>7. CASE \/ \E j \in Ending : JobEnds(j) \/ JobAssigned(j)
           \/ \E x \in Keepable : Retain(x)
           \/ TimePasses
  BY <1>7, RowsOnlyGo DEF JobEnds, JobAssigned, Retain, TimePasses
<1>8. CASE Purge \/ DeleteLogs(LogJobs) \/ \E j \in LogJobs : DeleteLogs({j})
  <2>1. stored' \subseteq stored /\ UNCHANGED <<ingest, nextId>>
    BY <1>8 DEF Purge, DeleteLogs
  <2> QED
    BY <2>1, RowsOnlyGo
<1> QED
  BY <1>1, <1>2, <1>3, <1>4, <1>5, <1>6, <1>7, <1>8 DEF StoreNext, Quiet

\* However the handlers' reads and inserts interleave, whatever fails and
\* whatever is deleted meanwhile, no two rows share a line_seq.
THEOREM RowsAreNumberedOnce == StoreSpec => []NumberedOnce
<1> DEFINE Inv == LogInv /\ LogType /\ nextId \in Nat \ {0}
<1>1. StoreInit => Inv
  BY LogInvInit DEF StoreInit
<1>2. Inv /\ [StoreNext]_storeVars => Inv'
  BY LogStep, BatchAssumption
<1>3. Inv => NumberedOnce
  BY DEF LogInv
<1> QED
  BY <1>1, <1>2, <1>3, PTL DEF StoreSpec

-----------------------------------------------------------------------------
(* The stream beside the store.                                            *)

\* The store's part of every step is a step of the store.
LEMMA StreamStep == [Next]_vars => [StoreNext]_storeVars
BY DEF Next, vars, StoreNext, CommitSeen, Emit, Restart

\* Whoever watches, the table is written as LogStore says, so what is proved
\* of StoreSpec holds here.
THEOREM StreamUsesTheStore == Spec => StoreSpec
<1>1. Init => StoreInit
  BY DEF Init
<1> QED
  BY <1>1, StreamStep, PTL DEF Spec, StoreSpec

InQueue == {queue[i] : i \in 1 .. Len(queue)}

Entries == Batches \X Nat

LEMMA LinesAreEntries == ASSUME BatchAssumption PROVE Lines \subseteq Entries
BY LineFacts DEF Entries

\* What a client can have in its hands comes from committed batches.
SeenInv ==
    /\ queue \in Seq(Entries)
    /\ nextId \in Nat \ {0}
    /\ shown \cup loaded \subseteq Entries
    /\ \A b \in Batches : At(b, "inserted") \/ At(b, "committed") => ingest[b].first > 0
    /\ \A l \in stored \cup loaded \cup shown \cup InQueue : WasCommitted(l[1])

\* A committed batch remains one.
LEMMA CommittedForGood ==
    ASSUME BatchAssumption, LogType, SeenInv, [StoreNext]_storeVars
    PROVE  /\ nextId' \in Nat \ {0}
           /\ \A b \in Batches : WasCommitted(b) => WasCommitted(b)'
           /\ \A b \in Batches : At(b, "inserted")' \/ At(b, "committed")' => ingest'[b].first > 0
<1> USE DEF LogType, SeenInv, WasCommitted, At
<1>1. CASE UNCHANGED <<ingest, nextId>>
  BY <1>1
<1>2. ASSUME NEW b \in Batches, IngestRefused(b) \/ IngestRead(b) \/ IngestFails(b)
      PROVE  /\ nextId' = nextId
             /\ \A a \in Batches : a # b => ingest'[a] = ingest[a]
             /\ ~WasCommitted(b)
             /\ ingest'[b].at \in {"numbered", "done"}
  <2>1. CASE IngestRefused(b) \/ IngestFails(b)
    BY <2>1 DEF IngestRefused, IngestFails, GivenUp, Ingest
  <2>2. CASE IngestRead(b)
    BY <2>2 DEF IngestRead, Ingest
  <2> QED
    BY <1>2, <2>1, <2>2
<1>3. ASSUME NEW b \in Batches, IngestInsert(b)
      PROVE  /\ nextId' \in Nat \ {0}
             /\ \A a \in Batches : a # b => ingest'[a] = ingest[a]
             /\ ~WasCommitted(b)
             /\ ingest'[b].first > 0
  BY <1>3, LineFacts DEF IngestInsert, Ingest
<1>4. ASSUME NEW b \in Batches, NEW cut \in BOOLEAN, IngestCommit(b, cut) \/ IngestEmit(b)
      PROVE  /\ nextId' = nextId
             /\ \A a \in Batches : a # b => ingest'[a] = ingest[a]
             /\ ingest'[b].at \in {"committed", "done"}
             /\ ingest'[b].first > 0
  <2>1. CASE IngestCommit(b, cut)
    BY <1>4, <2>1 DEF IngestCommit, Ingest
  <2>2. CASE IngestEmit(b)
    BY <1>4, <2>2 DEF IngestEmit, MayEmit, Ingest
  <2> QED
    BY <1>4, <2>1, <2>2
<1>5. CASE ServerRestart
  BY <1>5 DEF ServerRestart, Halted, GivenUp, Ingest
<1>6. CASE \/ \E j \in Ending : JobEnds(j) \/ JobAssigned(j)
           \/ \E x \in Keepable : Retain(x)
           \/ TimePasses
           \/ Purge \/ DeleteLogs(LogJobs) \/ \E j \in LogJobs : DeleteLogs({j})
  BY <1>1, <1>6 DEF JobEnds, JobAssigned, Retain, TimePasses, Purge, DeleteLogs
<1>7. CASE \E b \in Batches : \/ IngestRefused(b) \/ IngestRead(b) \/ IngestFails(b)
                               \/ IngestInsert(b)
                               \/ IngestCommit(b, TRUE) \/ IngestCommit(b, FALSE) \/ IngestEmit(b)
  BY <1>2, <1>3, <1>4, <1>7
<1> QED
  BY <1>1, <1>5, <1>6, <1>7 DEF StoreNext, Quiet, storeVars

\* Steps of the client that take only what is stored, held or queued.
LEMMA Takes ==
    ASSUME BatchAssumption, LogType, SeenInv, UNCHANGED storeVars, queue' \in Seq(Entries),
           shown' \cup loaded' \cup InQueue' \subseteq stored \cup loaded \cup shown \cup InQueue
    PROVE  SeenInv'
<1>1. \A l \in InQueue : l \in Entries
  BY DEF InQueue, SeenInv
<1> QED
  BY <1>1, LinesAreEntries DEF SeenInv, LogType, storeVars, WasCommitted, At

LEMMA TailFacts ==
    ASSUME queue \in Seq(Entries), queue # <<>>
    PROVE  /\ Head(queue) \in Entries /\ Head(queue) \in InQueue
           /\ Tail(queue) \in Seq(Entries)
           /\ \A i \in 1 .. Len(Tail(queue)) : Tail(queue)[i] \in InQueue
BY DEF InQueue

LEMMA AppendFacts ==
    ASSUME NEW q \in Seq(Entries), NEW l \in Entries
    PROVE  /\ Append(q, l) \in Seq(Entries)
           /\ \A i \in 1 .. Len(Append(q, l)) :
                 Append(q, l)[i] = l \/ \E k \in 1 .. Len(q) : Append(q, l)[i] = q[k]
OBVIOUS

LEMMA ViewStep ==
    ASSUME BatchAssumption, LogType, SeenInv, ViewNext, UNCHANGED storeVars
    PROVE  SeenInv'
<1>1. CASE ViewStarts \/ StreamOpens \/ BackoffEnds
  <2>1. UNCHANGED <<shown, loaded, queue>>
    BY <1>1 DEF ViewStarts, StreamOpens, BackoffEnds
  <2> QED
    BY <2>1, Takes DEF InQueue, SeenInv
<1>2. CASE NextPage
  <2>1. UNCHANGED <<shown, queue>> /\ loaded' \subseteq loaded \cup stored
    BY <1>2 DEF NextPage, Oldest, Rest
  <2> QED
    BY <2>1, Takes DEF InQueue, SeenInv
<1>3. CASE LastPage \/ TailPage
  <2>1. UNCHANGED queue /\ loaded' = {} /\ shown' \subseteq shown \cup loaded \cup stored
    BY <1>3 DEF LastPage, TailPage, HistoryEnds, Rest, Newest
  <2> QED
    BY <2>1, Takes DEF InQueue, SeenInv
<1>4. CASE LoadFails
  <2>1. UNCHANGED <<queue, shown>> /\ loaded' = {}
    BY <1>4 DEF LoadFails
  <2> QED
    BY <2>1, Takes DEF InQueue, SeenInv
<1>5. CASE OpenFails \/ StreamDrops \/ Refresh
  <2>1. queue' = <<>> /\ UNCHANGED shown /\ loaded' \subseteq loaded
    BY <1>5 DEF OpenFails, StreamDrops, Refresh, Disconnected
  <2>2. InQueue' = {} /\ queue' \in Seq(Entries)
    BY <2>1 DEF InQueue
  <2> QED
    BY <2>1, <2>2, Takes
<1>6. CASE Deliver
  <2>1. /\ queue \in Seq(Entries) /\ queue # <<>> /\ queue' = Tail(queue)
        /\ shown' \subseteq shown \cup {Head(queue)} /\ loaded' = loaded
    BY <1>6 DEF Deliver, SeenInv
  <2>2. queue' \in Seq(Entries) /\ InQueue' \subseteq InQueue /\ Head(queue) \in InQueue
    BY <2>1, TailFacts DEF InQueue
  <2> QED
    BY <2>1, <2>2, Takes
<1>7. CASE CrowdedOut
  <2>1. /\ queue \in Seq(Entries) /\ queue # <<>> /\ queue' = Tail(queue)
        /\ shown' = shown /\ loaded' = loaded
    BY <1>7 DEF CrowdedOut, SeenInv
  <2>2. queue' \in Seq(Entries) /\ InQueue' \subseteq InQueue
    BY <2>1, TailFacts DEF InQueue
  <2> QED
    BY <2>1, <2>2, Takes
<1> QED
  BY <1>1, <1>2, <1>3, <1>4, <1>5, <1>6, <1>7 DEF ViewNext

LEMMA SeenStep ==
    ASSUME BatchAssumption, LogType, SeenInv, [Next]_vars
    PROVE  SeenInv'
<1>1. /\ nextId' \in Nat \ {0}
      /\ \A b \in Batches : WasCommitted(b) => WasCommitted(b)'
      /\ \A b \in Batches : At(b, "inserted")' \/ At(b, "committed")' => ingest'[b].first > 0
  BY StreamStep, CommittedForGood
<1>2. \A l \in stored \cup loaded \cup shown \cup InQueue : l[1] \in Batches
  BY LineFacts DEF SeenInv, LogType, InQueue, Entries
<1>3. \A l \in stored \cup loaded \cup shown \cup InQueue : WasCommitted(l[1])'
  BY <1>1, <1>2 DEF SeenInv
<1>4. CASE UNCHANGED viewVars /\ stored' \subseteq stored
  <2>1. UNCHANGED <<queue, shown, loaded>> /\ InQueue' = InQueue
    BY <1>4 DEF viewVars, InQueue
  <2> QED
    BY <1>1, <1>3, <1>4, <2>1 DEF SeenInv
<1>5. ASSUME NEW b \in Batches, NEW cut \in BOOLEAN, IngestCommit(b, cut),
             UNCHANGED <<queue, shown, loaded>>
      PROVE  SeenInv'
  <2>1. InQueue' = InQueue
    BY <1>5 DEF InQueue
  <2>2. WasCommitted(b)'
    BY <1>1, <1>5 DEF IngestCommit, WasCommitted, At, SeenInv, LogType, Ingest
  <2>3. \A l \in stored' : WasCommitted(l[1])'
    BY <1>3, <1>5, <2>2, LineFacts DEF IngestCommit
  <2> QED
    BY <1>1, <1>3, <1>5, <2>1, <2>3 DEF SeenInv
<1>6. ASSUME NEW b \in Batches, Emit(b)
      PROVE  SeenInv'
  <2>1. /\ UNCHANGED <<stored, shown, loaded>>
        /\ At(b, "committed") /\ WasCommitted(b)
    BY <1>6 DEF Emit, IngestEmit, MayEmit, WasCommitted, SeenInv
  <2>2. CASE phase # "streaming"
    <3>1. queue' = queue /\ InQueue' = InQueue
      BY <1>6, <2>2 DEF Emit, InQueue
    <3> QED
      BY <1>1, <1>3, <2>1, <3>1 DEF SeenInv
  <2>3. CASE phase = "streaming"
    <3> DEFINE l == NextLine(b)
    <3>1. l[1] = b
      BY DEF NextLine
    <3>2. PICK q \in Seq(Entries) : /\ queue' = Append(q, l)
                                 /\ \A i \in 1 .. Len(q) : q[i] \in InQueue
      <4>1. CASE Len(queue) < ChannelCap
        BY <1>6, <2>3, <4>1 DEF Emit, Broadcast, SeenInv, InQueue
      <4>2. CASE ~(Len(queue) < ChannelCap)
        <5>1. queue # <<>>
          BY <4>2, StreamAssumption DEF SeenInv
        <5> QED
          BY <1>6, <2>3, <4>2, <5>1, TailFacts DEF Emit, Broadcast, SeenInv
      <4> QED
        BY <4>1, <4>2
    <3>3. l \in Entries
      BY DEF NextLine, Entries, LogType, Ingest
    <3>4. queue' \in Seq(Entries) /\ InQueue' \subseteq InQueue \cup {l}
      <4> HIDE DEF l
      <4>1. queue' \in Seq(Entries)
        BY <3>2, <3>3, AppendFacts
      <4>2. \A i \in 1 .. Len(queue') : queue'[i] \in InQueue \cup {l}
        BY <3>2, <3>3, AppendFacts
      <4> QED
        BY <4>1, <4>2 DEF InQueue
    <3>5. \A m \in stored' \cup loaded' \cup shown' \cup InQueue' : WasCommitted(m[1])'
      BY <1>1, <1>3, <2>1, <3>1, <3>4
    <3> QED
      BY <1>1, <2>1, <3>4, <3>5 DEF SeenInv
  <2> QED
    BY <2>2, <2>3
<1>7. CASE Quiet /\ UNCHANGED viewVars
  <2>1. stored' \subseteq stored
    BY <1>7 DEF Quiet, IngestRefused, IngestRead, IngestInsert, IngestFails, JobEnds,
       JobAssigned, DeleteLogs, Retain, TimePasses, Purge
  <2> QED
    BY <1>4, <1>7, <2>1
<1>8. CASE Restart
  <2>1. CASE phase = "streaming"
    <3>1. queue' = <<>> /\ UNCHANGED <<shown, loaded, stored>>
      BY <1>8, <2>1 DEF Restart, Disconnected, ServerRestart
    <3>2. InQueue' = {} /\ queue' \in Seq(Entries)
      BY <3>1 DEF InQueue
    <3> QED
      BY <1>1, <1>3, <3>1, <3>2 DEF SeenInv
  <2>2. CASE phase # "streaming"
    BY <1>4, <1>8, <2>2 DEF Restart, ServerRestart
  <2> QED
    BY <2>1, <2>2
<1>9. CASE \E b \in Batches : (IngestCommit(b, TRUE) /\ UNCHANGED viewVars) \/ CommitSeen(b)
  BY <1>5, <1>9 DEF viewVars, CommitSeen
<1>10. CASE ViewNext /\ UNCHANGED storeVars
  BY <1>10, ViewStep
<1>11. CASE UNCHANGED vars
  BY <1>4, <1>11 DEF vars, storeVars
<1> QED
  BY <1>6, <1>7, <1>8, <1>9, <1>10, <1>11 DEF Next

\* Nobody is shown, or sent, a line that was not committed.
THEOREM OnlyCommittedIsShown == Spec => []OnlyCommittedShown
<1> DEFINE Inv == LogInv /\ LogType /\ SeenInv
<1>1. Init => Inv
  <2>1. Init => LogInv /\ LogType
    BY LogInvInit DEF Init
  <2>2. Init => SeenInv
    BY DEF Init, StoreInit, SeenInv, InQueue, At
  <2> QED
    BY <2>1, <2>2
<1>2. Inv /\ [Next]_vars => Inv'
  BY StreamStep, LogStep, SeenStep, BatchAssumption DEF SeenInv
<1>3. Inv => OnlyCommittedShown
  BY DEF SeenInv, OnlyCommittedShown, InQueue
<1> QED
  BY <1>1, <1>2, <1>3, PTL DEF Spec

-----------------------------------------------------------------------------
(* Types.                                                                  *)

\* Entries are emitted one by one: a batch that is still being emitted has a
\* next line.
SentInv ==
    \A b \in Batches : /\ At(b, "committed") => ingest[b].sent < Size[b]
                       /\ ~At(b, "committed") /\ ~At(b, "done") => ingest[b].sent = 0

LEMMA SentStep ==
    ASSUME BatchAssumption, LogType, SentInv, [StoreNext]_storeVars
    PROVE  SentInv'
<1> USE DEF LogType, SentInv, At
<1>1. CASE UNCHANGED ingest
  BY <1>1
<1>2. ASSUME NEW b \in Batches, IngestRefused(b) \/ IngestFails(b)
      PROVE  SentInv'
  BY <1>2 DEF IngestRefused, IngestFails, GivenUp, Ingest
<1>3. ASSUME NEW b \in Batches, IngestRead(b)
      PROVE  SentInv'
  BY <1>3 DEF IngestRead, Ingest
<1>4. ASSUME NEW b \in Batches, IngestInsert(b)
      PROVE  SentInv'
  BY <1>4 DEF IngestInsert, Ingest
<1>5. ASSUME NEW b \in Batches, NEW cut \in BOOLEAN, IngestCommit(b, cut)
      PROVE  SentInv'
  <2>1. ingest[b].sent = 0 /\ 0 < Size[b]
    BY <1>5, LineFacts DEF IngestCommit
  <2> QED
    BY <1>5, <2>1 DEF IngestCommit, Ingest
<1>6. ASSUME NEW b \in Batches, IngestEmit(b)
      PROVE  SentInv'
  <2>1. At(b, "committed") /\ ingest[b].sent \in Nat /\ ingest[b].sent < Size[b] /\ Size[b] \in Nat
    BY <1>6, LineFacts DEF IngestEmit, MayEmit, Ingest
  <2>2. /\ \A a \in Batches : a # b => ingest'[a] = ingest[a]
        /\ ingest'[b].sent = ingest[b].sent + 1
        /\ ingest'[b].at = IF ingest[b].sent + 1 = Size[b] THEN "done" ELSE "committed"
    BY <1>6, <2>1 DEF IngestEmit
  <2>3. ingest[b].sent + 1 # Size[b] => ingest[b].sent + 1 < Size[b]
    BY <2>1
  <2> QED
    BY <2>2, <2>3
<1>7. CASE ServerRestart
  BY <1>7 DEF ServerRestart, Halted, GivenUp, Ingest
<1>8. CASE \/ \E j \in Ending : JobEnds(j) \/ JobAssigned(j)
           \/ \E x \in Keepable : Retain(x)
           \/ TimePasses
           \/ Purge \/ DeleteLogs(LogJobs) \/ \E j \in LogJobs : DeleteLogs({j})
  BY <1>1, <1>8 DEF JobEnds, JobAssigned, Retain, TimePasses, Purge, DeleteLogs
<1> QED
  BY <1>1, <1>2, <1>3, <1>4, <1>5, <1>6, <1>7, <1>8 DEF StoreNext, Quiet, storeVars

LEMMA StoreTypeStep ==
    ASSUME BatchAssumption, JobAssumption, CutoffAssumption, LogInv, StoreTypeOK,
           [StoreNext]_storeVars
    PROVE  StoreTypeOK'
<1>1. LogType' /\ (nextId \in Nat \ {0})'
  BY LogStep DEF StoreTypeOK, LogType
<1>2. assigned' \subseteq LogJobs
  <2>1. \/ assigned' \subseteq assigned
        \/ \E j \in Ending : assigned' = assigned \cup {j}
    BY DEF StoreNext, Quiet, storeVars, IngestRefused, IngestRead, IngestInsert, IngestFails,
       IngestCommit, IngestEmit, JobEnds, JobAssigned, DeleteLogs, Retain, TimePasses, Purge,
       ServerRestart
  <2> QED
    BY <2>1, JobAssumption DEF StoreTypeOK
<1>3. keeping' \subseteq Keepable
  <2>1. keeping' \subseteq keeping \/ \E x \in Keepable : keeping' = keeping \cup {x}
    BY DEF StoreNext, Quiet, storeVars, IngestRefused, IngestRead, IngestInsert, IngestFails,
       IngestCommit, IngestEmit, JobEnds, JobAssigned, DeleteLogs, Retain, TimePasses, Purge,
       ServerRestart
  <2> QED
    BY <2>1 DEF StoreTypeOK
<1>4. cutoff' \in 0 .. MaxCutoff
  <2>1. cutoff' = cutoff \/ (cutoff < MaxCutoff /\ cutoff' = cutoff + 1)
    BY DEF StoreNext, Quiet, storeVars, IngestRefused, IngestRead, IngestInsert, IngestFails,
       IngestCommit, IngestEmit, JobEnds, JobAssigned, DeleteLogs, Retain, TimePasses, Purge,
       ServerRestart
  <2> QED
    BY <2>1, CutoffAssumption DEF StoreTypeOK
<1> QED
  BY <1>1, <1>2, <1>3, <1>4 DEF StoreTypeOK, LogType

ViewTypeOK ==
    /\ kind \in Kinds /\ filter \in Filters /\ phase \in Phases
    /\ cursor \in Int \X Int
    /\ loaded \subseteq Lines /\ shown \subseteq Lines /\ due \subseteq Lines
    /\ queue \in Seq(Lines) /\ Len(queue) <= ChannelCap

LEMMA KeyType ==
    ASSUME BatchAssumption, LogType, NEW l \in Lines
    PROVE  Key(l) \in Int \X Int
<1>1. l[1] \in Batches /\ l[2] \in Int
  BY LineFacts
<1>2. Stamp[l[1]] \in Int /\ IdOf(l) \in Int
  BY <1>1 DEF BatchAssumption, IdOf, LogType, Ingest
<1> QED
  BY <1>2 DEF Key

LEMMA QueueTail ==
    ASSUME NEW S, NEW q \in Seq(S), q # <<>>
    PROVE  Head(q) \in S /\ Tail(q) \in Seq(S) /\ Len(Tail(q)) = Len(q) - 1
OBVIOUS

LEMMA QueueBack ==
    ASSUME NEW S, NEW q \in Seq(S), NEW l \in S
    PROVE  Append(q, l) \in Seq(S) /\ Len(Append(q, l)) = Len(q) + 1
OBVIOUS

LEMMA ViewTypeStep ==
    ASSUME BatchAssumption, StreamAssumption, LogType, ViewTypeOK, ViewNext
    PROVE  ViewTypeOK'
<1> USE DEF ViewTypeOK, Phases, BeforeAll
<1>0. stored \subseteq Lines /\ BeforeAll \in Int \X Int
  BY DEF LogType
<1>1. CASE ViewStarts
  BY <1>0, <1>1 DEF ViewStarts
<1>2. CASE NextPage
  <2>1. Oldest(Rest, PageSize) \subseteq Lines
    BY <1>0 DEF Oldest, Rest
  <2>2. PICK l \in Oldest(Rest, PageSize) : cursor' = Key(l)
    BY <1>2 DEF NextPage
  <2>3. cursor' \in Int \X Int
    BY <2>1, <2>2, KeyType
  <2> QED
    BY <1>2, <2>1, <2>3 DEF NextPage
<1>3. CASE LastPage \/ TailPage
  <2>1. Rest \subseteq Lines /\ Newest({l \in stored : Wanted(l)}, LastN) \subseteq Lines
    BY <1>0 DEF Rest, Newest
  <2>2. PICK page \in SUBSET Lines : HistoryEnds(page)
    BY <1>3, <2>1 DEF LastPage, TailPage
  <2> QED
    BY <1>0, <2>2 DEF HistoryEnds
<1>4. CASE LoadFails
  BY <1>0, <1>4 DEF LoadFails
<1>5. CASE StreamOpens
  BY <1>5 DEF StreamOpens
<1>6. CASE OpenFails \/ StreamDrops
  <2>1. queue' = <<>>
    BY <1>6 DEF OpenFails, StreamDrops, Disconnected
  <2>2. queue' \in Seq(Lines) /\ Len(queue') <= ChannelCap
    BY <2>1, StreamAssumption
  <2> QED
    BY <1>6, <2>2 DEF OpenFails, StreamDrops, Disconnected
<1>7. CASE BackoffEnds
  BY <1>0, <1>7 DEF BackoffEnds, AfterBackoff
<1>8. CASE Refresh
  <2>1. queue' = <<>> /\ queue' \in Seq(Lines) /\ Len(queue') = 0 /\ ChannelCap \in Nat
    BY <1>8, StreamAssumption DEF Refresh
  <2> QED
    BY <1>0, <1>8, <2>1 DEF Refresh
<1>9. CASE Deliver \/ CrowdedOut
  <2>1. queue # <<>> /\ queue' = Tail(queue)
    BY <1>9 DEF Deliver, CrowdedOut
  <2>2. Head(queue) \in Lines /\ queue' \in Seq(Lines) /\ Len(queue') = Len(queue) - 1
    BY <2>1, QueueTail
  <2>3. Len(queue') <= ChannelCap
    BY <2>2, StreamAssumption
  <2>4. shown' \subseteq Lines /\ due' \subseteq Lines
    BY <1>9, <2>2 DEF Deliver, CrowdedOut
  <2> QED
    BY <1>9, <2>2, <2>3, <2>4 DEF Deliver, CrowdedOut
<1> QED
  BY <1>1, <1>2, <1>3, <1>4, <1>5, <1>6, <1>7, <1>8, <1>9 DEF ViewNext

LEMMA StreamTypeStep ==
    ASSUME BatchAssumption, StreamAssumption, LogType, SentInv, ViewTypeOK, [Next]_vars
    PROVE  ViewTypeOK'
<1>1. CASE UNCHANGED viewVars
  BY <1>1 DEF viewVars, ViewTypeOK
<1>2. CASE ViewNext
  BY <1>2, ViewTypeStep
<1>3. ASSUME NEW b \in Batches, CommitSeen(b)
      PROVE  ViewTypeOK'
  BY <1>3, LineFacts DEF CommitSeen, ViewTypeOK
<1>4. ASSUME NEW b \in Batches, Emit(b)
      PROVE  ViewTypeOK'
  <2>1. NextLine(b) \in Lines
    <3>1. At(b, "committed") /\ ingest[b].sent \in Nat /\ ingest[b].sent < Size[b] /\ Size[b] \in Nat
      BY <1>4, LineFacts DEF Emit, IngestEmit, MayEmit, SentInv, LogType, Ingest
    <3>2. ingest[b].sent + 1 \in 1 .. Size[b]
      BY <3>1
    <3> QED
      BY <3>2, LineFacts DEF NextLine, LinesOf
  <2>2. CASE phase # "streaming"
    BY <1>4, <2>2 DEF Emit, ViewTypeOK
  <2>3. CASE phase = "streaming"
    <3>1. PICK l \in Lines : l = NextLine(b) /\ Broadcast(l)
      BY <1>4, <2>1, <2>3 DEF Emit
    <3>2. queue' \in Seq(Lines) /\ Len(queue') <= ChannelCap /\ due' \subseteq due
      <4>1. CASE Len(queue) < ChannelCap
        <5>1. PICK q \in Seq(Lines) : q = queue
          BY DEF ViewTypeOK
        <5>2. queue' = Append(q, l) /\ due' = due /\ Len(q) < ChannelCap
          BY <3>1, <4>1, <5>1 DEF Broadcast
        <5>3. Append(q, l) \in Seq(Lines) /\ Len(Append(q, l)) = Len(q) + 1
          BY QueueBack
        <5> QED
          BY <5>2, <5>3, StreamAssumption
      <4>2. CASE ~(Len(queue) < ChannelCap)
        <5>1. Len(queue) = ChannelCap /\ queue # <<>> /\ ChannelCap \in Nat
          BY <4>2, StreamAssumption DEF ViewTypeOK
        <5>2. PICK q \in Seq(Lines) : q = Tail(queue) /\ Len(q) = ChannelCap - 1
          BY <5>1, QueueTail DEF ViewTypeOK
        <5>3. queue' = Append(q, l) /\ due' \subseteq due
          BY <3>1, <4>2, <5>2 DEF Broadcast
        <5> QED
          BY <5>1, <5>2, <5>3, QueueBack
      <4> QED
        BY <4>1, <4>2
    <3> QED
      BY <1>4, <3>2 DEF Emit, ViewTypeOK
  <2> QED
    BY <2>2, <2>3
<1>5. CASE Restart
  <2>1. CASE phase = "streaming"
    <3>1. queue' = <<>> /\ queue' \in Seq(Lines) /\ Len(queue') = 0 /\ ChannelCap \in Nat
      BY <1>5, <2>1, StreamAssumption DEF Restart, Disconnected
    <3> QED
      BY <1>5, <2>1, <3>1 DEF Restart, Disconnected, ViewTypeOK, Phases
  <2> QED
    BY <1>1, <1>5, <2>1 DEF Restart
<1> QED
  BY <1>1, <1>2, <1>3, <1>4, <1>5 DEF Next, vars

\* Every variable of the store and of the client keeps its type; above all,
\* what the handler emits is a line of its batch, the channel never holds more
\* than its capacity, and the cursor is the key of a row.
THEOREM StreamTypeCorrect == Spec => []TypeOK
<1> DEFINE Inv == LogInv /\ StoreTypeOK /\ SentInv /\ ViewTypeOK
<1>1. Init => Inv
  <2>1. Init => LogInv
    BY LogInvInit DEF Init
  <2>2. Init => StoreTypeOK /\ SentInv
    BY CutoffAssumption DEF Init, StoreInit, StoreTypeOK, SentInv, At, Ingest, Stages
  <2>3. Init => ViewTypeOK
    BY StreamAssumption DEF Init, ViewTypeOK, Phases, BeforeAll
  <2> QED
    BY <2>1, <2>2, <2>3
<1>2. Inv /\ [Next]_vars => Inv'
  <2> SUFFICES ASSUME Inv, [Next]_vars
               PROVE  Inv'
    OBVIOUS
  <2>1. LogType /\ nextId \in Nat \ {0} /\ [StoreNext]_storeVars
    BY StreamStep DEF StoreTypeOK, LogType
  <2>2. LogInv'
    BY <2>1, LogStep, BatchAssumption
  <2>3. StoreTypeOK'
    BY <2>1, StoreTypeStep, BatchAssumption, JobAssumption, CutoffAssumption
  <2>4. SentInv'
    BY <2>1, SentStep, BatchAssumption
  <2>5. ViewTypeOK'
    BY <2>1, StreamTypeStep, BatchAssumption, StreamAssumption
  <2> QED
    BY <2>2, <2>3, <2>4, <2>5
<1>3. Inv => TypeOK
  BY DEF ViewTypeOK, TypeOK
<1> QED
  BY <1>1, <1>2, <1>3, PTL DEF Spec

-----------------------------------------------------------------------------
(* What a client was promised.                                             *)

Settled(b) == At(b, "committed") \/ At(b, "done")

\* The promised lines were stored.  While the history is loaded they are in
\* the pages so far or after the cursor.
PromiseInv ==
    /\ IsFiniteSet(stored)
    /\ \A b \in Batches : ~Settled(b) => ingest[b].sent = 0
    /\ due \subseteq Lines
    /\ \A l \in due : Settled(l[1])
    /\ phase \notin {"loading", "refilling"} => cursor = BeforeAll
    /\ kind = "last" /\ phase = "loading" => due = {}
    /\ phase \in {"loading", "refilling"} =>
            \A l \in due \cap stored : Wanted(l) => l \in loaded \/ Less(cursor, Key(l))
    /\ NothingDueIsLost

\* A batch that is settled keeps its numbers, and no line of it comes again.
LEMMA SettledStay ==
    ASSUME LogType, PromiseInv, [StoreNext]_storeVars
    PROVE  /\ \A b \in Batches : Settled(b) => Settled(b)' /\ ingest'[b].first = ingest[b].first
           /\ \A l \in stored' : l \in Lines /\ (Settled(l[1]) => l \in stored)
           /\ IsFiniteSet(stored')
           /\ \A b \in Batches : ~Settled(b)' => ingest'[b].sent = 0
<1> USE DEF LogType, Settled, At
<1>1. CASE UNCHANGED <<ingest, stored>>
  BY <1>1 DEF PromiseInv
<1>2. ASSUME NEW b \in Batches, \/ IngestRefused(b) \/ IngestRead(b)
                                \/ IngestInsert(b) \/ IngestFails(b)
      PROVE  /\ stored' = stored
             /\ \A a \in Batches : a # b => ingest'[a] = ingest[a]
             /\ ~Settled(b)
             /\ ~Settled(b)' => ingest'[b].sent = ingest[b].sent
  <2>1. CASE IngestRefused(b) \/ IngestFails(b)
    BY <2>1 DEF IngestRefused, IngestFails, GivenUp, Ingest
  <2>2. CASE IngestRead(b) \/ IngestInsert(b)
    BY <2>2 DEF IngestRead, IngestInsert, Ingest
  <2> QED
    BY <1>2, <2>1, <2>2
<1>3. ASSUME NEW b \in Batches, NEW cut \in BOOLEAN, IngestCommit(b, cut)
      PROVE  /\ stored' = stored \cup LinesOf(b) /\ IsFiniteSet(LinesOf(b))
             /\ \A a \in Batches : a # b => ingest'[a] = ingest[a]
             /\ ~Settled(b) /\ Settled(b)'
  <2>a. Size[b] \in Int
    BY BatchAssumption
  <2>b. IsFiniteSet({b})
    BY FS_Singleton
  <2>c. \A n \in Int : IsFiniteSet(1 .. n)
    <3> TAKE n \in Int
    <3> QED
      BY FS_Interval
  <2>1. IsFiniteSet({b}) /\ IsFiniteSet(1 .. Size[b])
    BY <2>a, <2>b, <2>c
  <2>2. IsFiniteSet(LinesOf(b))
    BY <2>1, FS_Product DEF LinesOf
  <2> QED
    BY <1>3, <2>2 DEF IngestCommit, Ingest
<1>4. ASSUME NEW b \in Batches, IngestEmit(b)
      PROVE  /\ stored' = stored
             /\ \A a \in Batches : a # b => ingest'[a] = ingest[a]
             /\ Settled(b)' /\ ingest'[b].first = ingest[b].first
  BY <1>4 DEF IngestEmit, MayEmit, Ingest
<1>5. CASE ServerRestart
  BY <1>5 DEF ServerRestart, Halted, GivenUp, Ingest, PromiseInv
<1>6. CASE \/ \E j \in Ending : JobEnds(j) \/ JobAssigned(j)
           \/ \E x \in Keepable : Retain(x)
           \/ TimePasses
  BY <1>1, <1>6 DEF JobEnds, JobAssigned, Retain, TimePasses
<1>7. CASE Purge \/ DeleteLogs(LogJobs) \/ \E j \in LogJobs : DeleteLogs({j})
  <2>1. stored' \in SUBSET stored /\ ingest' = ingest
    BY <1>7 DEF Purge, DeleteLogs
  <2> QED
    BY <2>1, FS_Subset DEF PromiseInv
<1>8. CASE UNCHANGED storeVars
  BY <1>1, <1>8 DEF storeVars
<1>9. ASSUME NEW b \in Batches, \/ IngestRefused(b) \/ IngestRead(b) \/ IngestInsert(b)
                                \/ IngestFails(b) \/ IngestEmit(b)
      PROVE  /\ \A a \in Batches : Settled(a) => Settled(a)' /\ ingest'[a].first = ingest[a].first
             /\ stored' = stored
             /\ \A a \in Batches : ~Settled(a)' => ingest'[a].sent = 0
  BY <1>2, <1>4, <1>9 DEF PromiseInv
<1>10. CASE \E b \in Batches : \/ IngestRefused(b) \/ IngestRead(b) \/ IngestInsert(b)
                                \/ IngestFails(b) \/ IngestEmit(b)
  BY <1>9, <1>10 DEF PromiseInv
<1>11. ASSUME NEW b \in Batches, NEW cut \in BOOLEAN, IngestCommit(b, cut)
       PROVE  /\ \A a \in Batches : Settled(a) => Settled(a)' /\ ingest'[a].first = ingest[a].first
              /\ \A l \in stored' : l \in Lines /\ (Settled(l[1]) => l \in stored)
              /\ IsFiniteSet(stored')
              /\ \A a \in Batches : ~Settled(a)' => ingest'[a].sent = 0
  <2>a. stored' = stored \cup LinesOf(b) /\ IsFiniteSet(LinesOf(b)) /\ IsFiniteSet(stored)
    BY <1>3, <1>11 DEF PromiseInv
  <2>b. IsFiniteSet(stored \cup LinesOf(b))
    BY <2>a, FS_Union
  <2>1. IsFiniteSet(stored')
    BY <2>a, <2>b
  <2>2. \A l \in LinesOf(b) : l \in Lines /\ l[1] = b
    BY LineFacts, BatchAssumption
  <2> QED
    BY <1>3, <1>11, <2>1, <2>2 DEF PromiseInv
<1> QED
  BY <1>5, <1>6, <1>7, <1>8, <1>10, <1>11 DEF StoreNext, Quiet

\* Unless it emits or restarts, the server keeps all there is of such a batch.
LEMMA SettledRest ==
    ASSUME LogType, Quiet \/ \E b \in Batches, cut \in BOOLEAN : IngestCommit(b, cut)
    PROVE  \A b \in Batches : Settled(b) => ingest'[b] = ingest[b]
<1> USE DEF LogType, Settled, At
<1>1. ASSUME NEW b \in Batches, \/ IngestRefused(b) \/ IngestRead(b)
                                \/ IngestInsert(b) \/ IngestFails(b)
      PROVE  ~Settled(b) /\ \A a \in Batches : a # b => ingest'[a] = ingest[a]
  BY <1>1 DEF IngestRefused, IngestRead, IngestInsert, IngestFails, GivenUp, Ingest
<1>2. ASSUME NEW b \in Batches, NEW cut \in BOOLEAN, IngestCommit(b, cut)
      PROVE  ~Settled(b) /\ \A a \in Batches : a # b => ingest'[a] = ingest[a]
  BY <1>2 DEF IngestCommit
<1>3. CASE \E b \in Batches : \/ IngestRefused(b) \/ IngestRead(b)
                               \/ IngestInsert(b) \/ IngestFails(b)
  BY <1>1, <1>3
<1>4. CASE \E b \in Batches, cut \in BOOLEAN : IngestCommit(b, cut)
  BY <1>2, <1>4
<1> QED
  BY <1>3, <1>4 DEF Quiet, JobEnds, JobAssigned, Retain, TimePasses, Purge, DeleteLogs

\* What is promised stays what it is, whatever happens to the store.
LEMMA PromiseStays ==
    ASSUME LogType, PromiseInv, [StoreNext]_storeVars
    PROVE  /\ IsFiniteSet(stored)'
           /\ \A b \in Batches : ~Settled(b)' => ingest'[b].sent = 0
           /\ \A l \in due : /\ l \in Lines /\ l[1] \in Batches
                             /\ Settled(l[1]) /\ Settled(l[1])'
                             /\ Key(l)' = Key(l)
                             /\ l \in stored' => l \in stored
<1>1. /\ \A b \in Batches : Settled(b) => Settled(b)' /\ ingest'[b].first = ingest[b].first
      /\ \A l \in stored' : l \in Lines /\ (Settled(l[1]) => l \in stored)
      /\ IsFiniteSet(stored')
      /\ \A b \in Batches : ~Settled(b)' => ingest'[b].sent = 0
  BY SettledStay
<1>2. \A l \in due : l \in Lines /\ l[1] \in Batches /\ Settled(l[1])
  BY LineFacts, BatchAssumption DEF PromiseInv
<1> QED
  BY <1>1, <1>2 DEF Key, IdOf

\* Steps of the store that the client does not see.
LEMMA PromiseUnseen ==
    ASSUME LogType, PromiseInv, UNCHANGED viewVars,
           \/ Quiet
           \/ \E b \in Batches, cut \in BOOLEAN : IngestCommit(b, cut)
           \/ ServerRestart /\ phase # "streaming"
           \/ UNCHANGED storeVars
    PROVE  PromiseInv'
<1>1. [StoreNext]_storeVars
  BY DEF StoreNext
<1>2. /\ IsFiniteSet(stored)'
      /\ \A b \in Batches : ~Settled(b)' => ingest'[b].sent = 0
      /\ \A l \in due : /\ l \in Lines /\ l[1] \in Batches
                        /\ Settled(l[1]) /\ Settled(l[1])'
                        /\ Key(l)' = Key(l)
                        /\ l \in stored' => l \in stored
  BY <1>1, PromiseStays
<1>3. UNCHANGED <<kind, filter, phase, cursor, loaded, shown, queue, due>>
  BY DEF viewVars
<1>4. \A l : Wanted(l)' <=> Wanted(l)
  BY <1>3 DEF Wanted, LineJob
<1>5. phase = "streaming" => \A l \in due : l \in ToCome => l \in ToCome'
  <2>1. phase = "streaming" => \A b \in Batches : Settled(b) => ingest'[b] = ingest[b]
    BY SettledRest DEF storeVars
  <2> QED
    BY <1>2, <2>1 DEF ToCome, At
<1>6. NothingDueIsLost'
  BY <1>2, <1>3, <1>4, <1>5 DEF PromiseInv, NothingDueIsLost
<1>7. (phase \in {"loading", "refilling"} =>
         \A l \in due \cap stored : Wanted(l) => l \in loaded \/ Less(cursor, Key(l)))'
  BY <1>2, <1>3, <1>4 DEF PromiseInv, Less
<1> QED
  BY <1>2, <1>3, <1>6, <1>7 DEF PromiseInv

\* A commit: the stream has promised the new lines, which are still to come.
LEMMA PromiseMade ==
    ASSUME LogType, LogInv, PromiseInv, NEW b \in Batches, CommitSeen(b)
    PROVE  PromiseInv'
<1>1. IngestCommit(b, FALSE) /\ UNCHANGED <<kind, filter, phase, cursor, loaded, shown, queue>>
  BY DEF CommitSeen
<1>2. CASE phase # "streaming"
  <2>1. UNCHANGED viewVars
    BY <1>1, <1>2 DEF CommitSeen, viewVars
  <2> QED
    BY <1>1, <2>1, PromiseUnseen
<1>3. CASE phase = "streaming"
  <2>1. [StoreNext]_storeVars
    BY <1>1 DEF StoreNext
  <2>2. /\ IsFiniteSet(stored)'
        /\ \A a \in Batches : ~Settled(a)' => ingest'[a].sent = 0
        /\ \A l \in due : /\ l \in Lines /\ l[1] \in Batches
                          /\ Settled(l[1]) /\ Settled(l[1])'
                          /\ Key(l)' = Key(l)
                          /\ l \in stored' => l \in stored
    BY <2>1, PromiseStays
  <2>3. due' = due \cup LinesOf(b)
    BY <1>3 DEF CommitSeen
  <2>4. /\ At(b, "committed")' /\ Settled(b)'
        /\ ingest'[b].sent = 0
    BY <1>1 DEF IngestCommit, At, Settled, PromiseInv, LogType, Ingest
  <2>5. \A l \in LinesOf(b) : l \in Lines /\ l[1] = b /\ l[2] \in Nat /\ l[2] > 0
    BY LineFacts, BatchAssumption
  <2>6. \A l \in LinesOf(b) : l \in ToCome'
    BY <2>4, <2>5 DEF ToCome
  <2>7. \A l \in due : l \in ToCome => l \in ToCome'
    <3>1. \A a \in Batches : Settled(a) => ingest'[a] = ingest[a]
      BY <1>1, SettledRest
    <3> QED
      BY <2>2, <3>1 DEF ToCome, At
  <2>8. \A l : Wanted(l)' <=> Wanted(l)
    BY <1>1 DEF Wanted, LineJob
  <2>9. NothingDueIsLost'
    BY <1>1, <1>3, <2>2, <2>3, <2>6, <2>7, <2>8 DEF PromiseInv, NothingDueIsLost
  <2>10. due' \subseteq Lines /\ \A l \in due' : Settled(l[1])'
    BY <2>2, <2>3, <2>4, <2>5
  <2> QED
    BY <1>1, <1>3, <2>2, <2>9, <2>10 DEF PromiseInv
<1> QED
  BY <1>2, <1>3

\* The queue of a stream after an entry was taken from its front, or lost.
LEMMA FrontTaken ==
    ASSUME queue \in Seq(Entries), queue # <<>>
    PROVE  \A l : (\E i \in 1 .. Len(queue) : queue[i] = l) =>
              l = Head(queue) \/ \E i \in 1 .. Len(Tail(queue)) : Tail(queue)[i] = l
<1> SUFFICES ASSUME NEW i \in 1 .. Len(queue), i # 1
             PROVE  i - 1 \in 1 .. Len(Tail(queue)) /\ Tail(queue)[i - 1] = queue[i]
  OBVIOUS
<1> QED
  OBVIOUS

LEMMA BackAdded ==
    ASSUME NEW q \in Seq(Entries), NEW m \in Entries
    PROVE  /\ \E i \in 1 .. Len(Append(q, m)) : Append(q, m)[i] = m
           /\ \A l : (\E i \in 1 .. Len(q) : q[i] = l) =>
                     \E i \in 1 .. Len(Append(q, m)) : Append(q, m)[i] = l
OBVIOUS

\* An entry is emitted: it is in the queue of a stream, and what it pushed out
\* is not promised any more.
LEMMA PromiseSent ==
    ASSUME LogType, SeenInv, PromiseInv, NEW b \in Batches, Emit(b)
    PROVE  PromiseInv'
<1> DEFINE m == NextLine(b)
<1>1. IngestEmit(b) /\ UNCHANGED <<stored, kind, filter, phase, cursor, loaded, shown>>
  BY DEF Emit, IngestEmit
<1>2. [StoreNext]_storeVars
  BY <1>1 DEF StoreNext
<1>3. /\ IsFiniteSet(stored)'
      /\ \A a \in Batches : ~Settled(a)' => ingest'[a].sent = 0
      /\ \A l \in due : /\ l \in Lines /\ l[1] \in Batches
                        /\ Settled(l[1]) /\ Settled(l[1])'
                        /\ Key(l)' = Key(l)
                        /\ l \in stored' => l \in stored
  BY <1>2, PromiseStays
<1>4. m \in Entries
  BY DEF NextLine, Entries, LogType, Ingest
<1>5. \A l \in due : l \in ToCome => l = m \/ l \in ToCome'
  <2> SUFFICES ASSUME NEW l \in due, l \in ToCome, l # m
               PROVE  l \in ToCome'
    OBVIOUS
  <2>1. l \in Lines /\ l[1] \in Batches /\ l[2] \in 1 .. Size[l[1]] /\ l = <<l[1], l[2]>>
        /\ Size[l[1]] \in Nat
    BY <1>3, LineFacts, BatchAssumption
  <2>2. CASE l[1] # b
    <3>1. ingest'[l[1]] = ingest[l[1]]
      BY <1>1, <2>1, <2>2 DEF IngestEmit, LogType
    <3> QED
      BY <3>1 DEF ToCome, At
  <2>3. CASE l[1] = b
    <3>1. ingest[b].sent \in Nat /\ l[2] > ingest[b].sent /\ l[2] # ingest[b].sent + 1
      BY <2>1, <2>3 DEF ToCome, NextLine, LogType, Ingest
    <3>2. l[2] > ingest[b].sent + 1 /\ ingest[b].sent + 1 # Size[b]
      BY <2>1, <2>3, <3>1
    <3>3. ingest'[b].at = ingest[b].at /\ ingest'[b].sent = ingest[b].sent + 1
      BY <1>1, <3>2 DEF IngestEmit, LogType, Ingest
    <3> QED
      BY <2>1, <2>3, <3>2, <3>3 DEF ToCome, At
  <2> QED
    BY <2>2, <2>3
<1>6. /\ due' \subseteq due
      /\ phase = "streaming" => \A l \in due' :
            \/ (\E i \in 1 .. Len(queue) : queue[i] = l) \/ l = m
            => \E i \in 1 .. Len(queue') : queue'[i] = l
  <2>1. CASE phase # "streaming"
    BY <2>1 DEF Emit
  <2>2. CASE phase = "streaming" /\ Len(queue) < ChannelCap
    <3>1. queue' = Append(queue, m) /\ due' = due
      BY <2>2 DEF Emit, Broadcast
    <3> HIDE DEF m
    <3> QED
      BY <1>4, <3>1, BackAdded DEF SeenInv
  <2>3. CASE phase = "streaming" /\ ~(Len(queue) < ChannelCap)
    <3>1. queue' = Append(Tail(queue), m) /\ due' = due \ {Head(queue)}
      BY <2>3 DEF Emit, Broadcast
    <3>2. queue # <<>>
      BY <2>3, StreamAssumption
    <3> HIDE DEF m
    <3>3. Tail(queue) \in Seq(Entries)
      BY <3>2, TailFacts DEF SeenInv
    <3>4. \A l : (\E i \in 1 .. Len(queue) : queue[i] = l) =>
              l = Head(queue) \/ \E i \in 1 .. Len(Tail(queue)) : Tail(queue)[i] = l
      BY <3>2, FrontTaken DEF SeenInv
    <3>5. PICK q \in Seq(Entries) : q = Tail(queue)
      BY <3>3
    <3>6. /\ \E i \in 1 .. Len(queue') : queue'[i] = m
          /\ \A l : (\E i \in 1 .. Len(q) : q[i] = l) =>
                     \E i \in 1 .. Len(queue') : queue'[i] = l
      <4>1. queue' = Append(q, m)
        BY <3>1, <3>5
      <4> QED
        BY <1>4, <4>1, BackAdded
    <3> QED
      BY <3>1, <3>4, <3>5, <3>6
  <2> QED
    BY <2>1, <2>2, <2>3
<1> HIDE DEF m
<1>7. \A l : Wanted(l)' <=> Wanted(l)
  BY <1>1 DEF Wanted, LineJob
<1>8. NothingDueIsLost'
  BY <1>1, <1>3, <1>5, <1>6, <1>7 DEF PromiseInv, NothingDueIsLost
<1>9. (phase \in {"loading", "refilling"} =>
         \A l \in due \cap stored : Wanted(l) => l \in loaded \/ Less(cursor, Key(l)))'
  BY <1>1, <1>3, <1>6, <1>7 DEF PromiseInv, Less
<1> QED
  BY <1>1, <1>3, <1>6, <1>8, <1>9 DEF PromiseInv

\* Without a stream nothing is promised.
LEMMA PromiseEnds ==
    ASSUME LogType, PromiseInv, [StoreNext]_storeVars, Disconnected,
           phase \notin {"loading", "refilling"}
    PROVE  PromiseInv'
<1>1. /\ IsFiniteSet(stored)'
      /\ \A b \in Batches : ~Settled(b)' => ingest'[b].sent = 0
  BY PromiseStays
<1>2. due' = {} /\ phase' \in {"waiting", "stopped"} /\ cursor' = BeforeAll
  BY DEF Disconnected, PromiseInv
<1> QED
  BY <1>1, <1>2 DEF PromiseInv, NothingDueIsLost

LEMMA KeysOrdered ==
    ASSUME LogType
    PROVE  /\ \A l \in Lines : Less(BeforeAll, Key(l))
           /\ \A k, l, m \in Lines :
                 Less(Key(k), Key(l)) /\ ~Less(Key(m), Key(l)) => Less(Key(k), Key(m))
<1>1. \A l \in Lines : /\ Stamp[l[1]] \in Nat /\ IdOf(l) \in Int
                       /\ Key(l)[1] = Stamp[l[1]] /\ Key(l)[2] = IdOf(l)
  BY LineFacts, BatchAssumption DEF BatchAssumption, LogType, Ingest, Key, IdOf
<1> QED
  BY <1>1 DEF Less, BeforeAll

\* What a page leaves out comes after every row of it.
LEMMA PageIsOldest ==
    ASSUME LogType, IsFiniteSet(stored),
           NEW l \in Oldest(Rest, PageSize), NEW x \in Rest \ Oldest(Rest, PageSize)
    PROVE  Less(Key(l), Key(x))
<1> DEFINE L == {m \in Rest : Less(Key(m), Key(l))}
           X == {m \in Rest : Less(Key(m), Key(x))}
<1>1. Rest \subseteq stored /\ stored \subseteq Lines /\ l \in Rest
  BY DEF Rest, LogType, Oldest
<1>2. IsFiniteSet(Rest)
  BY <1>1, FS_Subset
<1>3. L \subseteq Rest /\ X \subseteq Rest
  OBVIOUS
<1>4. Cardinality(L) < PageSize /\ ~(Cardinality(X) < PageSize)
  BY DEF Oldest
<1>5. ASSUME ~Less(Key(l), Key(x)) PROVE X \subseteq L
  BY <1>1, <1>5, KeysOrdered
<1> HIDE DEF L, X
<1>6. IsFiniteSet(L) /\ IsFiniteSet(X)
  BY <1>2, <1>3, FS_Subset
<1>7. Cardinality(L) \in Nat /\ Cardinality(X) \in Nat
  BY <1>6, FS_CardinalityType
<1>8. X \subseteq L => Cardinality(X) <= Cardinality(L)
  BY <1>6, FS_Subset
<1> QED
  BY <1>4, <1>5, <1>7, <1>8, StreamAssumption

\* Steps of the client.
LEMMA PromiseSeen ==
    ASSUME LogType, LogInv, SeenInv, PromiseInv, ViewNext, UNCHANGED storeVars
    PROVE  PromiseInv'
<1>1. /\ UNCHANGED <<stored, ingest>>
      /\ [StoreNext]_storeVars
      /\ stored \subseteq Lines /\ \A l \in stored : Settled(l[1])
  BY DEF storeVars, LogType, LogInv, Settled
<1>2. /\ \A l : Key(l)' = Key(l)
      /\ \A l : l \in ToCome <=> l \in ToCome'
      /\ \A b : Settled(b) <=> Settled(b)'
  BY <1>1 DEF Key, IdOf, ToCome, Settled, At
<1>3. /\ IsFiniteSet(stored')
      /\ \A b \in Batches : ~Settled(b)' => ingest'[b].sent = 0
  BY <1>1, <1>2 DEF PromiseInv
<1>4. ViewNext => UNCHANGED <<kind, filter>>
  BY DEF ViewNext, ViewStarts, NextPage, LastPage, TailPage, HistoryEnds, LoadFails, StreamOpens,
         OpenFails, StreamDrops, Disconnected, BackoffEnds, Refresh, Deliver, CrowdedOut
<1>5. \A l : Wanted(l)' <=> Wanted(l)
  BY <1>4 DEF Wanted, LineJob
<1>6. \A l \in stored : Less(BeforeAll, Key(l))
  BY <1>1, KeysOrdered
<1>7. CASE ViewStarts
  <2>1. /\ phase' \in {"ready", "loading"} /\ cursor' = BeforeAll
        /\ due' \in {stored, {}}
        /\ kind' = "last" => due' = {}
        /\ phase' = "ready" => due' = {}
    BY <1>7, <1>4 DEF ViewStarts, PromiseInv
  <2>2. phase' = "loading" => (\A l \in due \cap stored : Less(cursor, Key(l)))'
    BY <1>1, <1>2, <1>6, <2>1 DEF Less
  <2> QED
    BY <1>1, <1>2, <1>3, <2>1, <2>2 DEF PromiseInv, NothingDueIsLost
<1>8. CASE BackoffEnds \/ Refresh
  <2>1. /\ phase' \in {"refilling", "loading"} /\ cursor' = BeforeAll /\ due' = stored
        /\ phase' = "loading" => kind' = "console"
    BY <1>8, <1>4 DEF BackoffEnds, Refresh, AfterBackoff, PromiseInv
  <2>2. (\A l \in due \cap stored : Less(cursor, Key(l)))'
    BY <1>1, <1>2, <1>6, <2>1 DEF Less
  <2> QED
    BY <1>1, <1>2, <1>3, <2>1, <2>2 DEF PromiseInv, NothingDueIsLost
<1>9. CASE NextPage
  <2>1. /\ phase \in {"loading", "refilling"} /\ UNCHANGED <<phase, due>> /\ kind # "last"
        /\ loaded' = loaded \cup Oldest(Rest, PageSize)
    BY <1>9 DEF NextPage
  <2>2. PICK k \in Oldest(Rest, PageSize) : cursor' = Key(k)
    BY <1>9 DEF NextPage
  <2>3. \A l \in Rest : l \in Oldest(Rest, PageSize) \/ Less(Key(k), Key(l))
    BY PageIsOldest DEF PromiseInv
  <2>4. \A l \in due \cap stored : Wanted(l) => l \in loaded \/ l \in Rest
    BY <2>1 DEF PromiseInv, Rest
  <2>5. (\A l \in due \cap stored : Wanted(l) => l \in loaded \/ Less(cursor, Key(l)))'
    BY <1>1, <1>2, <1>5, <2>1, <2>2, <2>3, <2>4 DEF Less
  <2> QED
    BY <1>1, <1>2, <1>3, <1>4, <2>1, <2>5 DEF PromiseInv, NothingDueIsLost
<1>10. CASE LastPage \/ TailPage
  <2>1. /\ phase \in {"loading", "refilling"} /\ phase' = "ready"
        /\ cursor' = BeforeAll /\ due' = due
    BY <1>10 DEF LastPage, TailPage, HistoryEnds
  <2>2. \A l \in due \cap stored : Wanted(l) => l \in shown'
    <3>1. CASE LastPage
      <4>1. loaded \cup Rest \subseteq shown'
        BY <3>1 DEF LastPage, HistoryEnds
      <4>2. \A l \in due \cap stored : Wanted(l) => l \in loaded \/ l \in Rest
        BY <2>1 DEF PromiseInv, Rest
      <4> QED
        BY <4>1, <4>2
    <3>2. CASE TailPage
      BY <3>2 DEF TailPage, PromiseInv
    <3> QED
      BY <1>10, <3>1, <3>2
  <2> QED
    BY <1>1, <1>2, <1>3, <1>5, <2>1, <2>2 DEF PromiseInv, NothingDueIsLost
<1>11. CASE LoadFails
  <2>1. phase' \in {"stopped", "ready"} /\ due' = {} /\ cursor' = BeforeAll
    BY <1>11 DEF LoadFails
  <2> QED
    BY <1>3, <2>1 DEF PromiseInv, NothingDueIsLost
<1>12. CASE OpenFails \/ StreamDrops
  BY <1>1, <1>12, PromiseEnds DEF OpenFails, StreamDrops
<1>13. CASE StreamOpens
  <2>1. /\ phase = "ready" /\ phase' = "streaming"
        /\ UNCHANGED <<cursor, due, shown>>
    BY <1>13 DEF StreamOpens
  <2> QED
    BY <1>1, <1>2, <1>3, <1>5, <2>1 DEF PromiseInv, NothingDueIsLost
<1>14. CASE Deliver \/ CrowdedOut
  <2>1. /\ phase = "streaming" /\ queue # <<>> /\ queue' = Tail(queue)
        /\ UNCHANGED <<phase, cursor, loaded>>
        /\ due' \subseteq due /\ shown \subseteq shown'
        /\ Head(queue) \in due' /\ Wanted(Head(queue)) => Head(queue) \in shown'
    BY <1>14 DEF Deliver, CrowdedOut
  <2>2. \A l : (\E i \in 1 .. Len(queue) : queue[i] = l) =>
           l = Head(queue) \/ \E i \in 1 .. Len(queue') : queue'[i] = l
    BY <2>1, FrontTaken DEF SeenInv
  <2>3. NothingDueIsLost'
    BY <1>1, <1>2, <1>5, <2>1, <2>2 DEF PromiseInv, NothingDueIsLost
  <2> QED
    BY <1>1, <1>2, <1>3, <2>1, <2>3 DEF PromiseInv
<1> QED
  BY <1>7, <1>8, <1>9, <1>10, <1>11, <1>12, <1>13, <1>14 DEF ViewNext

LEMMA PromiseStep ==
    ASSUME LogType, LogInv, SeenInv, PromiseInv, [Next]_vars
    PROVE  PromiseInv'
<1>1. CASE Quiet /\ UNCHANGED viewVars
  BY <1>1, PromiseUnseen
<1>2. CASE \E b \in Batches : IngestCommit(b, TRUE) /\ UNCHANGED viewVars
  BY <1>2, PromiseUnseen
<1>3. CASE \E b \in Batches : CommitSeen(b)
  BY <1>3, PromiseMade
<1>4. CASE \E b \in Batches : Emit(b)
  BY <1>4, PromiseSent
<1>5. CASE Restart
  <2>1. CASE phase = "streaming"
    BY <1>5, <2>1, PromiseEnds DEF Restart, StoreNext
  <2>2. CASE phase # "streaming"
    BY <1>5, <2>2, PromiseUnseen DEF Restart
  <2> QED
    BY <2>1, <2>2
<1>6. CASE ViewNext /\ UNCHANGED storeVars
  BY <1>6, PromiseSeen
<1>7. CASE UNCHANGED vars
  BY <1>7, PromiseUnseen DEF vars
<1> QED
  BY <1>1, <1>2, <1>3, <1>4, <1>5, <1>6, <1>7 DEF Next

\* Whatever is committed, deleted, purged, emitted or lost while a client loads
\* the history and watches the stream, no line it was promised is missed
\* (list_session_logs, stream_session_logs, and the clients' cursors).
THEOREM PromisesAreKept == Spec => []NothingDueIsLost
<1> DEFINE Inv == LogInv /\ LogType /\ SeenInv /\ PromiseInv
<1>1. Init => Inv
  <2>1. Init => LogInv /\ LogType
    BY LogInvInit DEF Init
  <2>2. Init => SeenInv
    BY DEF Init, StoreInit, SeenInv, InQueue, At
  <2>3. Init => PromiseInv
    BY FS_EmptySet DEF Init, StoreInit, PromiseInv, NothingDueIsLost
  <2> QED
    BY <2>1, <2>2, <2>3
<1>2. Inv /\ [Next]_vars => Inv'
  BY StreamStep, LogStep, SeenStep, PromiseStep, BatchAssumption DEF SeenInv
<1>3. Inv => NothingDueIsLost
  BY DEF PromiseInv
<1> QED
  BY <1>1, <1>2, <1>3, PTL DEF Spec
==============================================================================
